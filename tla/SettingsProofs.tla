---------------------------- MODULE SettingsProofs ----------------------------
(***************************************************************************)
(* Theorems about Settings, for any banks, ids, typed values and bounds.   *)
(* That undo and redo walk a line of versions, that no bank is unsound and *)
(* that the user is at a record which exists hold each other up: a step    *)
(* of the history can be replayed only because it was made at a record     *)
(* that both of its banks have.                                            *)
(***************************************************************************)
EXTENDS Settings, SequenceTheorems, TLAPS

GoodBanks == {r \in Banks : Valid(r)}

GoodObjects == [object : 0..MaxObjects, records : GoodBanks]

GoodPlaces == {p \in Places : p.field \in 1..Len(Fields[p.section])}

\* A step at a record or at a field was made where both of its banks have a record.
Fits(step) ==
  step.scope \in {"field", "record"} =>
    /\ step.at.record \in 1..Len(step.before.records[step.at.section])
    /\ step.at.record \in 1..Len(step.after.records[step.at.section])

GoodSteps ==
  {step \in [scope : {"field", "record", "section", "bank"}, at : GoodPlaces,
             before : GoodObjects, after : GoodObjects] : Fits(step)}

\* Every step of the history ends where the next one begins.
Linked ==
  /\ \A i \in 1..Len(undo) :
        undo[i].after = IF i = Len(undo) THEN bank ELSE undo[i + 1].before
  /\ \A i \in 1..Len(redo) :
        redo[i].before = IF i = Len(redo) THEN bank ELSE redo[i + 1].after

\* The part of the invariant about banks and their history.
BankInv ==
  /\ disk \in GoodBanks /\ made \in 1..MaxObjects
  /\ cached \in GoodObjects /\ bank \in GoodObjects /\ saved \in GoodObjects
  /\ undo \in Seq(GoodSteps) /\ redo \in Seq(GoodSteps)
  /\ Len(undo) + Len(redo) <= MaxHistory
  /\ Linked

\* The part about the cursor and the sub-modes, which exclude each other.
CursorInv ==
  /\ open \in BOOLEAN /\ editing \in BOOLEAN /\ searching \in BOOLEAN
  /\ misled \in BOOLEAN
  /\ place \in GoodPlaces /\ origin \in GoodPlaces
  /\ asked \in {"none", "field", "record", "section", "bank"}
  /\ editing => open /\ ~searching /\ place.level = "field"
  /\ searching => open
  /\ open => IsReal(place) \/ misled
  /\ searching => IsReal(origin) \/ misled

\* What a confirmation that is open was opened for.
AskedInv ==
  /\ asked # "none" => open /\ ~editing /\ ~searching
  /\ asked # "none" => asked = place.level \/ (asked = "bank" /\ place.level = "section")
  /\ asked \in {"field", "record"} =>
       /\ IsReal(place)
       /\ Find(Defaults[place.section], RecordsAt(place)[place.record].id) # 0

\* The rest of TypeOK.
SearchInv ==
  /\ query \in Seq(Chars)
  /\ matches \subseteq Sections \X (Nat \ {0})
  /\ match \in matches \cup {<<>>}

DirtyInv == dirty \in BOOLEAN

IInv == BankInv /\ CursorInv /\ AskedInv /\ SearchInv /\ DirtyInv
-----------------------------------------------------------------------------
(* The records of a bank.                                                  *)

\* Every kind of record has two or three fields.
LEMMA FieldNumbers == \A s \in Sections : Len(Fields[s]) \in 2..3
<1> TAKE s \in Sections
<1>1. s = "voices" \/ s = "sounds" \/ s = "bindings"
  BY DEF Sections
<1>2. /\ Fields["voices"] = <<"id", "rate">> /\ Fields["sounds"] = <<"id", "volume">>
      /\ Fields["bindings"] = <<"id", "voice_id", "sound_id">>
  BY DEF Fields
<1> QED BY <1>1, <1>2

\* There is a first one.
LEMMA FirstField == \A s \in Sections : 1 \in 1..Len(Fields[s])
<1> TAKE s \in Sections
<1>1. Len(Fields[s]) \in 2..3
  BY FieldNumbers
<1> QED BY <1>1

\* A field holds one of its values, and takes any of them.
LEMMA FieldTyped ==
  ASSUME NEW s \in Sections, NEW e \in Entries[s], NEW f \in 1..Len(Fields[s])
  PROVE  /\ e[Fields[s][f]] \in FieldValues(Fields[s][f])
         /\ \A v \in FieldValues(Fields[s][f]) :
              [e EXCEPT ![Fields[s][f]] = v] \in Entries[s]
<1>1. CASE s = "voices"
  <2>1. Fields[s] = <<"id", "rate">> /\ Entries[s] = [id : Ids, rate : Numbers]
    BY <1>1 DEF Fields, Entries
  <2>2. f = 1 \/ f = 2
    BY <2>1
  <2>3. CASE f = 1
    <3>1. Fields[s][f] = "id" BY <2>1, <2>3
    <3>2. FieldValues(Fields[s][f]) = Ids BY <3>1 DEF FieldValues
    <3> QED BY <2>1, <3>1, <3>2
  <2>4. CASE f = 2
    <3>1. Fields[s][f] = "rate" BY <2>1, <2>4
    <3>2. FieldValues(Fields[s][f]) = Numbers BY <3>1 DEF FieldValues
    <3> QED BY <2>1, <3>1, <3>2
  <2> QED BY <2>2, <2>3, <2>4
<1>2. CASE s = "sounds"
  <2>1. Fields[s] = <<"id", "volume">> /\ Entries[s] = [id : Ids, volume : Numbers]
    BY <1>2 DEF Fields, Entries
  <2>2. f = 1 \/ f = 2
    BY <2>1
  <2>3. CASE f = 1
    <3>1. Fields[s][f] = "id" BY <2>1, <2>3
    <3>2. FieldValues(Fields[s][f]) = Ids BY <3>1 DEF FieldValues
    <3> QED BY <2>1, <3>1, <3>2
  <2>4. CASE f = 2
    <3>1. Fields[s][f] = "volume" BY <2>1, <2>4
    <3>2. FieldValues(Fields[s][f]) = Numbers BY <3>1 DEF FieldValues
    <3> QED BY <2>1, <3>1, <3>2
  <2> QED BY <2>2, <2>3, <2>4
<1>3. CASE s = "bindings"
  <2>1. /\ Fields[s] = <<"id", "voice_id", "sound_id">>
        /\ Entries[s] = [id : Ids, voice_id : Ids \cup {None}, sound_id : Ids \cup {None}]
    BY <1>3 DEF Fields, Entries
  <2>2. f = 1 \/ f = 2 \/ f = 3
    BY <2>1
  <2>3. CASE f = 1
    <3>1. Fields[s][f] = "id" BY <2>1, <2>3
    <3>2. FieldValues(Fields[s][f]) = Ids BY <3>1 DEF FieldValues
    <3> QED BY <2>1, <3>1, <3>2
  <2>4. CASE f = 2
    <3>1. Fields[s][f] = "voice_id" BY <2>1, <2>4
    <3>2. FieldValues(Fields[s][f]) = Ids \cup {None} BY <3>1 DEF FieldValues
    <3> QED BY <2>1, <3>1, <3>2
  <2>5. CASE f = 3
    <3>1. Fields[s][f] = "sound_id" BY <2>1, <2>5
    <3>2. FieldValues(Fields[s][f]) = Ids \cup {None} BY <3>1 DEF FieldValues
    <3> QED BY <2>1, <3>1, <3>2
  <2> QED BY <2>2, <2>3, <2>4, <2>5
<1> QED BY <1>1, <1>2, <1>3 DEF Sections

\* A section of a bank is a sequence of its kind of record.
LEMMA SectionTyped ==
  ASSUME NEW b \in Banks, NEW s \in Sections
  PROVE  b[s] \in Seq(Entries[s])
<1>1. /\ b["voices"] \in Seq(Entries["voices"]) /\ b["sounds"] \in Seq(Entries["sounds"])
      /\ b["bindings"] \in Seq(Entries["bindings"])
  BY DEF Banks
<1>2. s = "voices" \/ s = "sounds" \/ s = "bindings"
  BY DEF Sections
<1> QED BY <1>1, <1>2

\* Another sequence in the place of a section gives a bank.
LEMMA SectionReplaced ==
  ASSUME NEW b \in Banks, NEW s \in Sections, NEW entries \in Seq(Entries[s])
  PROVE  /\ [b EXCEPT ![s] = entries] \in Banks
         /\ \A t \in Sections :
              [b EXCEPT ![s] = entries][t] = IF t = s THEN entries ELSE b[t]
<1>1. CASE s = "voices"
  BY <1>1 DEF Banks, Sections
<1>2. CASE s = "sounds"
  BY <1>2 DEF Banks, Sections
<1>3. CASE s = "bindings"
  BY <1>3 DEF Banks, Sections
<1> QED BY <1>1, <1>2, <1>3 DEF Sections

\* What an edit or a reset makes of a bank.
WithRecord(b, s, i, e) == [b EXCEPT ![s][i] = e]

AsLong(b, c, s) == Len(b[s]) = Len(c[s])

WithField(b, s, i, name, v) == [b EXCEPT ![s][i][name] = v]

\* Another record in the place of one gives a bank whose sections are as long.
LEMMA RecordReplaced ==
  ASSUME NEW b \in Banks, NEW s \in Sections, NEW i \in 1..Len(b[s]), NEW e \in Entries[s]
  PROVE  /\ WithRecord(b, s, i, e) \in Banks
         /\ AsLong(WithRecord(b, s, i, e), b, s)
<1> DEFINE entries == [b[s] EXCEPT ![i] = e]
<1>1. b[s] \in Seq(Entries[s])
  BY SectionTyped
<1>2. entries \in Seq(Entries[s]) /\ Len(entries) = Len(b[s])
  BY <1>1, ExceptSeq
<1>3. WithRecord(b, s, i, e) = [b EXCEPT ![s] = entries]
  BY DEF WithRecord
<1> HIDE DEF entries
<1>4. /\ [b EXCEPT ![s] = entries] \in Banks
      /\ [b EXCEPT ![s] = entries][s] = entries
  BY <1>2, SectionReplaced
<1> QED BY <1>2, <1>3, <1>4 DEF AsLong

\* Another value in the place of one does the same.
LEMMA FieldReplaced ==
  ASSUME NEW b \in Banks, NEW s \in Sections, NEW i \in 1..Len(b[s]),
         NEW f \in 1..Len(Fields[s]), NEW name, name = Fields[s][f],
         NEW v \in FieldValues(name)
  PROVE  /\ WithField(b, s, i, name, v) \in Banks
         /\ AsLong(WithField(b, s, i, name, v), b, s)
<1> DEFINE e == [b[s][i] EXCEPT ![name] = v]
<1>1. b[s][i] \in Entries[s]
  BY SectionTyped, ElementOfSeq
<1>2. e \in Entries[s]
  BY <1>1, FieldTyped
<1>3. WithField(b, s, i, name, v) = WithRecord(b, s, i, e)
  BY DEF WithField, WithRecord
<1> HIDE DEF e
<1> QED BY <1>2, <1>3, RecordReplaced

\* Where ids are unique, what Find finds is a position.
LEMMA FoundIsReal ==
  ASSUME NEW b \in GoodBanks, NEW s \in Sections, NEW id, Find(b[s], id) # 0
  PROVE  Find(b[s], id) \in 1..Len(b[s])
<1>1. \E i \in 1..Len(b[s]) : b[s][i].id = id
  BY DEF Find
<1>2. PICK i \in 1..Len(b[s]) : b[s][i].id = id
  BY <1>1
<1>3. \A j \in 1..Len(b[s]) : b[s][j].id = id => i = j
  BY <1>2 DEF GoodBanks, Valid
<1>4. b[s] \in Seq(Entries[s])
  BY SectionTyped DEF GoodBanks
<1>5. Len(b[s]) \in Nat
  BY <1>4, LenProperties
<1>6. \A j \in 1..(i - 1) : b[s][j].id # id
  BY <1>3, <1>5
<1> QED BY <1>1, <1>2, <1>6 DEF Find

\* What a query hits is there.
LEMMA HitIsReal ==
  ASSUME NEW b \in Banks, NEW q, NEW hit \in Hits(b, q)
  PROVE  /\ hit \in Sections \X (Nat \ {0})
         /\ hit[2] \in 1..Len(b[hit[1]])
<1>1. PICK s \in Sections : hit \in HitsIn(b, s, q)
  BY DEF Hits, Sections
<1>2. PICK i \in 1..Len(b[s]) : hit = <<s, i>>
  BY <1>1 DEF HitsIn
<1>3. Len(b[s]) \in Nat
  BY SectionTyped, LenProperties
<1> QED BY <1>2, <1>3
-----------------------------------------------------------------------------
(* Banks and their history.                                                *)

\* The last step of one stack put on the other.
LEMMA LastIsMoved ==
  ASSUME NEW S, NEW from \in Seq(S), NEW to \in Seq(S), from # <<>>
  PROVE  LET step == from[Len(from)]
             left == SubSeq(from, 1, Len(from) - 1)
             more == Append(to, step)
         IN /\ Len(from) \in Nat \ {0} /\ Len(to) \in Nat /\ step \in S
            /\ left \in Seq(S) /\ Len(left) = Len(from) - 1
            /\ \A i \in 1..Len(left) : left[i] = from[i]
            /\ more \in Seq(S) /\ Len(more) = Len(to) + 1
            /\ \A i \in 1..Len(to) : more[i] = to[i]
            /\ more[Len(to) + 1] = step
<1>1. Len(from) \in Nat \ {0} /\ Len(to) \in Nat
  BY EmptySeq, LenProperties
<1>2. \A i \in 1..Len(from) : from[i] \in S
  BY ElementOfSeq
<1> DEFINE n == Len(from) - 1
<1>3. n \in Int /\ 1 \in Int /\ \A i \in 1..n : from[i] \in S
  BY <1>1, <1>2
<1>4. /\ SubSeq(from, 1, n) \in Seq(S)
      /\ Len(SubSeq(from, 1, n)) = (IF 1 <= n THEN n - 1 + 1 ELSE 0)
      /\ \A i \in 1..(n - 1 + 1) : SubSeq(from, 1, n)[i] = from[1 + i - 1]
  <2> HIDE DEF n
  <2> QED BY <1>3, SubSeqProperties
<1>5. Len(SubSeq(from, 1, n)) = n /\ \A i \in 1..n : SubSeq(from, 1, n)[i] = from[i]
  <2>1. n \in Nat
    BY <1>1
  <2> HIDE DEF n
  <2>2. /\ n - 1 + 1 = n /\ (n = 0 \/ 1 <= n)
        /\ \A i \in 1..n : 1 + i - 1 = i
    BY <2>1
  <2> QED BY <1>4, <2>1, <2>2
<1>6. from[Len(from)] \in S
  BY <1>1, <1>2
<1>7. /\ Append(to, from[Len(from)]) \in Seq(S)
      /\ Len(Append(to, from[Len(from)])) = Len(to) + 1
      /\ \A i \in 1..Len(to) : Append(to, from[Len(from)])[i] = to[i]
      /\ Append(to, from[Len(from)])[Len(to) + 1] = from[Len(from)]
  BY <1>6, AppendProperties
<1> QED BY <1>1, <1>4, <1>5, <1>6, <1>7

\* One more step, from the live bank to the one that takes its place.
LEMMA PushKeepsTheLine ==
  ASSUME SettingsAssumption, BankInv, NEW step \in GoodSteps, Push(step),
         step.before = bank, bank' = step.after
  PROVE  /\ undo' \in Seq(GoodSteps) /\ redo' \in Seq(GoodSteps)
         /\ Len(undo') + Len(redo') <= MaxHistory
         /\ Linked'
<1>1. /\ undo \in Seq(GoodSteps) /\ Len(undo) \in Nat /\ MaxHistory \in Nat \ {0}
      /\ Len(undo) <= MaxHistory
  BY LenProperties DEF BankInv, SettingsAssumption
<1>2. redo' = <<>> /\ redo' \in Seq(GoodSteps) /\ Len(redo') = 0
  BY EmptySeq DEF Push
<1>3. \A i \in 1..Len(undo) :
         undo[i].after = IF i = Len(undo) THEN bank ELSE undo[i + 1].before
  BY DEF BankInv, Linked
<1>4. CASE Len(undo) >= MaxHistory
  <2> DEFINE kept == Tail(undo)
  <2>1. undo # <<>> /\ Len(undo) = MaxHistory
    BY <1>1, <1>4, EmptySeq
  <2>2. /\ kept \in Seq(GoodSteps) /\ Len(kept) = Len(undo) - 1
        /\ \A i \in 1..Len(kept) : kept[i] = undo[i + 1]
    BY <1>1, <2>1, HeadTailProperties
  <2>3. undo' = Append(kept, step)
    BY <1>4 DEF Push
  <2> HIDE DEF kept
  <2>4. /\ undo' \in Seq(GoodSteps) /\ Len(undo') = Len(undo)
        /\ \A i \in 1..Len(kept) : undo'[i] = kept[i]
        /\ undo'[Len(kept) + 1] = step
    BY <2>2, <2>3, AppendProperties
  <2>5. ASSUME NEW i \in 1..Len(undo')
        PROVE  undo'[i].after = IF i = Len(undo') THEN bank' ELSE undo'[i + 1].before
    <3>1. CASE i = Len(undo')
      BY <3>1, <2>2, <2>4, <1>1
    <3>2. CASE i = Len(undo') - 1
      <4>1. undo'[i] = undo[i + 1] /\ undo'[i + 1] = step /\ i + 1 = Len(undo)
        BY <3>2, <2>2, <2>4, <1>1
      <4> QED BY <4>1, <1>1, <1>3, <2>4
    <3>3. CASE i < Len(undo') - 1
      <4>1. undo'[i] = undo[i + 1] /\ undo'[i + 1] = undo[i + 2] /\ i + 1 < Len(undo)
        BY <3>3, <2>2, <2>4, <1>1
      <4>2. undo[i + 1].after = undo[i + 2].before
        BY <4>1, <1>1, <1>3
      <4> QED BY <4>1, <4>2, <2>4, <1>1
    <3> QED BY <3>1, <3>2, <3>3, <2>4, <1>1
  <2> QED BY <1>1, <1>2, <2>1, <2>4, <2>5 DEF Linked
<1>5. CASE Len(undo) < MaxHistory
  <2>1. undo' = Append(undo, step)
    BY <1>1, <1>5 DEF Push
  <2>2. /\ undo' \in Seq(GoodSteps) /\ Len(undo') = Len(undo) + 1
        /\ \A i \in 1..Len(undo) : undo'[i] = undo[i]
        /\ undo'[Len(undo) + 1] = step
    BY <1>1, <2>1, AppendProperties
  <2>3. ASSUME NEW i \in 1..Len(undo')
        PROVE  undo'[i].after = IF i = Len(undo') THEN bank' ELSE undo'[i + 1].before
    BY <1>1, <1>3, <2>2
  <2> QED BY <1>1, <1>2, <1>5, <2>2, <2>3 DEF Linked
<1> QED BY <1>1, <1>4, <1>5

\* A step made here fits, if both banks have the record it is made at.
LEMMA StepFits ==
  ASSUME BankInv, CursorInv, NEW scope \in {"field", "record", "section", "bank"},
         NEW after \in GoodObjects,
         scope \in {"field", "record"} =>
           /\ place.record \in 1..Len(bank.records[place.section])
           /\ place.record \in 1..Len(after.records[place.section])
  PROVE  /\ Step(scope, after) \in GoodSteps
         /\ Step(scope, after).before = bank /\ Step(scope, after).after = after
  BY DEF BankInv, CursorInv, Step, GoodSteps, Fits

\* A bank that is made is an object of its own.
LEMMA MadeIsGood ==
  ASSUME SettingsAssumption, BankInv, NEW records \in GoodBanks, Make(records)
  PROVE  /\ bank' \in GoodObjects /\ bank'.records = records
         /\ made' \in 1..MaxObjects
<1>1. made \in 1..MaxObjects /\ made < MaxObjects /\ made' = made + 1
      /\ bank' = Object(made + 1, records)
  BY DEF BankInv, Make
<1> QED BY <1>1 DEF SettingsAssumption, Object, GoodObjects

\* The record of the defaults that a record or a field is reset from.
LEMMA DefaultIsTyped ==
  ASSUME SettingsAssumption, BankInv, CursorInv, AskedInv,
         asked \in {"field", "record"}
  PROVE  LET s == place.section
         IN Defaults[s][Find(Defaults[s], RecordsAt(place)[place.record].id)] \in Entries[s]
<1>1. place.section \in Sections /\ Defaults \in GoodBanks /\ Defaults \in Banks
  BY DEF CursorInv, GoodPlaces, Places, SettingsAssumption, GoodBanks
<1>2. Find(Defaults[place.section], RecordsAt(place)[place.record].id)
        \in 1..Len(Defaults[place.section])
  BY <1>1, FoundIsReal DEF AskedInv
<1> QED BY <1>1, <1>2, SectionTyped, ElementOfSeq

\* A reset gives a bank, and one of a record or a field leaves its section as long.
LEMMA ResetIsTyped ==
  ASSUME SettingsAssumption, BankInv, CursorInv, AskedInv, asked # "none"
  PROVE  /\ ResetRecords(asked) \in Banks
         /\ asked \in {"field", "record"} =>
              /\ place.record \in 1..Len(bank.records[place.section])
              /\ place.record \in 1..Len(ResetRecords(asked)[place.section])
<1> DEFINE s == place.section
           default == Defaults[s][Find(Defaults[s], RecordsAt(place)[place.record].id)]
<1>1. /\ s \in Sections /\ Defaults \in Banks /\ bank.records \in Banks
      /\ place.field \in 1..Len(Fields[s])
  BY DEF CursorInv, GoodPlaces, Places, SettingsAssumption, BankInv, GoodObjects, GoodBanks
<1>2. CASE asked = "bank"
  BY <1>1, <1>2 DEF ResetRecords
<1>3. CASE asked = "section"
  <2>1. ResetRecords(asked) = [bank.records EXCEPT ![s] = Defaults[s]]
    BY <1>3 DEF ResetRecords
  <2>2. Defaults[s] \in Seq(Entries[s])
    BY <1>1, SectionTyped
  <2>3. [bank.records EXCEPT ![s] = Defaults[s]] \in Banks
    BY <1>1, <2>2, SectionReplaced
  <2> QED BY <1>3, <2>1, <2>3
<1>4. ASSUME asked \in {"field", "record"}
      PROVE  place.record \in 1..Len(bank.records[s]) /\ default \in Entries[s]
  <2>1. place.level = asked /\ IsReal(place)
    BY <1>4 DEF AskedInv
  <2>2. default \in Entries[s]
    BY <1>4, DefaultIsTyped
  <2> QED BY <1>4, <2>1, <2>2 DEF IsReal, RecordsAt
<1>5. CASE asked = "record"
  <2>1. ResetRecords(asked) = WithRecord(bank.records, s, place.record, default)
    BY <1>5 DEF ResetRecords, WithRecord
  <2>2. place.record \in 1..Len(bank.records[s]) /\ default \in Entries[s]
    BY <1>4, <1>5
  <2> HIDE DEF default
  <2>3. /\ ResetRecords(asked) \in Banks
        /\ AsLong(ResetRecords(asked), bank.records, s)
    BY <1>1, <2>1, <2>2, RecordReplaced
  <2> QED BY <2>2, <2>3 DEF AsLong
<1>6. CASE asked = "field"
  <2>1. ResetRecords(asked)
          = WithField(bank.records, s, place.record, Fields[s][place.field],
                      default[Fields[s][place.field]])
    BY <1>6 DEF ResetRecords, FieldAt, WithField
  <2>2. place.record \in 1..Len(bank.records[s]) /\ default \in Entries[s]
    BY <1>4, <1>6
  <2> DEFINE v == default[Fields[s][place.field]]
  <2> HIDE DEF default
  <2>3. v \in FieldValues(Fields[s][place.field])
    BY <1>1, <2>2, FieldTyped
  <2> DEFINE name == Fields[s][place.field]
  <2>4. /\ ResetRecords(asked) = WithField(bank.records, s, place.record, name, v)
        /\ v \in FieldValues(name) /\ name = Fields[s][place.field]
    BY <2>1, <2>3
  <2> HIDE DEF v, name
  <2>5. /\ ResetRecords(asked) \in Banks
        /\ Len(ResetRecords(asked)[s]) = Len(bank.records[s])
    <3>1. /\ WithField(bank.records, s, place.record, name, v) \in Banks
          /\ AsLong(WithField(bank.records, s, place.record, name, v), bank.records, s)
      BY <1>1, <2>2, <2>4, FieldReplaced
    <3> QED BY <2>4, <3>1 DEF AsLong
  <2> QED BY <2>2, <2>5
<1> QED BY <1>2, <1>3, <1>5, <1>6 DEF CursorInv

\* An edit that is committed makes one bank, with as many records.
LEMMA CommitMakesABank ==
  ASSUME BankInv, CursorInv, CommitEdit
  PROVE  \E records \in GoodBanks :
           /\ Make(records) /\ Push(Step("field", bank'))
           /\ AsLong(records, bank.records, place.section)
<1> DEFINE f == FieldAt(place)
<1>1. PICK value \in FieldValues(f) \cap Typed[f] :
        LET edited == [bank.records EXCEPT ![place.section][place.record][f] = value]
        IN Valid(edited) /\ Make(edited) /\ Push(Step("field", bank'))
  BY DEF CommitEdit
<1> DEFINE edited == [bank.records EXCEPT ![place.section][place.record][f] = value]
<1>2. /\ place.section \in Sections /\ place.field \in 1..Len(Fields[place.section])
      /\ bank.records \in Banks /\ f = Fields[place.section][place.field]
  BY DEF CursorInv, GoodPlaces, Places, BankInv, GoodObjects, GoodBanks, FieldAt
<1>3. place.record \in 1..Len(bank.records[place.section])
  BY DEF CommitEdit, CursorInv, IsReal, RecordsAt
<1>4. edited = WithField(bank.records, place.section, place.record, f, value)
  BY DEF WithField
<1>5. value \in FieldValues(f)
  OBVIOUS
<1>6. Valid(edited) /\ Make(edited) /\ Push(Step("field", bank'))
  BY <1>1
<1> HIDE DEF f, edited
<1>7. /\ WithField(bank.records, place.section, place.record, f, value) \in Banks
      /\ AsLong(WithField(bank.records, place.section, place.record, f, value),
                bank.records, place.section)
  BY <1>2, <1>3, <1>5, FieldReplaced
<1>8. edited \in GoodBanks /\ AsLong(edited, bank.records, place.section)
  BY <1>4, <1>6, <1>7 DEF GoodBanks
<1> QED BY <1>6, <1>8

-----------------------------------------------------------------------------
\* No step leaves a bank that is unsound or a history that is not a line.
LEMMA BankStep ==
  ASSUME SettingsAssumption, IInv, Next
  PROVE  BankInv'
<1> USE DEF IInv
<1>1. ASSUME UNCHANGED <<outside, bank, saved, history>>
      PROVE  BankInv'
  BY <1>1 DEF BankInv, Linked, outside, history
<1>2. CASE CommitEdit
  <2>1. PICK records \in GoodBanks : Make(records) /\ Push(Step("field", bank'))
                                     /\ AsLong(records, bank.records, place.section)
    BY <1>2, CommitMakesABank
  <2>2. bank' \in GoodObjects /\ bank'.records = records /\ made' \in 1..MaxObjects
    BY <2>1, MadeIsGood
  <2>3. place.record \in 1..Len(bank.records[place.section])
    BY <1>2 DEF CommitEdit, CursorInv, IsReal, RecordsAt
  <2>4. /\ Step("field", bank') \in GoodSteps
        /\ Step("field", bank').before = bank /\ Step("field", bank').after = bank'
    BY <2>1, <2>2, <2>3, StepFits DEF AsLong
  <2>5. /\ undo' \in Seq(GoodSteps) /\ redo' \in Seq(GoodSteps)
        /\ Len(undo') + Len(redo') <= MaxHistory /\ Linked'
    BY <2>1, <2>4, PushKeepsTheLine
  <2> QED BY <1>2, <2>2, <2>5 DEF BankInv, CommitEdit
<1>3. CASE Undo
  <2> DEFINE step == undo[Len(undo)]
  <2>1. /\ bank' = step.before /\ undo' = SubSeq(undo, 1, Len(undo) - 1)
        /\ redo' = Append(redo, step) /\ undo # <<>> /\ UNCHANGED <<outside, saved>>
    BY <1>3 DEF Undo
  <2>2. /\ undo \in Seq(GoodSteps) /\ redo \in Seq(GoodSteps)
        /\ Len(undo) + Len(redo) <= MaxHistory
    BY DEF BankInv
  <2>3. /\ Len(undo) \in Nat \ {0} /\ Len(redo) \in Nat /\ step \in GoodSteps
        /\ undo' \in Seq(GoodSteps) /\ Len(undo') = Len(undo) - 1
        /\ \A i \in 1..Len(undo') : undo'[i] = undo[i]
        /\ redo' \in Seq(GoodSteps) /\ Len(redo') = Len(redo) + 1
        /\ \A i \in 1..Len(redo) : redo'[i] = redo[i]
        /\ redo'[Len(redo) + 1] = step
    BY <2>1, <2>2, LastIsMoved
  <2>4. bank' \in GoodObjects
    BY <2>1, <2>3 DEF GoodSteps
  <2>5. \A i \in 1..Len(undo) :
           undo[i].after = IF i = Len(undo) THEN bank ELSE undo[i + 1].before
    BY DEF BankInv, Linked
  <2>6. \A i \in 1..Len(redo) :
           redo[i].before = IF i = Len(redo) THEN bank ELSE redo[i + 1].after
    BY DEF BankInv, Linked
  <2>7. step.after = bank
    BY <2>3, <2>5
  <2>8. ASSUME NEW i \in 1..Len(undo')
        PROVE  undo'[i].after = IF i = Len(undo') THEN bank' ELSE undo'[i + 1].before
    <3>1. i \in 1..Len(undo) /\ i # Len(undo) /\ undo'[i].after = undo[i + 1].before
      BY <2>3, <2>5
    <3>2. CASE i = Len(undo')
      <4>1. i + 1 = Len(undo)
        BY <2>3, <3>2
      <4>2. bank' = undo[i + 1].before
        BY <2>1, <4>1
      <4> QED BY <3>1, <3>2, <4>2
    <3>3. CASE i # Len(undo')
      <4>1. i + 1 \in 1..Len(undo')
        BY <2>3, <3>3
      <4>2. undo'[i + 1] = undo[i + 1]
        BY <2>3, <4>1
      <4> QED BY <3>1, <3>3, <4>2
    <3> QED BY <3>2, <3>3
  <2>9. ASSUME NEW i \in 1..Len(redo')
        PROVE  redo'[i].before = IF i = Len(redo') THEN bank' ELSE redo'[i + 1].after
    <3>1. CASE i = Len(redo) + 1
      BY <2>1, <2>3, <3>1
    <3>2. CASE i = Len(redo)
      BY <2>3, <2>6, <2>7, <3>2
    <3>3. CASE i < Len(redo)
      BY <2>3, <2>6, <3>3
    <3> QED BY <2>3, <3>1, <3>2, <3>3
  <2> HIDE DEF step
  <2>10. Linked' /\ Len(undo') + Len(redo') <= MaxHistory
    BY <2>2, <2>3, <2>8, <2>9 DEF Linked
  <2> QED BY <2>1, <2>3, <2>4, <2>10 DEF BankInv, outside
<1>4. CASE Redo
  <2> DEFINE step == redo[Len(redo)]
  <2>1. /\ bank' = step.after /\ redo' = SubSeq(redo, 1, Len(redo) - 1)
        /\ undo' = Append(undo, step) /\ redo # <<>> /\ UNCHANGED <<outside, saved>>
    BY <1>4 DEF Redo
  <2>2. /\ redo \in Seq(GoodSteps) /\ undo \in Seq(GoodSteps)
        /\ Len(redo) + Len(undo) <= MaxHistory
    BY DEF BankInv
  <2>3. /\ Len(redo) \in Nat \ {0} /\ Len(undo) \in Nat /\ step \in GoodSteps
        /\ redo' \in Seq(GoodSteps) /\ Len(redo') = Len(redo) - 1
        /\ \A i \in 1..Len(redo') : redo'[i] = redo[i]
        /\ undo' \in Seq(GoodSteps) /\ Len(undo') = Len(undo) + 1
        /\ \A i \in 1..Len(undo) : undo'[i] = undo[i]
        /\ undo'[Len(undo) + 1] = step
    BY <2>1, <2>2, LastIsMoved
  <2>4. bank' \in GoodObjects
    BY <2>1, <2>3 DEF GoodSteps
  <2>5. \A i \in 1..Len(redo) :
           redo[i].before = IF i = Len(redo) THEN bank ELSE redo[i + 1].after
    BY DEF BankInv, Linked
  <2>6. \A i \in 1..Len(undo) :
           undo[i].after = IF i = Len(undo) THEN bank ELSE undo[i + 1].before
    BY DEF BankInv, Linked
  <2>7. step.before = bank
    BY <2>3, <2>5
  <2>8. ASSUME NEW i \in 1..Len(redo')
        PROVE  redo'[i].before = IF i = Len(redo') THEN bank' ELSE redo'[i + 1].after
    <3>1. i \in 1..Len(redo) /\ i # Len(redo) /\ redo'[i].before = redo[i + 1].after
      BY <2>3, <2>5
    <3>2. CASE i = Len(redo')
      <4>1. i + 1 = Len(redo)
        BY <2>3, <3>2
      <4>2. bank' = redo[i + 1].after
        BY <2>1, <4>1
      <4> QED BY <3>1, <3>2, <4>2
    <3>3. CASE i # Len(redo')
      <4>1. i + 1 \in 1..Len(redo')
        BY <2>3, <3>3
      <4>2. redo'[i + 1] = redo[i + 1]
        BY <2>3, <4>1
      <4> QED BY <3>1, <3>3, <4>2
    <3> QED BY <3>2, <3>3
  <2>9. ASSUME NEW i \in 1..Len(undo')
        PROVE  undo'[i].after = IF i = Len(undo') THEN bank' ELSE undo'[i + 1].before
    <3>1. CASE i = Len(undo) + 1
      BY <2>1, <2>3, <3>1
    <3>2. CASE i = Len(undo)
      BY <2>3, <2>6, <2>7, <3>2
    <3>3. CASE i < Len(undo)
      BY <2>3, <2>6, <3>3
    <3> QED BY <2>3, <3>1, <3>2, <3>3
  <2> HIDE DEF step
  <2>10. Linked' /\ Len(undo') + Len(redo') <= MaxHistory
    BY <2>2, <2>3, <2>8, <2>9 DEF Linked
  <2> QED BY <2>1, <2>3, <2>4, <2>10 DEF BankInv, outside
<1>5. CASE Save
  <2>1. disk' \in GoodBanks
    BY <1>5 DEF Save, BankInv, GoodObjects
  <2> QED BY <1>5, <2>1 DEF Save, BankInv, Linked, history
<1>6. CASE ConfirmReset
  <2> DEFINE records == ResetRecords(asked)
  <2>1. /\ asked # "none" /\ Valid(records) /\ UNCHANGED <<cached, disk, saved>>
        /\ IF records = bank.records
             THEN UNCHANGED <<made, bank, dirty, history, told>>
             ELSE /\ IF asked = "bank"
                       THEN bank' = Object(0, Defaults) /\ UNCHANGED made
                       ELSE Make(records)
                  /\ Push(Step(asked, bank'))
    BY <1>6 DEF ConfirmReset, Checked
  <2>2. /\ records \in GoodBanks
        /\ asked \in {"field", "record"} =>
              /\ place.record \in 1..Len(bank.records[place.section])
              /\ place.record \in 1..Len(records[place.section])
    BY <2>1, ResetIsTyped DEF GoodBanks
  <2>3. CASE records = bank.records
    BY <2>1, <2>3 DEF BankInv, Linked, history
  <2>4. CASE records # bank.records
    <3>1. bank' \in GoodObjects /\ bank'.records = records /\ made' \in 1..MaxObjects
      <4>1. CASE asked = "bank"
        <5>1. bank' = Object(0, Defaults) /\ made' = made /\ records = Defaults
          BY <2>1, <2>4, <4>1 DEF ResetRecords
        <5> QED BY <2>2, <5>1 DEF Object, GoodObjects, BankInv, SettingsAssumption
      <4>2. CASE asked # "bank"
        BY <2>1, <2>2, <2>4, <4>2, MadeIsGood
      <4> QED BY <4>1, <4>2
    <3>2. Push(Step(asked, bank'))
      BY <2>1, <2>4
    <3>3. asked \in {"field", "record", "section", "bank"}
      BY <2>1 DEF CursorInv
    <3> HIDE DEF records
    <3>4. /\ Step(asked, bank') \in GoodSteps
          /\ Step(asked, bank').before = bank /\ Step(asked, bank').after = bank'
      BY <2>2, <3>1, <3>3, StepFits
    <3>5. /\ undo' \in Seq(GoodSteps) /\ redo' \in Seq(GoodSteps)
          /\ Len(undo') + Len(redo') <= MaxHistory /\ Linked'
      BY <3>2, <3>4, PushKeepsTheLine
    <3> QED BY <2>1, <3>1, <3>5 DEF BankInv
  <2> QED BY <2>3, <2>4
<1>7. ASSUME NEW b \in GoodObjects, Discard(b)
      PROVE  /\ cached' \in GoodObjects /\ bank' \in GoodObjects /\ saved' \in GoodObjects
             /\ undo' \in Seq(GoodSteps) /\ redo' \in Seq(GoodSteps)
             /\ Len(undo') + Len(redo') <= MaxHistory /\ Linked'
  <2>1. undo' = <<>> /\ redo' = <<>> /\ Len(undo') = 0 /\ Len(redo') = 0
    BY <1>7, EmptySeq DEF Discard
  <2>2. undo' \in Seq(GoodSteps) /\ redo' \in Seq(GoodSteps)
    BY <2>1, EmptySeq
  <2>3. Linked'
    BY <2>1 DEF Linked
  <2> QED BY <1>7, <2>1, <2>2, <2>3 DEF Discard, SettingsAssumption
<1>8. CASE Close
  BY <1>7, <1>8 DEF Close, BankInv
<1>9. CASE Reload
  <2>1. Object(made + 1, disk) \in GoodObjects /\ made' \in 1..MaxObjects
    BY <1>9 DEF Reload, BankInv, Object, GoodObjects, SettingsAssumption
  <2> QED BY <1>7, <1>9, <2>1 DEF Reload, BankInv
<1>10. \/ UNCHANGED <<outside, bank, saved, history>>
       \/ CommitEdit \/ Undo \/ Redo \/ Save \/ ConfirmReset \/ Close \/ Reload
  <2>1. Open \/ OpenToReset \/ OpenAtBinding => UNCHANGED <<outside, bank, saved, history>>
    BY DEF Open, OpenToReset, OpenAtBinding, Fresh
  <2>2. ASSUME NEW delta \in {-1, 1}, Move(delta)
        PROVE  UNCHANGED <<outside, bank, saved, history>>
    BY <2>2 DEF Move, Goes
  <2>3. Descend \/ Ascend \/ BeginEdit \/ CancelEdit
          => UNCHANGED <<outside, bank, saved, history>>
    BY DEF Descend, Ascend, Goes, BeginEdit, CancelEdit
  <2>4. BeginSearch \/ ExtendSearch \/ BackspaceSearch \/ CommitSearch \/ CancelSearch \/ Cycle
          => UNCHANGED <<outside, bank, saved, history>>
    BY DEF BeginSearch, ExtendSearch, BackspaceSearch, Recompute, CommitSearch, CancelSearch,
           Cycle, Goes
  <2>5. BeginReset \/ CancelReset => UNCHANGED <<outside, bank, saved, history>>
    BY DEF BeginReset, CancelReset
  <2> QED BY <2>1, <2>2, <2>3, <2>4, <2>5 DEF Next
<1> QED BY <1>1, <1>2, <1>3, <1>4, <1>5, <1>6, <1>8, <1>9, <1>10
-----------------------------------------------------------------------------
(* The cursor.                                                             *)

\* IsReal, for a bank that may be the next one.
RealIn(p, b) == p.level = "section" \/ p.record \in 1..Len(b.records[p.section])

\* A position put together from its parts.
LEMMA PlaceTyped ==
  ASSUME NEW level \in {"section", "record", "field"}, NEW s \in Sections,
         NEW i \in Nat \ {0}, NEW f \in 1..Len(Fields[s])
  PROVE  /\ At(level, s, i, f) \in GoodPlaces
         /\ At(level, s, i, f).level = level /\ At(level, s, i, f).section = s
         /\ At(level, s, i, f).record = i /\ At(level, s, i, f).field = f
<1>1. PICK n \in 2..3 : Len(Fields[s]) = n
  BY FieldNumbers
<1>2. f \in 1..n
  BY <1>1
<1>3. At(level, s, i, f) \in Places
  BY <1>2 DEF At, Places
<1> QED BY <1>3 DEF At, GoodPlaces

\* A section is always there.
LEMMA SectionPlace ==
  ASSUME NEW s \in Sections
  PROVE  /\ At("section", s, 1, 1) \in GoodPlaces
         /\ At("section", s, 1, 1).level = "section"
<1>1. 1 \in 1..Len(Fields[s]) /\ 1 \in Nat \ {0}
  BY FieldNumbers
<1> QED BY <1>1, PlaceTyped

\* Where a session begins.
LEMMA TopPlace == Top \in GoodPlaces /\ Top.level = "section"
  BY SectionPlace DEF Top, Sections

\* A record that is there, of a bank that is one.
LEMMA RecordPlace ==
  ASSUME NEW b \in GoodObjects, NEW s \in Sections, NEW i \in 1..Len(b.records[s])
  PROVE  /\ At("record", s, i, 1) \in GoodPlaces
         /\ At("record", s, i, 1).level = "record"
         /\ RealIn(At("record", s, i, 1), b)
<1>1. b.records[s] \in Seq(Entries[s])
  BY SectionTyped DEF GoodObjects, GoodBanks
<1>2. Len(b.records[s]) \in Nat
  BY <1>1, LenProperties
<1>3. i \in Nat \ {0} /\ 1 \in 1..Len(Fields[s])
  BY <1>2, FieldNumbers
<1> QED BY <1>3, PlaceTyped DEF RealIn

\* One on or one back in a list, and round.
LEMMA WrapInRange ==
  ASSUME NEW n \in Nat \ {0}, NEW i \in Int, NEW delta \in Int
  PROVE  Wrap(i, delta, n) \in 1..n
<1>1. ((i - 1 + delta) % n) \in 0..(n - 1)
  OBVIOUS
<1> QED BY <1>1 DEF Wrap

\* Undo and redo go to a place that is there, in the bank they give back.
LEMMA HistoryPlaceReal ==
  ASSUME NEW step \in GoodSteps
  PROVE  /\ HistoryPlace(step) \in GoodPlaces
         /\ RealIn(HistoryPlace(step), step.before)
         /\ RealIn(HistoryPlace(step), step.after)
<1>1. /\ step.scope \in {"field", "record", "section", "bank"}
      /\ step.at \in GoodPlaces /\ step.before \in GoodObjects /\ step.after \in GoodObjects
      /\ Fits(step)
  BY DEF GoodSteps
<1>2. /\ step.at.section \in Sections /\ step.at.record \in Nat \ {0}
      /\ step.at.field \in 1..Len(Fields[step.at.section])
  BY <1>1 DEF GoodPlaces, Places
<1>3. CASE step.scope \in {"bank", "section"}
  <2>1. HistoryPlace(step) = At("section", step.at.section, 1, 1)
    BY <1>3 DEF HistoryPlace
  <2> QED BY <1>2, <2>1, SectionPlace DEF RealIn
<1>4. CASE step.scope = "record"
  <2>1. HistoryPlace(step) = At("record", step.at.section, step.at.record, 1)
    BY <1>4 DEF HistoryPlace
  <2>2. /\ step.at.record \in 1..Len(step.before.records[step.at.section])
        /\ step.at.record \in 1..Len(step.after.records[step.at.section])
    BY <1>1, <1>4 DEF Fits
  <2> QED BY <1>1, <1>2, <2>1, <2>2, RecordPlace
<1>5. CASE step.scope = "field"
  <2>1. HistoryPlace(step) = At("field", step.at.section, step.at.record, step.at.field)
    BY <1>5 DEF HistoryPlace
  <2>2. /\ HistoryPlace(step) \in GoodPlaces
        /\ HistoryPlace(step).section = step.at.section
        /\ HistoryPlace(step).record = step.at.record
    BY <1>2, <2>1, PlaceTyped
  <2>3. /\ step.at.record \in 1..Len(step.before.records[step.at.section])
        /\ step.at.record \in 1..Len(step.after.records[step.at.section])
    BY <1>1, <1>5 DEF Fits
  <2> QED BY <2>2, <2>3 DEF RealIn
<1> QED BY <1>1, <1>3, <1>4, <1>5

\* Every key leaves the user at a record that is there, and one sub-mode open.
LEMMA CursorStep ==
  ASSUME SettingsAssumption, IInv, BankInv', Next
  PROVE  CursorInv'
<1> USE DEF IInv
<1>1. /\ bank \in GoodObjects /\ bank' \in GoodObjects
      /\ place \in GoodPlaces /\ place.section \in Sections /\ place.record \in Nat \ {0}
      /\ place.field \in 1..Len(Fields[place.section])
      /\ place.level \in {"section", "record", "field"}
  BY DEF BankInv, CursorInv, GoodPlaces, Places
<1>2. /\ open => RealIn(place, bank) \/ misled
      /\ searching => RealIn(origin, bank) \/ misled
  BY DEF CursorInv, IsReal, RecordsAt, RealIn
<1>3. ASSUME open' => RealIn(place', bank') \/ misled'
      PROVE  open' => (IsReal(place) \/ misled)'
  BY <1>3 DEF IsReal, RecordsAt, RealIn
<1>4. ASSUME searching' => RealIn(origin', bank') \/ misled'
      PROVE  searching' => (IsReal(origin) \/ misled)'
  BY <1>4 DEF IsReal, RecordsAt, RealIn
\* A key that moves the cursor, and nothing else of what the invariant speaks of.
<1>5. ASSUME InMap, Goes, UNCHANGED <<search, misled>>,
             place' \in GoodPlaces, RealIn(place', bank) \/ misled
      PROVE  CursorInv'
  BY <1>2, <1>3, <1>4, <1>5 DEF CursorInv, InMap, Goes, search
<1>6. ASSUME NEW delta \in {-1, 1}, Move(delta)
      PROVE  CursorInv'
  <2>0. InMap /\ Goes /\ UNCHANGED <<search, misled>>
    BY <1>6 DEF Move
  <2>1. CASE place.level = "section"
    <3>1. PICK s \in Sections : place' = At("section", s, 1, 1)
      <4> DEFINE i == CHOOSE n \in 1..3 : SectionOrder[n] = place.section
      <4>1. place' = At("section", SectionOrder[Wrap(i, delta, 3)], 1, 1)
        BY <1>6, <2>1 DEF Move
      <4>2. /\ SectionOrder[1] = "voices" /\ SectionOrder[2] = "sounds"
            /\ SectionOrder[3] = "bindings"
        BY DEF SectionOrder
      <4>3. \E n \in 1..3 : SectionOrder[n] = place.section
        BY <1>1, <4>2 DEF Sections
      <4>4. i \in 1..3
        BY <4>3
      <4> HIDE DEF i
      <4>5. Wrap(i, delta, 3) \in 1..3
        BY <4>4, WrapInRange
      <4>6. SectionOrder[Wrap(i, delta, 3)] \in Sections
        BY <4>2, <4>5 DEF Sections
      <4> QED BY <4>1, <4>6
    <3> QED BY <1>5, <2>0, <3>1, SectionPlace DEF RealIn
  <2>2. CASE place.level = "record"
    <3> DEFINE n == Len(RecordsAt(place))
    <3>1. /\ RecordsAt(place) # <<>>
          /\ place' = At("record", place.section, Wrap(place.record, delta, n), 1)
      BY <1>6, <2>2 DEF Move
    <3>2. RecordsAt(place) \in Seq(Entries[place.section])
      BY <1>1, SectionTyped DEF RecordsAt, GoodObjects, GoodBanks
    <3>3. n \in Nat \ {0}
      BY <3>1, <3>2, EmptySeq
    <3>4. Wrap(place.record, delta, n) \in 1..Len(bank.records[place.section])
      <4>1. n = Len(bank.records[place.section])
        BY DEF RecordsAt
      <4>2. place.record \in Int /\ delta \in Int
        BY <1>1
      <4> HIDE DEF n
      <4> QED BY <3>3, <4>1, <4>2, WrapInRange
    <3> HIDE DEF n
    <3> QED BY <1>1, <1>5, <2>0, <3>1, <3>4, RecordPlace
  <2>3. CASE place.level = "field"
    <3> DEFINE n == Len(Fields[place.section])
    <3>1. place' = At("field", place.section, place.record, Wrap(place.field, delta, n))
      BY <1>6, <2>3 DEF Move
    <3>2. n \in Nat \ {0} /\ place.field \in Int /\ delta \in Int
      <4>1. PICK m \in 2..3 : n = m
        BY <1>1, FieldNumbers
      <4> HIDE DEF n
      <4> QED BY <1>1, <4>1
    <3> HIDE DEF n
    <3>3. Wrap(place.field, delta, n) \in 1..n
      BY <3>2, WrapInRange
    <3>4. /\ place' \in GoodPlaces /\ place'.section = place.section
          /\ place'.record = place.record
      BY <1>1, <3>1, <3>3, PlaceTyped DEF n
    <3>5. RealIn(place', bank) \/ misled
      BY <1>2, <2>0, <2>3, <3>4 DEF InMap, RealIn
    <3> QED BY <1>5, <2>0, <3>4, <3>5
  <2> QED BY <1>1, <2>1, <2>2, <2>3
<1>7. CASE Descend
  <2>0. InMap /\ Goes /\ UNCHANGED <<search, misled>>
    BY <1>7 DEF Descend
  <2>1. CASE place.level = "section"
    <3>1. RecordsAt(place) # <<>> /\ place' = At("record", place.section, 1, 1)
      BY <1>7, <2>1 DEF Descend
    <3>2. RecordsAt(place) \in Seq(Entries[place.section])
      BY <1>1, SectionTyped DEF RecordsAt, GoodObjects, GoodBanks
    <3>3. 1 \in 1..Len(bank.records[place.section])
      BY <3>1, <3>2, EmptySeq DEF RecordsAt
    <3> QED BY <1>1, <1>5, <2>0, <3>1, <3>3, RecordPlace
  <2>2. CASE place.level = "record"
    <3>1. place' = At("field", place.section, place.record, 1)
      BY <1>7, <2>2 DEF Descend
    <3>2. 1 \in 1..Len(Fields[place.section])
      BY <1>1, FieldNumbers
    <3>3. /\ place' \in GoodPlaces /\ place'.section = place.section
          /\ place'.record = place.record
      BY <1>1, <3>1, <3>2, PlaceTyped
    <3>4. RealIn(place', bank) \/ misled
      BY <1>2, <2>0, <2>2, <3>3 DEF InMap, RealIn
    <3> QED BY <1>5, <2>0, <3>3, <3>4
  <2> QED BY <1>7, <2>1, <2>2 DEF Descend
<1>8. CASE Ascend
  <2>0. InMap /\ Goes /\ UNCHANGED <<search, misled>>
    BY <1>8 DEF Ascend
  <2>1. CASE place.level = "field"
    <3>1. place' = [place EXCEPT !.level = "record"]
      BY <1>8, <2>1 DEF Ascend
    <3>2. /\ place' \in GoodPlaces /\ place'.section = place.section
          /\ place'.record = place.record
      BY <1>1, <3>1 DEF GoodPlaces, Places
    <3>3. RealIn(place', bank) \/ misled
      BY <1>2, <2>0, <2>1, <3>2 DEF InMap, RealIn
    <3> QED BY <1>5, <2>0, <3>2, <3>3
  <2>2. CASE place.level = "record"
    <3>1. place' = At("section", place.section, 1, 1)
      BY <1>8, <2>2 DEF Ascend
    <3> QED BY <1>1, <1>5, <2>0, <3>1, SectionPlace DEF RealIn
  <2> QED BY <1>8, <2>1, <2>2 DEF Ascend
\* A key that leaves cursor, bank and search alone.
<1>9. ASSUME UNCHANGED <<open, bank, place, search, misled>>,
             editing' => open /\ ~searching /\ place.level = "field",
             editing' \in BOOLEAN,
             asked' \in {"none", "field", "record", "section", "bank"}
      PROVE  CursorInv'
  BY <1>1, <1>2, <1>3, <1>4, <1>9 DEF CursorInv, search
<1>10. CASE BeginEdit \/ CancelEdit \/ Save \/ CancelReset
  <2>1. CASE BeginEdit
    BY <1>9, <2>1 DEF BeginEdit, InMap, CursorInv
  <2>2. CASE CancelEdit
    BY <1>9, <2>2 DEF CancelEdit, CursorInv
  <2>3. CASE Save
    BY <1>9, <2>3 DEF Save, CursorInv
  <2>4. CASE CancelReset
    BY <1>9, <2>4 DEF CancelReset, CursorInv
  <2> QED BY <1>10, <2>1, <2>2, <2>3, <2>4
<1>11. CASE BeginReset
  <2>1. /\ UNCHANGED <<open, bank, place, search, misled, editing>> /\ asked' = place.level
    BY <1>11 DEF BeginReset
  <2> QED BY <1>1, <1>9, <2>1 DEF CursorInv
<1>12. CASE CommitEdit
  <2>1. PICK records \in GoodBanks : Make(records)
                                     /\ AsLong(records, bank.records, place.section)
    BY <1>12, CommitMakesABank
  <2>2. bank'.records = records
    BY <2>1, MadeIsGood
  <2>3. place.record \in 1..Len(bank.records[place.section])
    BY <1>12 DEF CommitEdit, CursorInv, IsReal, RecordsAt
  <2>4. RealIn(place, bank')
    BY <2>1, <2>2, <2>3 DEF AsLong, RealIn
  <2>5. /\ UNCHANGED <<open, place, search, asked, misled>> /\ editing' = FALSE
        /\ ~searching
    BY <1>12 DEF CommitEdit, CursorInv
  <2> QED BY <1>3, <1>4, <2>4, <2>5 DEF CursorInv, search
<1>13. CASE Undo \/ Redo
  <2>1. /\ UNCHANGED <<open, editing, search, asked, misled>>
        /\ ~editing /\ ~searching
    BY <1>13 DEF Undo, Redo, InMap
  <2>2. place' \in GoodPlaces /\ RealIn(place', bank')
    <3>1. CASE Undo
      <4>1. undo # <<>> /\ bank' = undo[Len(undo)].before
            /\ place' = HistoryPlace(undo[Len(undo)])
        BY <3>1 DEF Undo
      <4>2. undo[Len(undo)] \in GoodSteps
        BY <4>1, EmptySeq, ElementOfSeq DEF BankInv
      <4> QED BY <4>1, <4>2, HistoryPlaceReal
    <3>2. CASE Redo
      <4>1. redo # <<>> /\ bank' = redo[Len(redo)].after
            /\ place' = HistoryPlace(redo[Len(redo)])
        BY <3>2 DEF Redo
      <4>2. redo[Len(redo)] \in GoodSteps
        BY <4>1, EmptySeq, ElementOfSeq DEF BankInv
      <4> QED BY <4>1, <4>2, HistoryPlaceReal
    <3> QED BY <1>13, <3>1, <3>2
  <2> QED BY <1>3, <1>4, <2>1, <2>2 DEF CursorInv, search
<1>14. CASE BeginSearch
  <2>1. /\ InMap /\ Goes /\ UNCHANGED <<place, misled>>
        /\ searching' = TRUE /\ origin' = place
    BY <1>14 DEF BeginSearch
  <2>2. RealIn(place, bank) \/ misled
    BY <1>2, <2>1 DEF InMap
  <2> QED BY <1>1, <1>3, <1>4, <2>1, <2>2 DEF CursorInv, InMap, Goes
<1>15. CASE ExtendSearch \/ BackspaceSearch
  <2>1. PICK q : Recompute(q)
    BY <1>15 DEF ExtendSearch, BackspaceSearch
  <2>2. /\ open /\ searching /\ Goes /\ UNCHANGED <<searching, origin, misled>>
    BY <2>1 DEF Recompute
  <2>3. place' \in GoodPlaces /\ (RealIn(place', bank) \/ misled)
    <3>1. CASE UNCHANGED place
      BY <1>1, <1>2, <2>2, <3>1
    <3>2. CASE \E hit \in matches' : place' = At("record", hit[1], hit[2], 1)
      <4>1. PICK hit \in matches' : place' = At("record", hit[1], hit[2], 1)
        BY <3>2
      <4>2. hit \in Hits(bank.records, q)
        BY <2>1, <4>1 DEF Recompute
      <4>3. bank.records \in Banks
        BY <1>1 DEF GoodObjects, GoodBanks
      <4>4. hit[1] \in Sections /\ hit[2] \in 1..Len(bank.records[hit[1]])
        BY <4>2, <4>3, HitIsReal
      <4> QED BY <1>1, <4>1, <4>4, RecordPlace
    <3> QED BY <2>1, <3>1, <3>2 DEF Recompute
  <2> QED BY <1>2, <1>3, <1>4, <2>2, <2>3 DEF CursorInv, Goes
<1>16. CASE CommitSearch
  <2>1. /\ Goes /\ UNCHANGED <<place, misled>> /\ searching' = FALSE /\ origin' = Top
        /\ open /\ searching
    BY <1>16 DEF CommitSearch
  <2> QED BY <1>1, <1>2, <1>3, <1>4, <2>1, TopPlace DEF CursorInv, Goes
<1>17. CASE CancelSearch
  <2>1. /\ Goes /\ UNCHANGED misled /\ searching' = FALSE /\ origin' = Top
        /\ open /\ searching /\ place' = origin
    BY <1>17 DEF CancelSearch, Return
  <2> QED BY <1>1, <1>2, <1>3, <1>4, <2>1, TopPlace DEF CursorInv, Goes
<1>18. CASE Cycle
  <2>1. /\ InMap /\ Goes /\ UNCHANGED <<searching, origin>>
        /\ \E hit \in matches : /\ place' = At("record", hit[1], hit[2], 1)
                                /\ misled' = (misled \/ ~IsReal(place'))
    BY <1>18 DEF Cycle
  <2>2. PICK hit \in matches : /\ place' = At("record", hit[1], hit[2], 1)
                               /\ misled' = (misled \/ ~IsReal(place'))
    BY <2>1
  <2>3. hit[1] \in Sections /\ hit[2] \in Nat \ {0}
    BY DEF SearchInv
  <2>4. 1 \in 1..Len(Fields[hit[1]])
    BY <2>3, FirstField
  <2>5. place' \in GoodPlaces
    BY <2>2, <2>3, <2>4, PlaceTyped
  <2>6. RealIn(place', bank') \/ misled'
    BY <2>1, <2>2 DEF IsReal, RecordsAt, RealIn, Goes
  <2>7. misled' \in BOOLEAN
    BY <2>2 DEF CursorInv
  <2> QED BY <1>3, <1>4, <2>1, <2>5, <2>6, <2>7 DEF CursorInv, InMap, Goes
<1>19. CASE ConfirmReset
  <2>1. /\ asked # "none" /\ asked' = "none"
        /\ UNCHANGED <<open, editing, place, search, misled>>
        /\ ~editing /\ ~searching
        /\ bank'.records = ResetRecords(asked)
    <3>1. /\ asked # "none" /\ asked' = "none"
          /\ UNCHANGED <<open, editing, place, search, misled>>
          /\ IF ResetRecords(asked) = bank.records
               THEN UNCHANGED <<made, bank, dirty, history, told>>
               ELSE /\ IF asked = "bank"
                         THEN bank' = Object(0, Defaults) /\ UNCHANGED made
                         ELSE Make(ResetRecords(asked))
      BY <1>19 DEF ConfirmReset
    <3>2. asked = "bank" => ResetRecords(asked) = Defaults
      BY DEF ResetRecords
    <3> QED BY <3>1, <3>2 DEF AskedInv, Make, Object
  <2>2. RealIn(place, bank')
    <3>1. CASE asked \in {"field", "record"}
      BY <2>1, <3>1, ResetIsTyped DEF RealIn
    <3>2. CASE asked \in {"section", "bank"}
      <4>1. asked = place.level \/ (asked = "bank" /\ place.level = "section")
        BY <2>1 DEF AskedInv
      <4>2. place.level = "section"
        BY <1>1, <3>2, <4>1
      <4> QED BY <4>2 DEF RealIn
    <3> QED BY <2>1, <3>1, <3>2 DEF CursorInv
  <2> QED BY <1>3, <1>4, <2>1, <2>2 DEF CursorInv, search
<1>20. CASE Open \/ OpenToReset \/ OpenAtBinding
  <2>1. /\ open' = TRUE /\ UNCHANGED <<editing, bank, search, misled>>
        /\ ~open /\ ~editing /\ ~searching
    BY <1>20 DEF Open, OpenToReset, OpenAtBinding, Fresh, CursorInv
  <2>2. asked' = asked \/ asked' = "bank"
    BY <1>20 DEF Open, OpenToReset, OpenAtBinding
  <2>3. place' \in GoodPlaces /\ RealIn(place', bank)
    <3>1. CASE place' = Top
      BY <3>1, TopPlace DEF RealIn
    <3>2. ASSUME NEW id \in Ids, Find(bank.records.bindings, id) # 0,
                 place' = At("record", "bindings", Find(bank.records.bindings, id), 1)
          PROVE  place' \in GoodPlaces /\ RealIn(place', bank)
      <4>1. bank.records \in GoodBanks /\ "bindings" \in Sections
        BY <1>1 DEF GoodObjects, Sections
      <4>2. Find(bank.records["bindings"], id) \in 1..Len(bank.records["bindings"])
        BY <3>2, <4>1, FoundIsReal
      <4> QED BY <1>1, <3>2, <4>1, <4>2, RecordPlace
    <3>3. \/ place' = Top
          \/ \E id \in Ids : /\ Find(bank.records.bindings, id) # 0
                             /\ place' = At("record", "bindings",
                                            Find(bank.records.bindings, id), 1)
      BY <1>20 DEF Open, OpenToReset, OpenAtBinding, Fresh
    <3> QED BY <3>1, <3>2, <3>3
  <2> QED BY <1>3, <1>4, <2>1, <2>2, <2>3 DEF CursorInv, search
<1>21. CASE Close \/ Reload
  <2>1. /\ open' = FALSE /\ editing' = FALSE /\ searching' = FALSE /\ misled' = FALSE
        /\ place' = Top /\ origin' = Top /\ asked' = "none"
    BY <1>21 DEF Close, Reload, Discard, CursorInv
  <2> QED BY <2>1, TopPlace DEF CursorInv
<1> QED BY <1>6, <1>7, <1>8, <1>10, <1>11, <1>12, <1>13, <1>14, <1>15, <1>16, <1>17, <1>18,
           <1>19, <1>20, <1>21 DEF Next

\* A confirmation is open only where it was asked for, with no other sub-mode.
LEMMA AskedStep ==
  ASSUME SettingsAssumption, IInv, Next
  PROVE  AskedInv'
<1> USE DEF IInv
<1>1. ASSUME asked' = "none"
      PROVE  AskedInv'
  BY <1>1 DEF AskedInv
<1>2. CASE OpenToReset
  <2>1. /\ asked' = "bank" /\ open' = TRUE /\ place' = Top
        /\ UNCHANGED <<editing, searching>> /\ ~editing /\ ~searching
    BY <1>2 DEF OpenToReset, Fresh, CursorInv, search
  <2> QED BY <2>1, TopPlace DEF AskedInv
<1>3. CASE BeginReset
  <2>1. /\ asked' = place.level /\ InMap /\ IsReal(place)
        /\ place.level # "section" =>
             Find(Defaults[place.section], RecordsAt(place)[place.record].id) # 0
        /\ UNCHANGED <<open, editing, searching, place, bank>>
    BY <1>3 DEF BeginReset, search
  <2>2. IsReal(place)'
    BY <2>1 DEF IsReal, RecordsAt
  <2>3. asked' \in {"field", "record"} =>
          Find(Defaults[place.section], RecordsAt(place)[place.record].id)' # 0
    BY <2>1 DEF RecordsAt
  <2>4. (asked # "none" => open /\ ~editing /\ ~searching)'
    BY <2>1 DEF InMap
  <2>5. (asked # "none" => asked = place.level \/ (asked = "bank" /\ place.level = "section"))'
    <3>1. place' = place /\ asked' = place.level
      BY <2>1
    <3>2. asked' = (place.level)'
      BY <3>1
    <3> QED BY <3>2
  <2>6. (asked \in {"field", "record"} =>
           /\ IsReal(place)
           /\ Find(Defaults[place.section], RecordsAt(place)[place.record].id) # 0)'
    BY <2>2, <2>3
  <2> QED BY <2>4, <2>5, <2>6 DEF AskedInv
<1>4. \/ asked' = "none" \/ OpenToReset \/ BeginReset
  <2>1. Open \/ OpenAtBinding => asked' = "none"
    BY DEF Open, OpenAtBinding, Fresh, AskedInv
  <2>2. ASSUME NEW delta \in {-1, 1}, Move(delta)
        PROVE  asked' = "none"
    BY <2>2 DEF Move, InMap, Goes
  <2>3. Descend \/ Ascend \/ BeginSearch \/ Cycle => asked' = "none"
    BY DEF Descend, Ascend, BeginSearch, Cycle, InMap, Goes
  <2>4. BeginEdit \/ Undo \/ Redo \/ Save => asked' = "none"
    BY DEF BeginEdit, Undo, Redo, Save, InMap
  <2>5. CommitEdit \/ CancelEdit => asked' = "none"
    BY DEF CommitEdit, CancelEdit, AskedInv
  <2>6. ExtendSearch \/ BackspaceSearch \/ CommitSearch \/ CancelSearch => asked' = "none"
    BY DEF ExtendSearch, BackspaceSearch, Recompute, CommitSearch, CancelSearch, Goes, AskedInv
  <2>7. ConfirmReset \/ CancelReset \/ Close \/ Reload => asked' = "none"
    BY DEF ConfirmReset, CancelReset, Close, Reload, Discard
  <2> QED BY <2>1, <2>2, <2>3, <2>4, <2>5, <2>6, <2>7 DEF Next
<1> QED BY <1>1, <1>2, <1>3, <1>4

\* The matches are pairs of a section and a position, the current one is a match.
LEMMA SearchStep ==
  ASSUME SettingsAssumption, IInv, Next
  PROVE  SearchInv'
<1> USE DEF IInv
<1>1. ASSUME UNCHANGED <<query, matches, match>>
      PROVE  SearchInv'
  BY <1>1 DEF SearchInv
<1>2. ASSUME query' = <<>>, matches' = {}, match' = <<>>
      PROVE  SearchInv'
  <2>1. query' \in Seq(Chars)
    BY <1>2, EmptySeq
  <2> QED BY <1>2, <2>1 DEF SearchInv
<1>3. ASSUME NEW q \in Seq(Chars), Recompute(q)
      PROVE  SearchInv'
  <2>1. query' = q /\ match' \in matches' \cup {<<>>}
    BY <1>3 DEF Recompute
  <2>2. bank.records \in Banks
    BY DEF BankInv, GoodObjects, GoodBanks
  <2>3. matches' \subseteq Sections \X (Nat \ {0})
    <3>1. matches' = {} \/ matches' = Hits(bank.records, q)
      BY <1>3 DEF Recompute
    <3> QED BY <2>2, <3>1, HitIsReal
  <2> QED BY <2>1, <2>3 DEF SearchInv
<1>4. CASE ExtendSearch
  <2>1. PICK ch \in Chars : Recompute(Append(query, ch))
    BY <1>4 DEF ExtendSearch
  <2>2. Append(query, ch) \in Seq(Chars)
    BY AppendProperties DEF SearchInv
  <2> QED BY <1>3, <2>1, <2>2
<1>5. CASE BackspaceSearch
  <2>1. query # <<>> /\ Recompute(SubSeq(query, 1, Len(query) - 1)) /\ query \in Seq(Chars)
    BY <1>5 DEF BackspaceSearch, SearchInv
  <2>2. SubSeq(query, 1, Len(query) - 1) \in Seq(Chars)
    BY <2>1, LastIsMoved
  <2> QED BY <1>3, <2>1, <2>2
<1>6. CASE Cycle
  BY <1>6 DEF Cycle, SearchInv
<1>7. \/ UNCHANGED <<query, matches, match>>
      \/ query' = <<>> /\ matches' = {} /\ match' = <<>>
      \/ ExtendSearch \/ BackspaceSearch \/ Cycle
  <2>1. Open \/ OpenToReset \/ OpenAtBinding => UNCHANGED <<query, matches, match>>
    BY DEF Open, OpenToReset, OpenAtBinding, Fresh, search
  <2>2. ASSUME NEW delta \in {-1, 1}, Move(delta)
        PROVE  UNCHANGED <<query, matches, match>>
    BY <2>2 DEF Move, search
  <2>3. Descend \/ Ascend \/ BeginEdit \/ CancelEdit => UNCHANGED <<query, matches, match>>
    BY DEF Descend, Ascend, BeginEdit, CancelEdit, search
  <2>4. CommitEdit \/ Undo \/ Redo \/ Save => UNCHANGED <<query, matches, match>>
    BY DEF CommitEdit, Undo, Redo, Save, search
  <2>5. BeginReset \/ ConfirmReset \/ CancelReset \/ CommitSearch
          => UNCHANGED <<query, matches, match>>
    BY DEF BeginReset, ConfirmReset, CancelReset, CommitSearch, search
  <2>6. BeginSearch \/ CancelSearch \/ Close \/ Reload
          => query' = <<>> /\ matches' = {} /\ match' = <<>>
    BY DEF BeginSearch, CancelSearch, Close, Reload, Discard
  <2> QED BY <2>1, <2>2, <2>3, <2>4, <2>5, <2>6 DEF Next
<1> QED BY <1>1, <1>2, <1>4, <1>5, <1>6, <1>7

\* The flag is a flag.
LEMMA DirtyStep ==
  ASSUME SettingsAssumption, IInv, Next
  PROVE  DirtyInv'
<1> USE DEF IInv
<1>1. Open \/ OpenToReset \/ OpenAtBinding => DirtyInv'
  BY DEF Open, OpenToReset, OpenAtBinding, Fresh, DirtyInv
<1>2. ASSUME NEW delta \in {-1, 1}, Move(delta)
      PROVE  DirtyInv'
  BY <1>2 DEF Move, Goes, DirtyInv
<1>3. Descend \/ Ascend \/ BeginSearch \/ Cycle => DirtyInv'
  BY DEF Descend, Ascend, BeginSearch, Cycle, Goes, DirtyInv
<1>4. BeginEdit \/ CancelEdit \/ BeginReset \/ CancelReset => DirtyInv'
  BY DEF BeginEdit, CancelEdit, BeginReset, CancelReset, DirtyInv
<1>5. CommitEdit \/ Undo \/ Redo \/ Save => DirtyInv'
  BY DEF CommitEdit, Undo, Redo, Save, ComputeDirty, DirtyInv
<1>6. ExtendSearch \/ BackspaceSearch \/ CommitSearch \/ CancelSearch => DirtyInv'
  BY DEF ExtendSearch, BackspaceSearch, Recompute, CommitSearch, CancelSearch, Goes, DirtyInv
<1>7. ConfirmReset => DirtyInv'
  <2>1. ConfirmReset => dirty' = dirty \/ dirty' = (bank' # saved)
    BY DEF ConfirmReset, ComputeDirty
  <2> QED BY <2>1 DEF DirtyInv
<1>8. Close \/ Reload => DirtyInv'
  BY DEF Close, Reload, Discard, DirtyInv
<1> QED BY <1>1, <1>2, <1>3, <1>4, <1>5, <1>6, <1>7, <1>8 DEF Next
-----------------------------------------------------------------------------
(* The theorems.                                                           *)

\* It holds of a program just started,
LEMMA InitInv == ASSUME SettingsAssumption, Init PROVE IInv
<1>1. /\ undo = <<>> /\ redo = <<>> /\ undo \in Seq(GoodSteps) /\ redo \in Seq(GoodSteps)
      /\ Len(undo) = 0 /\ Len(redo) = 0 /\ query \in Seq(Chars)
  BY EmptySeq DEF Init
<1>2. Object(1, Loaded) \in GoodObjects /\ Loaded \in GoodBanks /\ 1 \in 1..MaxObjects
  BY DEF SettingsAssumption, Object, GoodObjects, GoodBanks
<1>3. BankInv
  BY <1>1, <1>2 DEF Init, BankInv, Linked, SettingsAssumption
<1>4. CursorInv
  BY TopPlace DEF Init, CursorInv
<1> QED BY <1>1, <1>3, <1>4 DEF Init, IInv, AskedInv, SearchInv, DirtyInv

\* and as long as nothing happens.
LEMMA StutterInv == ASSUME IInv, UNCHANGED vars PROVE IInv'
<1>1. BankInv'
  BY DEF IInv, BankInv, Linked, vars, outside, history
<1>2. CursorInv'
  BY DEF IInv, CursorInv, IsReal, RecordsAt, vars, search
<1>3. AskedInv'
  BY DEF IInv, AskedInv, IsReal, RecordsAt, vars, search
<1>4. SearchInv' /\ DirtyInv'
  BY DEF IInv, SearchInv, DirtyInv, vars, search
<1> QED BY <1>1, <1>2, <1>3, <1>4 DEF IInv

(* The invariant the other theorems rest on: every key keeps banks, stacks, *)
(* cursor, confirmation and search as settings_editor.py:299-980 relies on. *)
THEOREM Invariance == Spec => []IInv
<1>1. Init => IInv
  BY SettingsAssumption, InitInv
<1>2. IInv /\ [Next]_vars => IInv'
  <2>1. ASSUME IInv, Next PROVE IInv'
    <3>1. BankInv'
      BY <2>1, SettingsAssumption, BankStep
    <3>2. CursorInv'
      BY <2>1, <3>1, SettingsAssumption, CursorStep
    <3>3. AskedInv' /\ SearchInv' /\ DirtyInv'
      BY <2>1, SettingsAssumption, AskedStep, SearchStep, DirtyStep
    <3> QED BY <3>1, <3>2, <3>3 DEF IInv
  <2> QED BY <2>1, StutterInv
<1> QED BY <1>1, <1>2, PTL DEF Spec

\* The types of the invariant are narrower than those of the module.
LEMMA GoodIsTyped ==
  ASSUME SettingsAssumption, IInv
  PROVE  TypeOK
<1>1. GoodBanks \subseteq Banks /\ GoodObjects \subseteq Objects /\ GoodPlaces \subseteq Places
  BY DEF GoodBanks, GoodObjects, Objects, GoodPlaces
<1>2. GoodSteps \subseteq Steps
  BY <1>1 DEF GoodSteps, Steps
<1>3. undo \in Seq(Steps) /\ redo \in Seq(Steps)
  BY <1>2, SeqMonotonic DEF IInv, BankInv
<1>4. /\ disk \in Banks /\ {cached, bank, saved} \subseteq Objects
      /\ {place, origin} \subseteq Places
      /\ place.field \in 1..Len(Fields[place.section])
  BY <1>1 DEF IInv, BankInv, CursorInv, GoodPlaces
<1>5. {open, editing, dirty, searching, misled} \subseteq BOOLEAN
  BY DEF IInv, CursorInv, DirtyInv
<1> QED BY <1>3, <1>4, <1>5 DEF TypeOK, IInv, BankInv, CursorInv, SearchInv

(* Settings keeps its types: the banks stay banks through every edit and   *)
(* reset (settings_editor.py:299-347, 846-884), the cursor names a field   *)
(* of its section, the two stacks together never exceed MAX_HISTORY.       *)
THEOREM TypeCorrect == Spec => []TypeOK
<1>1. IInv => TypeOK
  BY SettingsAssumption, GoodIsTyped
<1> QED BY <1>1, Invariance, PTL

(* After any edits, resets, undos, redos and searches the position names a *)
(* record that exists, unless the user followed a match that is gone: the  *)
(* place in _EditRecord (settings_editor.py:56-76) is all that undo and    *)
(* redo need to come back to a record that is there.                       *)
THEOREM NeverLost == Spec => []PositionIsReal
<1>1. IInv => PositionIsReal
  BY DEF IInv, CursorInv, PositionIsReal
<1> QED BY <1>1, Invariance, PTL

(* No bank the editor shows, keeps or writes has a dangling reference or a *)
(* double id: validate (sound_bank.py:359-379) is called wherever one is   *)
(* made, and undo, redo and a reload only bring back what passed it.        *)
THEOREM NothingUnsound == Spec => []BankIsSound
<1>1. IInv => BankIsSound
  BY DEF IInv, BankInv, GoodObjects, GoodBanks, BankIsSound
<1> QED BY <1>1, Invariance, PTL
-----------------------------------------------------------------------------
(* What "no unsaved changes" means.                                        *)

\* What the editor saved last is what it was opened with or what the file holds,
\* and an editor without the dirty flag shows exactly that.
SavedInv ==
  /\ ~dirty => bank = saved
  /\ saved = cached \/ saved.records = disk

\* No key breaks it: what changes the bank sets the flag or compares.
LEMMA SavedStep ==
  ASSUME SavedInv, IInv, Next
  PROVE  SavedInv'
<1>1. ASSUME UNCHANGED <<bank, saved, cached, disk, dirty>>
      PROVE  SavedInv'
  BY <1>1 DEF SavedInv
<1>2. ASSUME UNCHANGED <<saved, cached, disk>>, dirty' = TRUE \/ dirty' = (bank' # saved)
      PROVE  SavedInv'
  BY <1>2 DEF SavedInv
<1>3. Open \/ OpenToReset \/ OpenAtBinding => UNCHANGED <<bank, saved, cached, disk, dirty>>
  BY DEF Open, OpenToReset, OpenAtBinding, Fresh, outside
<1>4. ASSUME NEW delta \in {-1, 1}, Move(delta)
      PROVE  UNCHANGED <<bank, saved, cached, disk, dirty>>
  BY <1>4 DEF Move, Goes, outside
<1>5. Descend \/ Ascend \/ BeginSearch \/ Cycle
        => UNCHANGED <<bank, saved, cached, disk, dirty>>
  BY DEF Descend, Ascend, BeginSearch, Cycle, Goes, outside
<1>6. BeginEdit \/ CancelEdit \/ BeginReset \/ CancelReset
        => UNCHANGED <<bank, saved, cached, disk, dirty>>
  BY DEF BeginEdit, CancelEdit, BeginReset, CancelReset, outside
<1>7. ExtendSearch \/ BackspaceSearch \/ CommitSearch \/ CancelSearch
        => UNCHANGED <<bank, saved, cached, disk, dirty>>
  BY DEF ExtendSearch, BackspaceSearch, Recompute, CommitSearch, CancelSearch, Goes, outside
<1>8. CommitEdit \/ Undo \/ Redo => SavedInv'
  BY <1>2 DEF CommitEdit, Undo, Redo, ComputeDirty, outside
<1>9. Save => SavedInv'
  BY DEF Save, SavedInv
<1>10. ConfirmReset => SavedInv'
  <2> SUFFICES ASSUME ConfirmReset PROVE SavedInv'
    OBVIOUS
  <2>1. UNCHANGED <<saved, cached, disk>>
    BY DEF ConfirmReset
  <2>2. UNCHANGED <<bank, dirty>> \/ dirty' = (bank' # saved)
    BY DEF ConfirmReset, ComputeDirty
  <2> QED BY <1>1, <1>2, <2>1, <2>2
<1>11. Close \/ Reload => SavedInv'
  BY DEF Close, Reload, Discard, SavedInv
<1> QED BY <1>1, <1>3, <1>4, <1>5, <1>6, <1>7, <1>8, <1>9, <1>10, <1>11 DEF Next

(* An editor that says nothing is unsaved shows what is in the file, or    *)
(* what it was opened with when it saved nothing itself: the flag compares *)
(* with the bank of the last save (settings_editor.py:477-486, 975-993),   *)
(* so undoing past a save, and redoing back to it, set it right.           *)
THEOREM CleanIsSaved == Spec => []CleanMeansUnchanged
<1>1. Init => SavedInv
  BY DEF Init, SavedInv
<1>2. IInv /\ SavedInv /\ [Next]_vars => SavedInv'
  <2>1. UNCHANGED vars /\ SavedInv => SavedInv'
    BY DEF vars, outside, SavedInv
  <2> QED BY <2>1, SavedStep
<1>3. SavedInv => CleanMeansUnchanged
  BY DEF SavedInv, CleanMeansUnchanged
<1> QED BY <1>1, <1>2, <1>3, Invariance, PTL DEF Spec
-----------------------------------------------------------------------------
(* What was said is what is there.                                         *)

(* No step moves the cursor or changes what is under it without a word:    *)
(* every place where the code assigns _state or _bank goes on to publish   *)
(* the focus or the value (_publish_focus, settings_editor.py:1023-1040).  *)
THEOREM NoSilentMove == Spec => []ToldWhereItIs
<1>1. Init => ToldWhereItIs
  BY DEF Init, ToldWhereItIs
<1>2. ToldWhereItIs /\ [Next]_vars => ToldWhereItIs'
  <2> SUFFICES ASSUME ToldWhereItIs, [Next]_vars
               PROVE  ToldWhereItIs'
    OBVIOUS
  <2>1. ASSUME Announce
        PROVE  ToldWhereItIs'
    BY <2>1 DEF Announce, ToldWhereItIs
  <2>2. ASSUME UNCHANGED <<open, bank, place, told>>
        PROVE  ToldWhereItIs'
    BY <2>2 DEF ToldWhereItIs, IsReal, RecordsAt, Said, FieldAt
  <2>3. ASSUME open' = FALSE
        PROVE  ToldWhereItIs'
    BY <2>3 DEF ToldWhereItIs
  <2>4. Open \/ OpenToReset \/ OpenAtBinding => Announce
    BY DEF Open, OpenToReset, OpenAtBinding, Fresh
  <2>5. ASSUME NEW delta \in {-1, 1}, Move(delta)
        PROVE  Announce
    BY <2>5 DEF Move
  <2>6. Descend \/ Ascend \/ CommitEdit \/ Undo \/ Redo \/ CancelSearch \/ Cycle => Announce
    BY DEF Descend, Ascend, CommitEdit, Undo, Redo, CancelSearch, Return, Cycle
  <2>7. BeginEdit \/ CancelEdit \/ Save \/ BeginReset \/ CancelReset
          => UNCHANGED <<open, bank, place, told>>
    BY DEF BeginEdit, CancelEdit, Save, BeginReset, CancelReset
  <2>8. BeginSearch \/ CommitSearch => UNCHANGED <<open, bank, place, told>>
    BY DEF BeginSearch, CommitSearch, Goes
  <2>9. ExtendSearch \/ BackspaceSearch
          => Announce \/ UNCHANGED <<open, bank, place, told>>
    BY DEF ExtendSearch, BackspaceSearch, Recompute, Goes
  <2>10. ConfirmReset => Announce \/ UNCHANGED <<open, bank, place, told>>
    BY DEF ConfirmReset
  <2>11. Close \/ Reload => open' = FALSE \/ ~open' 
    BY DEF Close, Reload
  <2>12. ~open' => ToldWhereItIs'
    BY DEF ToldWhereItIs
  <2>13. UNCHANGED vars => UNCHANGED <<open, bank, place, told>>
    BY DEF vars
  <2> QED BY <2>1, <2>2, <2>3, <2>4, <2>5, <2>6, <2>7, <2>8, <2>9, <2>10, <2>11, <2>12, <2>13
           DEF Next
<1> QED BY <1>1, <1>2, PTL DEF Spec
-----------------------------------------------------------------------------
(* Settings implements EditHistory.                                        *)

VersionsOf(u, b, r) ==
  [i \in 1..(Len(u) + 1 + Len(r)) |->
     IF i <= Len(u) THEN u[i].before
     ELSE IF i = Len(u) + 1 THEN b
     ELSE r[Len(u) + Len(r) + 2 - i].after]

\* A function on the first n numbers is a sequence.
LEMMA FunctionIsSeq ==
  ASSUME NEW S, NEW n \in Nat, NEW f \in [1..n -> S]
  PROVE  f \in Seq(S) /\ Len(f) = n
OBVIOUS

\* The versions are as many as both stacks hold, and the live bank.
LEMMA VersionsTyped ==
  ASSUME NEW u \in Seq(GoodSteps), NEW b \in GoodObjects, NEW r \in Seq(GoodSteps)
  PROVE  /\ VersionsOf(u, b, r) \in Seq(GoodObjects)
         /\ Len(u) \in Nat /\ Len(r) \in Nat
         /\ Len(VersionsOf(u, b, r)) = Len(u) + 1 + Len(r)
         /\ \A i \in 1..Len(u) : VersionsOf(u, b, r)[i] = u[i].before
         /\ VersionsOf(u, b, r)[Len(u) + 1] = b
<1> DEFINE n == Len(u) + 1 + Len(r)
<1>1. Len(u) \in Nat /\ Len(r) \in Nat /\ n \in Nat
  BY LenProperties
<1>2. /\ \A i \in 1..Len(u) : u[i].before \in GoodObjects
      /\ \A i \in 1..Len(r) : r[i].after \in GoodObjects
  BY ElementOfSeq DEF GoodSteps
<1>3. VersionsOf(u, b, r) \in [1..n -> GoodObjects]
  <2>1. ASSUME NEW i \in 1..n
        PROVE  (IF i <= Len(u) THEN u[i].before
                ELSE IF i = Len(u) + 1 THEN b
                ELSE r[Len(u) + Len(r) + 2 - i].after) \in GoodObjects
    <3>1. CASE i <= Len(u)
      BY <1>1, <1>2, <3>1
    <3>2. CASE i = Len(u) + 1
      BY <1>1, <3>2
    <3>3. CASE i > Len(u) + 1
      <4>1. Len(u) + Len(r) + 2 - i \in 1..Len(r)
        BY <1>1, <3>3
      <4> QED BY <1>1, <1>2, <3>3, <4>1
    <3> QED BY <1>1, <3>1, <3>2, <3>3
  <2> QED BY <2>1 DEF VersionsOf
<1>4. \A i \in 1..n : VersionsOf(u, b, r)[i] =
          IF i <= Len(u) THEN u[i].before
          ELSE IF i = Len(u) + 1 THEN b
          ELSE r[Len(u) + Len(r) + 2 - i].after
  BY DEF VersionsOf
<1>5. VersionsOf(u, b, r) \in Seq(GoodObjects) /\ Len(VersionsOf(u, b, r)) = n
  <2> HIDE DEF n
  <2> QED BY <1>1, <1>3, FunctionIsSeq
<1>6. \A i \in 1..Len(u) : VersionsOf(u, b, r)[i] = u[i].before
  BY <1>1, <1>4
<1>7. VersionsOf(u, b, r)[Len(u) + 1] = b
  BY <1>1, <1>4
<1> QED BY <1>1, <1>5, <1>6, <1>7

\* What redo leads to comes after the live bank, the last one undone first.
LEMMA VersionsAhead ==
  ASSUME NEW u \in Seq(GoodSteps), NEW b, NEW r \in Seq(GoodSteps), NEW i \in 1..Len(r),
         NEW j, j = Len(u) + Len(r) + 2 - i
  PROVE  VersionsOf(u, b, r)[j] = r[i].after
<1>1. Len(u) \in Nat /\ Len(r) \in Nat
  BY LenProperties
<1>2. /\ j \in 1..(Len(u) + 1 + Len(r)) /\ ~(j <= Len(u)) /\ j # Len(u) + 1
      /\ Len(u) + Len(r) + 2 - j = i
  BY <1>1
<1>3. VersionsOf(u, b, r)[j] = r[Len(u) + Len(r) + 2 - j].after
  BY <1>2 DEF VersionsOf
<1> QED BY <1>2, <1>3

\* An edit drops what had been undone, and the oldest version if there are too many.
LEMMA PushIsEdit ==
  ASSUME SettingsAssumption, BankInv, BankInv', open, open' = open,
         NEW step \in GoodSteps, Push(step), step.before = bank
  PROVE  Line!Edit
<1> DEFINE v == VersionsOf(undo, bank, redo)
           w == VersionsOf(undo', bank', redo')
           at == Len(undo) + 1
           first == IF at > MaxHistory THEN 2 ELSE 1
           kept == SubSeq(v, first, at)
<1>1. /\ undo \in Seq(GoodSteps) /\ redo \in Seq(GoodSteps) /\ bank \in GoodObjects
      /\ undo' \in Seq(GoodSteps) /\ redo' \in Seq(GoodSteps) /\ bank' \in GoodObjects
      /\ Len(undo) <= MaxHistory /\ MaxHistory \in Nat \ {0} /\ Len(undo) \in Nat
  <2>1. /\ undo \in Seq(GoodSteps) /\ redo \in Seq(GoodSteps)
        /\ Len(undo) + Len(redo) <= MaxHistory
    BY DEF BankInv
  <2>2. Len(undo) \in Nat /\ Len(redo) \in Nat
    BY <2>1, LenProperties
  <2> QED BY <2>1, <2>2 DEF BankInv, SettingsAssumption
<1>2. redo' = <<>> /\ Len(redo') = 0
  BY EmptySeq DEF Push
<1>3. /\ v \in Seq(GoodObjects) /\ Len(redo) \in Nat
      /\ Len(v) = Len(undo) + 1 + Len(redo)
      /\ \A i \in 1..Len(undo) : v[i] = undo[i].before
      /\ v[Len(undo) + 1] = bank
  BY <1>1, VersionsTyped
<1>4. /\ w \in Seq(GoodObjects) /\ Len(undo') \in Nat
      /\ Len(w) = Len(undo') + 1 + Len(redo')
      /\ \A i \in 1..Len(undo') : w[i] = undo'[i].before
      /\ w[Len(undo') + 1] = bank'
  BY <1>1, VersionsTyped
<1>5. /\ kept \in Seq(GoodObjects) /\ Len(kept) = at - first + 1
      /\ \A i \in 1..(at - first + 1) : kept[i] = v[first + i - 1]
  <2>1. first \in Int /\ at \in Int /\ first <= at /\ first \in 1..2
    BY <1>1
  <2>2. \A i \in first..at : v[i] \in GoodObjects
    <3>1. \A i \in first..at : i \in 1..Len(v)
      BY <1>1, <1>3
    <3> HIDE DEF v, first, at
    <3> QED BY <1>3, <3>1, ElementOfSeq
  <2> HIDE DEF v, first, at
  <2> QED BY <2>1, <2>2, SubSeqProperties
\* The new stack is what was kept of the versions before the current one, and it.
<1>6. /\ Len(undo') = Len(kept)
      /\ \A i \in 1..Len(kept) : undo'[i].before = kept[i]
  <2>1. CASE Len(undo) >= MaxHistory
    <3>1. undo # <<>> /\ Len(undo) = MaxHistory /\ undo' = Append(Tail(undo), step)
      BY <1>1, <2>1, EmptySeq DEF Push
    <3>2. /\ Tail(undo) \in Seq(GoodSteps) /\ Len(Tail(undo)) = Len(undo) - 1
          /\ \A i \in 1..Len(Tail(undo)) : Tail(undo)[i] = undo[i + 1]
      BY <1>1, <3>1, HeadTailProperties
    <3>3. /\ Len(undo') = Len(undo)
          /\ \A i \in 1..(Len(undo) - 1) : undo'[i] = undo[i + 1]
          /\ undo'[Len(undo)] = step
      BY <1>1, <3>1, <3>2, AppendProperties
    <3>4. first = 2 /\ at - first + 1 = Len(undo)
      BY <1>1, <3>1
    <3>5. \A i \in 1..Len(undo) : kept[i] = v[i + 1]
      BY <1>1, <1>5, <3>4
    <3> HIDE DEF v, kept, first, at
    <3>6. ASSUME NEW i \in 1..Len(undo)
          PROVE  undo'[i].before = kept[i]
      <4>1. CASE i = Len(undo)
        BY <1>1, <1>3, <3>3, <3>5, <4>1
      <4>2. CASE i < Len(undo)
        <5>1. i + 1 \in 1..Len(undo) /\ i \in 1..(Len(undo) - 1)
          BY <1>1, <4>2
        <5>2. undo'[i] = undo[i + 1]
          BY <3>3, <5>1
        <5>3. kept[i] = undo[i + 1].before
          BY <1>3, <3>5, <5>1
        <5> QED BY <5>2, <5>3
      <4> QED BY <1>1, <4>1, <4>2
    <3> QED BY <1>5, <3>3, <3>4, <3>6
  <2>2. CASE Len(undo) < MaxHistory
    <3>1. undo' = Append(undo, step)
      BY <1>1, <2>2 DEF Push
    <3>2. /\ Len(undo') = Len(undo) + 1
          /\ \A i \in 1..Len(undo) : undo'[i] = undo[i]
          /\ undo'[Len(undo) + 1] = step
      BY <1>1, <3>1, AppendProperties
    <3>3. first = 1 /\ at - first + 1 = Len(undo) + 1
      BY <1>1, <2>2
    <3>4. \A i \in 1..(Len(undo) + 1) : kept[i] = v[i]
      BY <1>1, <1>5, <3>3
    <3> HIDE DEF v, kept, first, at
    <3>5. ASSUME NEW i \in 1..(Len(undo) + 1)
          PROVE  undo'[i].before = kept[i]
      <4>1. CASE i = Len(undo) + 1
        BY <1>1, <1>3, <3>2, <3>4, <4>1
      <4>2. CASE i < Len(undo) + 1
        <5>1. i \in 1..Len(undo)
          BY <1>1, <4>2
        <5>2. undo'[i] = undo[i]
          BY <3>2, <5>1
        <5>3. kept[i] = undo[i].before
          BY <1>3, <3>4, <5>1
        <5> QED BY <5>2, <5>3
      <4> QED BY <1>1, <4>1, <4>2
    <3> QED BY <1>5, <3>2, <3>3, <3>5
  <2> QED BY <1>1, <2>1, <2>2
<1>7. w = Append(kept, bank')
  <2> HIDE DEF v, w, kept
  <2>1. /\ Append(kept, bank') \in Seq(GoodObjects)
        /\ Len(Append(kept, bank')) = Len(kept) + 1
        /\ \A i \in 1..Len(kept) : Append(kept, bank')[i] = kept[i]
        /\ Append(kept, bank')[Len(kept) + 1] = bank'
    BY <1>1, <1>5, AppendProperties
  <2>2. Len(w) = Len(kept) + 1
    BY <1>2, <1>4, <1>6
  <2>3. \A i \in 1..Len(w) : w[i] = Append(kept, bank')[i]
    BY <1>4, <1>6, <2>1, <2>2
  <2> QED BY <1>4, <2>1, <2>2, <2>3, SeqEqual
<1>8. w[Len(undo') + 1] = bank' /\ Len(undo') + 1 = Len(kept) + 1
  BY <1>4, <1>6
<1>9. Versions = v /\ Versions' = w
  BY DEF Versions, VersionsOf
<1>10. kept = IF Len(undo) + 1 > MaxHistory THEN SubSeq(v, 2, Len(undo) + 1)
                                             ELSE SubSeq(v, 1, Len(undo) + 1)
  OBVIOUS
<1> HIDE DEF v, w, kept
<1> QED BY <1>7, <1>8, <1>9, <1>10 DEF Line!Edit

\* One version, when nothing is to be undone or redone.
LEMMA OneVersion ==
  ASSUME NEW b \in GoodObjects
  PROVE  VersionsOf(<<>>, b, <<>>) = <<b>> /\ Len(VersionsOf(<<>>, b, <<>>)) = 1
<1>1. PICK none \in Seq(GoodSteps) : none = <<>> /\ Len(none) = 0
  BY EmptySeq
<1> DEFINE v == VersionsOf(none, b, none)
<1>2. v \in Seq(GoodObjects) /\ Len(v) = Len(none) + 1 + Len(none) /\ v[Len(none) + 1] = b
  BY VersionsTyped
<1>3. <<b>> \in Seq(GoodObjects) /\ Len(<<b>>) = 1 /\ <<b>>[1] = b
  OBVIOUS
<1> HIDE DEF v
<1>4. Len(v) = 1 /\ v[1] = b
  BY <1>1, <1>2
<1>5. \A i \in 1..Len(v) : v[i] = <<b>>[i]
  BY <1>3, <1>4
<1>6. v = <<b>>
  BY <1>2, <1>3, <1>4, <1>5, SeqEqual
<1> QED BY <1>1, <1>4, <1>6 DEF v

\* What v has to be to be the line of versions of two stacks and a bank.
IsLine(v, u, b, r) ==
  /\ v \in Seq(GoodObjects) /\ Len(u) \in Nat /\ Len(r) \in Nat
  /\ Len(v) = Len(u) + 1 + Len(r)
  /\ \A i \in 1..Len(u) : v[i] = u[i].before
  /\ v[Len(u) + 1] = b
  /\ \A i \in 1..Len(r), j \in Int : j = Len(u) + Len(r) + 2 - i => v[j] = r[i].after

\* The versions are one.
LEMMA VersionsAreLine ==
  ASSUME NEW u \in Seq(GoodSteps), NEW b \in GoodObjects, NEW r \in Seq(GoodSteps)
  PROVE  IsLine(VersionsOf(u, b, r), u, b, r)
<1>1. \A i \in 1..Len(r), j \in Int :
        j = Len(u) + Len(r) + 2 - i => VersionsOf(u, b, r)[j] = r[i].after
  BY VersionsAhead
<1>2. /\ VersionsOf(u, b, r) \in Seq(GoodObjects)
      /\ Len(u) \in Nat /\ Len(r) \in Nat
      /\ Len(VersionsOf(u, b, r)) = Len(u) + 1 + Len(r)
      /\ \A i \in 1..Len(u) : VersionsOf(u, b, r)[i] = u[i].before
      /\ VersionsOf(u, b, r)[Len(u) + 1] = b
  BY VersionsTyped
<1> QED BY <1>1, <1>2 DEF IsLine

\* The last step of u is moved to r.
Moves(u, r, u2, r2, step) ==
  /\ Len(u) = Len(u2) + 1 /\ Len(r2) = Len(r) + 1
  /\ \A i \in 1..Len(u2) : u2[i] = u[i]
  /\ u[Len(u2) + 1] = step
  /\ \A i \in 1..Len(r) : r2[i] = r[i]
  /\ r2[Len(r) + 1] = step

\* Undo and redo leave the line as it is.
LEMMA MovedIsSameLine ==
  ASSUME NEW u, NEW b, NEW r, NEW u2, NEW b2, NEW r2, NEW step, NEW v, NEW w,
         Moves(u, r, u2, r2, step), b = step.after, b2 = step.before,
         IsLine(v, u, b, r), IsLine(w, u2, b2, r2)
  PROVE  v = w
<1>1. /\ v \in Seq(GoodObjects) /\ w \in Seq(GoodObjects)
      /\ Len(u) \in Nat /\ Len(r) \in Nat /\ Len(u2) \in Nat /\ Len(r2) \in Nat
      /\ Len(v) = Len(u) + 1 + Len(r) /\ Len(w) = Len(u2) + 1 + Len(r2)
  BY DEF IsLine
<1>2. /\ \A i \in 1..Len(u) : v[i] = u[i].before
      /\ v[Len(u) + 1] = b
  BY DEF IsLine
<1>3. /\ \A i \in 1..Len(u2) : w[i] = u2[i].before
      /\ w[Len(u2) + 1] = b2
  BY DEF IsLine
<1>4. Len(u) = Len(u2) + 1 /\ Len(r2) = Len(r) + 1
  BY DEF Moves
<1>5. Len(v) = Len(w) /\ Len(v) \in Nat
  BY <1>1, <1>4
<1>6. ASSUME NEW i \in 1..Len(v) PROVE v[i] = w[i]
  <2>1. CASE i <= Len(u2)
    <3>1. i \in 1..Len(u) /\ i \in 1..Len(u2)
      BY <1>1, <1>4, <2>1
    <3>2. u2[i] = u[i]
      BY <3>1 DEF Moves
    <3> QED BY <1>2, <1>3, <3>1, <3>2
  <2>2. CASE i = Len(u2) + 1
    <3>1. i \in 1..Len(u)
      BY <1>1, <1>4, <2>2
    <3>2. u[i] = step
      BY <2>2 DEF Moves
    <3> QED BY <1>2, <1>3, <2>2, <3>1, <3>2
  <2>3. CASE i = Len(u2) + 2
    <3>1. /\ i = Len(u) + 1 /\ Len(r) + 1 \in 1..Len(r2) /\ i \in Int
          /\ i = Len(u2) + Len(r2) + 2 - (Len(r) + 1)
      BY <1>1, <1>4, <2>3
    <3>2. w[i] = r2[Len(r) + 1].after
      BY <3>1 DEF IsLine
    <3>3. r2[Len(r) + 1] = step
      BY DEF Moves
    <3> QED BY <1>2, <3>1, <3>2, <3>3
  <2>4. CASE i > Len(u2) + 2
    <3> DEFINE j == Len(u) + Len(r) + 2 - i
    <3>1. /\ j \in 1..Len(r) /\ j \in 1..Len(r2) /\ i \in Int
          /\ i = Len(u) + Len(r) + 2 - j /\ i = Len(u2) + Len(r2) + 2 - j
      BY <1>1, <1>4, <2>4
    <3> HIDE DEF j
    <3>2. v[i] = r[j].after
      BY <3>1 DEF IsLine
    <3>3. w[i] = r2[j].after
      BY <3>1 DEF IsLine
    <3>4. r2[j] = r[j]
      BY <3>1 DEF Moves
    <3> QED BY <3>2, <3>3, <3>4
  <2>5. i \in Int
    BY <1>5
  <2> QED BY <1>1, <2>1, <2>2, <2>3, <2>4, <2>5
<1> QED BY <1>1, <1>5, <1>6, SeqEqual
-----------------------------------------------------------------------------
\* Every key is a step of the line of versions, or leaves it alone.
LEMMA LineStep ==
  ASSUME SettingsAssumption, IInv, IInv', [Next]_vars
  PROVE  [Line!Next]_Line!vars
<1> DEFINE lineVars == <<open, Versions, Len(undo) + 1>>
<1>1. /\ BankInv /\ BankInv' /\ CursorInv /\ AskedInv
      /\ undo \in Seq(GoodSteps) /\ redo \in Seq(GoodSteps) /\ bank \in GoodObjects
      /\ undo' \in Seq(GoodSteps) /\ redo' \in Seq(GoodSteps) /\ bank' \in GoodObjects
  BY DEF IInv, BankInv
<1>2. /\ Versions = VersionsOf(undo, bank, redo)
      /\ Versions' = VersionsOf(undo', bank', redo')
  BY DEF Versions, VersionsOf
<1>3. ASSUME UNCHANGED <<open, bank, undo, redo>>
      PROVE  UNCHANGED Line!vars
  <2>1. UNCHANGED Versions /\ UNCHANGED (Len(undo) + 1)
    BY <1>2, <1>3
  <2> QED BY <1>3, <2>1 DEF Line!vars
<1>4. ASSUME UNCHANGED <<bank, undo, redo>>, ~open, open'
      PROVE  Line!Begin
  <2>1. UNCHANGED Versions /\ UNCHANGED (Len(undo) + 1) /\ open' = TRUE
    BY <1>1, <1>2, <1>4 DEF IInv, CursorInv
  <2> QED BY <1>4, <2>1 DEF Line!Begin
<1>5. CASE Open \/ OpenToReset \/ OpenAtBinding
  <2>1. ~open /\ open' = TRUE /\ UNCHANGED <<bank, undo, redo>>
    BY <1>5 DEF Open, OpenToReset, OpenAtBinding, Fresh, history
  <2> QED BY <1>4, <2>1 DEF Line!Next
<1>6. CASE Close
  <2>1. open /\ open' = FALSE /\ bank' = bank /\ undo' = <<>> /\ redo' = <<>>
    BY <1>6 DEF Close, InMap, Discard
  <2>2. Versions' = <<bank>> /\ Len(undo') = 0
    BY <1>1, <1>2, <2>1, OneVersion, EmptySeq
  <2>3. Versions[Len(undo) + 1] = bank
    BY <1>1, <1>2, VersionsTyped
  <2>4. Line!End
    BY <2>1, <2>2, <2>3 DEF Line!End
  <2> QED BY <2>4 DEF Line!Next
<1>7. CASE Reload
  <2>1. ~open /\ open' = open /\ undo' = <<>> /\ redo' = <<>>
    BY <1>7 DEF Reload, Discard
  <2>2. Len(Versions') = 1 /\ Len(undo') = 0
    BY <1>1, <1>2, <2>1, OneVersion, EmptySeq
  <2>3. Line!Replace
    BY <2>1, <2>2 DEF Line!Replace
  <2> QED BY <2>3 DEF Line!Next
<1>8. CASE CommitEdit
  <2>1. PICK records \in GoodBanks : Make(records) /\ Push(Step("field", bank'))
                                     /\ AsLong(records, bank.records, place.section)
    BY <1>1, <1>8, CommitMakesABank
  <2>2. bank'.records = records
    BY <1>1, <2>1, MadeIsGood
  <2>3. place.record \in 1..Len(bank.records[place.section]) /\ open /\ open' = open
    BY <1>1, <1>8 DEF CommitEdit, CursorInv, IsReal, RecordsAt
  <2>4. Step("field", bank') \in GoodSteps /\ Step("field", bank').before = bank
    BY <1>1, <2>1, <2>2, <2>3, StepFits DEF AsLong
  <2>5. Line!Edit
    BY <1>1, <2>1, <2>3, <2>4, PushIsEdit
  <2> QED BY <2>5 DEF Line!Next
<1>9. CASE ConfirmReset
  <2>1. /\ asked # "none" /\ open /\ open' = open
        /\ bank'.records = ResetRecords(asked)
        /\ UNCHANGED <<bank, undo, redo>> \/ Push(Step(asked, bank'))
    <3>1. /\ asked # "none" /\ open /\ open' = open
          /\ IF ResetRecords(asked) = bank.records
               THEN UNCHANGED <<made, bank, dirty, history, told>>
               ELSE /\ IF asked = "bank"
                         THEN bank' = Object(0, Defaults) /\ UNCHANGED made
                         ELSE Make(ResetRecords(asked))
                    /\ Push(Step(asked, bank'))
      BY <1>9 DEF ConfirmReset
    <3>2. asked = "bank" => ResetRecords(asked) = Defaults
      BY DEF ResetRecords
    <3> QED BY <3>1, <3>2 DEF Make, Object, history
  <2>2. CASE UNCHANGED <<bank, undo, redo>>
    BY <1>3, <2>1, <2>2
  <2>3. CASE Push(Step(asked, bank'))
    <3>1. asked \in {"field", "record", "section", "bank"}
      BY <1>1, <2>1 DEF CursorInv
    <3>2. asked \in {"field", "record"} =>
            /\ place.record \in 1..Len(bank.records[place.section])
            /\ place.record \in 1..Len(bank'.records[place.section])
      BY <1>1, <2>1, ResetIsTyped
    <3>3. Step(asked, bank') \in GoodSteps /\ Step(asked, bank').before = bank
      BY <1>1, <3>1, <3>2, StepFits
    <3>4. Line!Edit
      BY <1>1, <2>1, <2>3, <3>3, PushIsEdit
    <3> QED BY <3>4 DEF Line!Next
  <2> QED BY <2>1, <2>2, <2>3
<1>10. IsLine(Versions, undo, bank, redo) /\ IsLine(Versions', undo', bank', redo')
  BY <1>1, <1>2, VersionsAreLine
<1>11. CASE Undo
  <2> DEFINE step == undo[Len(undo)]
  <2>1. /\ bank' = step.before /\ undo' = SubSeq(undo, 1, Len(undo) - 1)
        /\ redo' = Append(redo, step) /\ undo # <<>> /\ open /\ open' = open
    BY <1>11 DEF Undo, InMap
  <2>2. /\ Len(undo) \in Nat \ {0} /\ Len(redo) \in Nat /\ step \in GoodSteps
        /\ Len(undo') = Len(undo) - 1 /\ \A i \in 1..Len(undo') : undo'[i] = undo[i]
        /\ Len(redo') = Len(redo) + 1 /\ \A i \in 1..Len(redo) : redo'[i] = redo[i]
        /\ redo'[Len(redo) + 1] = step
    BY <1>1, <2>1, LastIsMoved
  <2>3. bank = step.after
    <3>1. \A i \in 1..Len(undo) :
             undo[i].after = IF i = Len(undo) THEN bank ELSE undo[i + 1].before
      BY <1>1 DEF BankInv, Linked
    <3> QED BY <2>2, <3>1
  <2>4. bank' = step.before /\ Moves(undo, redo, undo', redo', step)
    BY <2>1, <2>2 DEF Moves
  <2> HIDE DEF step
  <2>5. Versions' = Versions
    BY <1>10, <2>3, <2>4, MovedIsSameLine
  <2>6. Len(undo) + 1 > 1 /\ Len(undo') + 1 = Len(undo) + 1 - 1
    BY <2>2
  <2>7. Line!Undo
    BY <2>1, <2>5, <2>6 DEF Line!Undo
  <2> QED BY <2>7 DEF Line!Next
<1>12. CASE Redo
  <2> DEFINE step == redo[Len(redo)]
  <2>1. /\ bank' = step.after /\ redo' = SubSeq(redo, 1, Len(redo) - 1)
        /\ undo' = Append(undo, step) /\ redo # <<>> /\ open /\ open' = open
    BY <1>12 DEF Redo, InMap
  <2>2. /\ Len(redo) \in Nat \ {0} /\ Len(undo) \in Nat /\ step \in GoodSteps
        /\ Len(redo') = Len(redo) - 1 /\ \A i \in 1..Len(redo') : redo'[i] = redo[i]
        /\ Len(undo') = Len(undo) + 1 /\ \A i \in 1..Len(undo) : undo'[i] = undo[i]
        /\ undo'[Len(undo) + 1] = step
    BY <1>1, <2>1, LastIsMoved
  <2>3. bank = step.before
    <3>1. \A i \in 1..Len(redo) :
             redo[i].before = IF i = Len(redo) THEN bank ELSE redo[i + 1].after
      BY <1>1 DEF BankInv, Linked
    <3> QED BY <2>2, <3>1
  <2>4. bank' = step.after /\ Moves(undo', redo', undo, redo, step)
    <3>1. redo[Len(redo') + 1] = step
      BY <2>2
    <3> QED BY <2>1, <2>2, <3>1 DEF Moves
  <2> HIDE DEF step
  <2>5. Versions' = Versions
    BY <1>10, <2>3, <2>4, MovedIsSameLine
  <2>6. Len(undo) + 1 < Len(Versions) /\ Len(undo') + 1 = Len(undo) + 1 + 1
    BY <1>10, <2>2 DEF IsLine
  <2>7. Line!Redo
    BY <2>1, <2>5, <2>6 DEF Line!Redo
  <2> QED BY <2>7 DEF Line!Next
<1>13. ASSUME NEW delta \in {-1, 1}, Move(delta)
       PROVE  UNCHANGED <<open, bank, undo, redo>>
  BY <1>13 DEF Move, Goes, history
<1>14. Descend \/ Ascend \/ BeginEdit \/ CancelEdit \/ Save
         => UNCHANGED <<open, bank, undo, redo>>
  BY DEF Descend, Ascend, Goes, BeginEdit, CancelEdit, Save, history
<1>15. BeginSearch \/ ExtendSearch \/ BackspaceSearch \/ CommitSearch \/ CancelSearch \/ Cycle
         => UNCHANGED <<open, bank, undo, redo>>
  BY DEF BeginSearch, ExtendSearch, BackspaceSearch, Recompute, CommitSearch, CancelSearch,
         Cycle, Goes, history
<1>16. BeginReset \/ CancelReset => UNCHANGED <<open, bank, undo, redo>>
  BY DEF BeginReset, CancelReset, history
<1>17. UNCHANGED vars => UNCHANGED <<open, bank, undo, redo>>
  BY DEF vars, history
<1> QED BY <1>3, <1>5, <1>6, <1>7, <1>8, <1>9, <1>11, <1>12, <1>13, <1>14, <1>15, <1>16, <1>17
        DEF Next

(* The editor keeps its promise of a history: an undo gives back exactly   *)
(* the bank before, a redo the bank after, and nothing but an edit or a    *)
(* reset changes the line, not even when MAX_HISTORY drops the oldest step *)
(* (undo, redo and _push_undo, settings_editor.py:359-425).                *)
THEOREM ImplementsHistory == Spec => EditsAreAHistory
<1>1. Init => Line!Init
  <2> SUFFICES ASSUME Init PROVE Line!Init
    OBVIOUS
  <2>1. IInv
    BY SettingsAssumption, InitInv
  <2>2. open = FALSE /\ undo = <<>> /\ redo = <<>> /\ bank \in GoodObjects
    BY <2>1 DEF Init, IInv, BankInv
  <2>3. Versions = VersionsOf(undo, bank, redo)
    BY DEF Versions, VersionsOf
  <2>4. Len(Versions) = 1 /\ Len(undo) = 0
    BY <2>2, <2>3, OneVersion, EmptySeq
  <2> QED BY <2>2, <2>4 DEF Line!Init
<1>2. IInv /\ IInv' /\ [Next]_vars => [Line!Next]_Line!vars
  BY SettingsAssumption, LineStep
<1> QED BY <1>1, <1>2, Invariance, PTL DEF Spec, EditsAreAHistory, Line!Spec
=============================================================================
