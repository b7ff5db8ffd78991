----------------------------- MODULE SoundBank -----------------------------
(***************************************************************************)
(* The records the settings editor works on, sound_bank.py: voices, sounds *)
(* and the bindings that refer to them.  Of the fields that neither name   *)
(* nor refer to a record one per kind of record stands for all.  An id is  *)
(* the sequence of its characters, because a search looks inside it.       *)
(***************************************************************************)
EXTENDS Integers, Sequences

CONSTANTS Ids,      \* the ids a user may type
          Numbers   \* the values of a field that is only a value

\* The reference that is not set.
None == <<>>

SectionOrder == <<"voices", "sounds", "bindings">>

Sections == {"voices", "sounds", "bindings"}

\* VOICE_FIELDS, SOUND_FIELDS, BINDING_FIELDS
Fields == [voices   |-> <<"id", "rate">>,
           sounds   |-> <<"id", "volume">>,
           bindings |-> <<"id", "voice_id", "sound_id">>]

\* FIELD_PARSERS: what the text typed for a field can stand for.
FieldValues(name) ==
  CASE name = "id" -> Ids
    [] name \in {"voice_id", "sound_id"} -> Ids \cup {None}
    [] OTHER -> Numbers

Entries == [voices   |-> [id : Ids, rate : Numbers],
            sounds   |-> [id : Ids, volume : Numbers],
            bindings |-> [id : Ids, voice_id : Ids \cup {None}, sound_id : Ids \cup {None}]]

Banks == [voices   : Seq(Entries.voices),
          sounds   : Seq(Entries.sounds),
          bindings : Seq(Entries.bindings)]

IdsOf(entries) == {entries[i].id : i \in 1..Len(entries)}

\* validate: ids are unique in their section and references resolve.
Valid(bank) ==
  /\ \A s \in Sections : \A i, j \in 1..Len(bank[s]) :
        bank[s][i].id = bank[s][j].id => i = j
  /\ \A i \in 1..Len(bank.bindings) :
        /\ bank.bindings[i].voice_id \in IdsOf(bank.voices) \cup {None}
        /\ bank.bindings[i].sound_id \in IdsOf(bank.sounds) \cup {None}

\* The position of the record with this id, 0 if there is none.
Find(entries, id) ==
  IF \E i \in 1..Len(entries) : entries[i].id = id
    THEN CHOOSE i \in 1..Len(entries) :
           entries[i].id = id /\ \A j \in 1..(i - 1) : entries[j].id # id
    ELSE 0

\* _search_haystack: the texts of a record a query is looked for in.
Texts(s, entry) ==
  IF s = "bindings" THEN {entry.id, entry.voice_id, entry.sound_id} ELSE {entry.id}

Within(query, text) ==
  \E i \in 0..(Len(text) - Len(query)) : SubSeq(text, i + 1, i + Len(query)) = query

\* What a query hits: pairs of a section and a position in it.
HitsIn(bank, s, query) ==
  {<<s, i>> : i \in {n \in 1..Len(bank[s]) :
                       \E text \in Texts(s, bank[s][n]) : Within(query, text)}}

Hits(bank, query) ==
  HitsIn(bank, "voices", query) \cup HitsIn(bank, "sounds", query)
    \cup HitsIn(bank, "bindings", query)

Rank(s) == CASE s = "voices" -> 1 [] s = "sounds" -> 2 [] s = "bindings" -> 3

\* The order the matches are listed in: section by section.
Before(hit, other) ==
  \/ Rank(hit[1]) < Rank(other[1])
  \/ hit[1] = other[1] /\ hit[2] < other[2]

IsFirst(hit, hits) == hit \in hits /\ \A other \in hits : ~Before(other, hit)
IsLast(hit, hits) == hit \in hits /\ \A other \in hits : ~Before(hit, other)

\* One further in a list of hits, or round to its start; one back, or to its end.
IsNext(hit, from, hits) ==
  LET later == {other \in hits : Before(from, other)}
  IN IsFirst(hit, IF later = {} THEN hits ELSE later)

IsPrevious(hit, from, hits) ==
  LET earlier == {other \in hits : Before(other, from)}
  IN IsLast(hit, IF earlier = {} THEN hits ELSE earlier)
=============================================================================
