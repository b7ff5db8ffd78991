------------------------------ MODULE Settings ------------------------------
(***************************************************************************)
(* The settings editor and the controller that opens and closes it,        *)
(* settings_editor.py and settings_controller.py, as the keys of SETTINGS  *)
(* mode drive them (input_router.py).  A step is one key.  Positions count *)
(* from 1.  An exception ends a step where it is raised; the keyboard loop *)
(* reports it and goes on.                                                 *)
(***************************************************************************)
EXTENDS SoundBank

CONSTANTS Loaded,      \* the records of the bank the program was started with
          Defaults,    \* those of the built-in bank
          MaxHistory,  \* MAX_HISTORY
          MaxObjects,  \* bound: how many banks are made
          Typed,       \* bound: the values that are typed for each field
          Chars,       \* bound: the characters a query is typed with
          MaxQuery     \* bound: the length of a query

ASSUME SettingsAssumption ==
  /\ Loaded \in Banks /\ Valid(Loaded)
  /\ Defaults \in Banks /\ Valid(Defaults)
  /\ MaxHistory \in Nat \ {0}
  /\ MaxObjects \in Nat \ {0}
  /\ MaxQuery \in Nat

VARIABLES
  open,       \* SettingsController._editor is there
  editing,    \* SettingsController._editing
  cached,     \* SettingsController._bank
  disk,       \* the records in the bank file
  made,       \* how many bank objects were made
  bank,       \* the live bank: an object, because the code compares identities
  saved,      \* _saved_bank
  dirty,
  place,      \* level, section, record and field of EditorState
  undo, redo,
  searching, query, origin,
  matches,    \* _search_matches, as a set: its order is the order of the bank
  match,      \* the one at _search_position, <<>> if there is none
  asked,      \* _reset_scope while the confirmation is open
  told,       \* what the last SETTINGS_FOCUSED or SETTINGS_VALUE_EDITED said
  misled      \* history: n or N went to a record that is no longer there

search == <<searching, query, origin, matches, match>>
history == <<undo, redo>>
outside == <<cached, disk, made>>
vars == <<open, editing, outside, bank, saved, dirty, place, history, search,
          asked, told, misled>>

Object(n, records) == [object |-> n, records |-> records]

At(level, section, record, field) ==
  [level |-> level, section |-> section, record |-> record, field |-> field]

Top == At("section", "voices", 1, 1)

Objects == [object : 0..MaxObjects, records : Banks]

Places ==
  [level : {"section", "record", "field"}, section : Sections,
   record : Nat \ {0}, field : 1..3]

Steps ==
  [scope : {"field", "record", "section", "bank"}, at : Places,
   before : Objects, after : Objects]

TypeOK ==
  /\ {open, editing, dirty, searching, misled} \subseteq BOOLEAN
  /\ disk \in Banks /\ made \in 1..MaxObjects
  /\ {cached, bank, saved} \subseteq Objects
  /\ {place, origin} \subseteq Places
  /\ place.field \in 1..Len(Fields[place.section])
  /\ undo \in Seq(Steps) /\ redo \in Seq(Steps) /\ Len(undo) + Len(redo) <= MaxHistory
  /\ query \in Seq(Chars)
  /\ matches \subseteq Sections \X (Nat \ {0}) /\ match \in matches \cup {<<>>}
  /\ asked \in {"none", "field", "record", "section", "bank"}
-----------------------------------------------------------------------------
(* Where the user is and what is said of it.                               *)

RecordsAt(p) == bank.records[p.section]

IsReal(p) == p.level = "section" \/ p.record \in 1..Len(RecordsAt(p))

FieldAt(p) == Fields[p.section][p.field]

\* The payload of SETTINGS_FOCUSED, for a position that is real.
Said(p) ==
  CASE p.level = "section" -> <<p.section>>
    [] p.level = "record" -> <<p.section, p.record, RecordsAt(p)[p.record].id>>
    [] p.level = "field" ->
         <<p.section, p.record, FieldAt(p), RecordsAt(p)[p.record][FieldAt(p)]>>

\* _publish_focus: an index that is out of range raises before anything is published.
Announce == told' = IF IsReal(place)' THEN Said(place)' ELSE told

Wrap(i, delta, n) == ((i - 1 + delta) % n) + 1

\* Nothing but the editor's position changes.
Goes == UNCHANGED <<open, editing, outside, bank, saved, dirty, history, asked>>

InMap == open /\ ~editing /\ ~searching /\ asked = "none"

\* _move
Move(delta) ==
  /\ InMap /\ Goes /\ UNCHANGED <<search, misled>>
  /\ \/ /\ place.level = "section"
        /\ LET i == CHOOSE n \in 1..3 : SectionOrder[n] = place.section
           IN place' = At("section", SectionOrder[Wrap(i, delta, 3)], 1, 1)
     \/ /\ place.level = "record" /\ RecordsAt(place) # <<>>
        /\ place' = At("record", place.section,
                       Wrap(place.record, delta, Len(RecordsAt(place))), 1)
     \/ /\ place.level = "field"
        /\ place' = At("field", place.section, place.record,
                       Wrap(place.field, delta, Len(Fields[place.section])))
  /\ Announce

\* enter: an empty section and the deepest level refuse.
Descend ==
  /\ InMap /\ Goes /\ UNCHANGED <<search, misled>>
  /\ \/ /\ place.level = "section" /\ RecordsAt(place) # <<>>
        /\ place' = At("record", place.section, 1, 1)
     \/ /\ place.level = "record"
        /\ place' = At("field", place.section, place.record, 1)
  /\ Announce

\* back; at the top the session is closed instead, see Close.
Ascend ==
  /\ InMap /\ Goes /\ UNCHANGED <<search, misled>>
  /\ \/ /\ place.level = "field"
        /\ place' = [place EXCEPT !.level = "record"]
     \/ /\ place.level = "record"
        /\ place' = At("section", place.section, 1, 1)
  /\ Announce
-----------------------------------------------------------------------------
(* Edits and their history.                                                *)

Step(scope, after) ==
  [scope |-> scope, at |-> place, before |-> bank, after |-> after]

\* Mutant: what was undone can still be redone after another edit.
PushUndoOnly(step) ==
  /\ undo' = IF Len(undo) >= MaxHistory THEN Append(Tail(undo), step)
                                        ELSE Append(undo, step)
  /\ UNCHANGED redo

\* _push_undo, and the redo stack is cleared.
Push(step) ==
  /\ undo' = IF Len(undo) >= MaxHistory THEN Append(Tail(undo), step)
                                        ELSE Append(undo, step)
  /\ redo' = <<>>

Make(records) ==
  /\ made < MaxObjects /\ made' = made + 1
  /\ bank' = Object(made + 1, records)

BeginEdit ==
  /\ InMap /\ place.level = "field"
  /\ editing' = TRUE
  /\ UNCHANGED <<open, outside, bank, saved, dirty, place, history, search,
                 asked, told, misled>>

\* edit: text that does not parse, a bank that is not valid and a record that is
\* not there leave everything as it was, the composer open.
CommitEdit ==
  /\ open /\ editing /\ IsReal(place)
  /\ \E value \in FieldValues(FieldAt(place)) \cap Typed[FieldAt(place)] :
       LET edited == [bank.records EXCEPT
                        ![place.section][place.record][FieldAt(place)] = value]
       IN Valid(edited) /\ Make(edited) /\ Push(Step("field", bank'))
  /\ editing' = FALSE /\ dirty' = TRUE
  /\ UNCHANGED <<open, cached, disk, saved, place, search, asked, misled>>
  /\ Announce

CancelEdit ==
  /\ open /\ editing /\ editing' = FALSE
  /\ UNCHANGED <<open, outside, bank, saved, dirty, place, history, search,
                 asked, told, misled>>

\* Mutant: the cursor is not taken along.
StayingPut(step) == place

\* _apply_history_cursor
HistoryPlace(step) ==
  CASE step.scope \in {"bank", "section"} -> At("section", step.at.section, 1, 1)
    [] step.scope = "record" -> At("record", step.at.section, step.at.record, 1)
    [] step.scope = "field" -> At("field", step.at.section, step.at.record, step.at.field)

\* Mutant: clean when nothing is left to undo.
DirtyByHistory(b) == undo' # <<>>

\* _compute_dirty
ComputeDirty(b) == b # saved

Undo ==
  /\ InMap /\ undo # <<>>
  /\ LET step == undo[Len(undo)] IN
       /\ bank' = step.before
       /\ undo' = SubSeq(undo, 1, Len(undo) - 1)
       /\ redo' = Append(redo, step)
       /\ place' = HistoryPlace(step)
  /\ dirty' = ComputeDirty(bank')
  /\ Announce
  /\ UNCHANGED <<open, editing, outside, saved, search, asked, misled>>

Redo ==
  /\ InMap /\ redo # <<>>
  /\ LET step == redo[Len(redo)] IN
       /\ bank' = step.after
       /\ redo' = SubSeq(redo, 1, Len(redo) - 1)
       /\ undo' = Append(undo, step)
       /\ place' = HistoryPlace(step)
  /\ dirty' = ComputeDirty(bank')
  /\ Announce
  /\ UNCHANGED <<open, editing, outside, saved, search, asked, misled>>

Save ==
  /\ InMap
  /\ disk' = bank.records /\ saved' = bank /\ dirty' = FALSE
  /\ UNCHANGED <<open, editing, cached, made, bank, place, history, search,
                 asked, told, misled>>
-----------------------------------------------------------------------------
(* Search.                                                                 *)

BeginSearch ==
  /\ InMap /\ Goes /\ UNCHANGED <<place, told, misled>>
  /\ \E s \in Sections : bank.records[s] # <<>>
  /\ searching' = TRUE /\ query' = <<>> /\ matches' = {} /\ match' = <<>>
  /\ origin' = place

\* _recompute_matches: on to the first hit, if there is one.
Recompute(q) ==
  /\ open /\ searching /\ Goes /\ UNCHANGED <<searching, origin, misled>>
  /\ query' = q
  /\ matches' = IF q = <<>> THEN {} ELSE Hits(bank.records, q)
  /\ \/ matches' = {} /\ match' = <<>> /\ UNCHANGED <<place, told>>
     \/ \E hit \in matches' :
          /\ IsFirst(hit, matches') /\ match' = hit
          /\ place' = At("record", hit[1], hit[2], 1)
          /\ Announce

ExtendSearch ==
  /\ Len(query) < MaxQuery
  /\ \E ch \in Chars : Recompute(Append(query, ch))

BackspaceSearch == query # <<>> /\ Recompute(SubSeq(query, 1, Len(query) - 1))

\* The matches stay, for n and N.
CommitSearch ==
  /\ open /\ searching /\ Goes /\ UNCHANGED <<place, told, query, matches, match, misled>>
  /\ searching' = FALSE /\ origin' = Top

Return == place' = origin /\ Announce

CancelSearch ==
  /\ open /\ searching /\ Goes /\ UNCHANGED misled
  /\ searching' = FALSE /\ query' = <<>> /\ matches' = {} /\ match' = <<>>
  /\ origin' = Top
  /\ Return

\* next_search_match and prev_search_match: matches are never looked up again.
Cycle ==
  /\ InMap /\ Goes /\ UNCHANGED <<searching, query, origin, matches>>
  /\ \E hit \in matches :
       /\ IsNext(hit, match, matches) \/ IsPrevious(hit, match, matches)
       /\ match' = hit
       /\ place' = At("record", hit[1], hit[2], 1)
       /\ misled' = (misled \/ ~IsReal(place'))
       /\ Announce
-----------------------------------------------------------------------------
(* Reset to defaults.                                                      *)

\* default_reset_scope is the level.
BeginReset ==
  /\ InMap /\ IsReal(place)
  /\ place.level # "section" =>
       Find(Defaults[place.section], RecordsAt(place)[place.record].id) # 0
  /\ asked' = place.level
  /\ UNCHANGED <<open, editing, outside, bank, saved, dirty, place, history,
                 search, told, misled>>

\* _compute_reset_bank
ResetRecords(scope) ==
  LET s == place.section
      default == Defaults[s][Find(Defaults[s], RecordsAt(place)[place.record].id)]
  IN CASE scope = "bank" -> Defaults
       [] scope = "section" -> [bank.records EXCEPT ![s] = Defaults[s]]
       [] scope = "record" -> [bank.records EXCEPT ![s][place.record] = default]
       [] scope = "field" ->
            [bank.records EXCEPT ![s][place.record][FieldAt(place)] = default[FieldAt(place)]]

\* Mutant: whatever the defaults say is taken.
Trusted(records) == TRUE

\* confirm_reset checks the whole bank, the references across sections with it.
Checked(records) == Valid(records)

\* A bank that is not valid raises: the confirmation stays open.
ConfirmReset ==
  /\ open /\ asked # "none" /\ Checked(ResetRecords(asked))
  /\ asked' = "none"
  /\ UNCHANGED <<open, editing, cached, disk, saved, place, search, misled>>
  /\ IF ResetRecords(asked) = bank.records
       THEN UNCHANGED <<made, bank, dirty, history, told>>
       ELSE /\ IF asked = "bank"
                 THEN bank' = Object(0, Defaults) /\ UNCHANGED made
                 ELSE Make(ResetRecords(asked))
            /\ Push(Step(asked, bank'))
            /\ dirty' = ComputeDirty(bank')
            /\ Announce

CancelReset ==
  /\ open /\ asked # "none" /\ asked' = "none"
  /\ UNCHANGED <<open, editing, outside, bank, saved, dirty, place, history,
                 search, told, misled>>
-----------------------------------------------------------------------------
(* The controller: sessions.                                               *)

\* A SettingsEditor over the bank that is cached, at a place.
Fresh(p) ==
  /\ ~open /\ open' = TRUE
  /\ place' = p
  /\ UNCHANGED <<editing, outside, bank, saved, dirty, history, search, misled>>
  /\ Announce

\* Ctrl+, and :settings
Open == Fresh(Top) /\ UNCHANGED asked

\* :reset bank
OpenToReset == Fresh(Top) /\ asked' = "bank"

\* Enter in the event log: to the binding of the entry, if the bank has it.
OpenAtBinding ==
  /\ \E id \in Ids :
       LET i == Find(bank.records.bindings, id)
       IN Fresh(IF i = 0 THEN Top ELSE At("record", "bindings", i, 1))
  /\ UNCHANGED asked

\* The editor is given up and its bank kept: what the variables of the next one start with.
Discard(b) ==
  /\ cached' = b /\ bank' = b /\ saved' = b /\ dirty' = FALSE
  /\ place' = Top /\ undo' = <<>> /\ redo' = <<>>
  /\ searching' = FALSE /\ query' = <<>> /\ matches' = {} /\ match' = <<>>
  /\ origin' = Top /\ asked' = "none" /\ editing' = FALSE
  /\ misled' = FALSE /\ UNCHANGED told

\* Ctrl+Q, and Escape at the top.
Close == InMap /\ open' = FALSE /\ Discard(bank) /\ UNCHANGED <<disk, made>>

\* :reload-bank, refused while a session is open.
Reload ==
  /\ ~open /\ UNCHANGED <<open, disk>>
  /\ made < MaxObjects /\ made' = made + 1
  /\ Discard(Object(made + 1, disk))
-----------------------------------------------------------------------------
Init ==
  /\ open = FALSE /\ editing = FALSE /\ disk = Loaded /\ made = 1
  /\ cached = Object(1, Loaded) /\ bank = cached /\ saved = cached /\ dirty = FALSE
  /\ place = Top /\ undo = <<>> /\ redo = <<>>
  /\ searching = FALSE /\ query = <<>> /\ matches = {} /\ match = <<>>
  /\ origin = Top /\ asked = "none" /\ told = <<>>
  /\ misled = FALSE

Next ==
  \/ Open \/ OpenToReset \/ OpenAtBinding \/ Close \/ Reload
  \/ \E delta \in {-1, 1} : Move(delta)
  \/ Descend \/ Ascend
  \/ BeginEdit \/ CommitEdit \/ CancelEdit \/ Undo \/ Redo \/ Save
  \/ BeginSearch \/ ExtendSearch \/ BackspaceSearch \/ CommitSearch \/ CancelSearch
  \/ Cycle
  \/ BeginReset \/ ConfirmReset \/ CancelReset

Spec == Init /\ [][Next]_vars
-----------------------------------------------------------------------------
(* Wherever undo, redo, resets, searches and their cancellation take the   *)
(* user, the position names a record that exists - as long as no match was *)
(* followed that a reset had taken away.                                   *)
PositionIsReal == open => IsReal(place) \/ misled

(* What was last said of the focus, and of a field its value, is what is   *)
(* there: no key moves or changes the focus silently.                      *)
ToldWhereItIs == open /\ IsReal(place) => told = Said(place)

(* No edit, reset, undo or redo leaves a bank with a dangling reference or *)
(* a double id, not even when sections are reset one by one.               *)
BankIsSound == Valid(bank.records) /\ Valid(cached.records) /\ Valid(disk)

(* An editor without the dirty flag shows what it last saved and what is   *)
(* in the file, or, when it has saved nothing of its own, what it was      *)
(* opened with; undoing past a save counts as a change.                    *)
CleanMeansUnchanged ==
  open /\ ~dirty => bank.records = IF saved = cached THEN cached.records ELSE disk

\* The line of versions: what undo leads back to, the bank, what redo leads to.
Versions ==
  [i \in 1..(Len(undo) + 1 + Len(redo)) |->
     IF i <= Len(undo) THEN undo[i].before
     ELSE IF i = Len(undo) + 1 THEN bank
     ELSE redo[Len(undo) + Len(redo) + 2 - i].after]

Line == INSTANCE EditHistory WITH session <- open, versions <- Versions,
                                  at <- Len(undo) + 1

(* Undo and redo walk a line of versions that only edits and resets change:*)
(* an undo gives back exactly the bank before, a redo the bank after.      *)
EditsAreAHistory == Line!Spec
=============================================================================
