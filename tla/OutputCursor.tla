---------------------------- MODULE OutputCursor ----------------------------
(***************************************************************************)
(* What a command printed, and the cursor that reads it back:              *)
(* OutputBuffer and OutputRecorder (asat/output_buffer.py), OutputCursor   *)
(* (asat/output_cursor.py) with its search and go-to-line composers.       *)
(*                                                                         *)
(* Positions count from 1; 0 is the code's -1, no line. Of a line's text   *)
(* only the characters a query can find in it are kept: a query hits the   *)
(* line when all of its characters are among them, so a longer query hits  *)
(* fewer lines. The streams are left out.                                  *)
(***************************************************************************)
EXTENDS Integers, SequencesExt

CONSTANTS
  Cells, NoCell,
  Chars,      \* characters of a query
  MaxLines,   \* bound on the lines of each cell
  MaxTyped,   \* bound on the length of a query
  PageSize

ASSUME CursorAssumption ==
  /\ NoCell \notin Cells
  /\ MaxLines \in [Cells -> Nat] /\ MaxTyped \in Nat /\ PageSize \in Nat \ {0}

VARIABLES
  lines,      \* OutputRecorder._buffers
  reading,    \* the cell whose buffer is attached, or NoCell
  position,   \* _index
  composer,   \* _composer_mode: "none", "search" or "goto"
  typed,      \* _composer_buffer: a query, or at most one number
  origin,     \* _composer_origin while a composer is open, else 0
  matches,    \* the lines of _search_matches, which has them in their order
  matched,    \* the one _search_position is at, or 0
  lastQuery,  \* _last_search_query
  told        \* the cell and line of the last OUTPUT_LINE_FOCUSED

search == <<composer, typed, origin, matches, matched, lastQuery>>
cursor == <<reading, position, told, search>>

Buffer == IF reading = NoCell THEN <<>> ELSE lines[reading]
Numbers == 0..(Len(Buffer) + 1)

CursorInit ==
  /\ lines = [c \in Cells |-> <<>>]
  /\ reading = NoCell /\ position = 0 /\ told = <<>>
  /\ composer = "none" /\ typed = <<>> /\ origin = 0
  /\ matches = {} /\ matched = 0 /\ lastQuery = <<>>
-----------------------------------------------------------------------------
\* OutputRecorder._record: a chunk becomes the last line of its cell.
Record(c, text) ==
  /\ Len(lines[c]) < MaxLines[c]
  /\ lines' = [lines EXCEPT ![c] = Append(@, text)]

Greater(a, b) == IF a > b THEN a ELSE b
Lesser(a, b) == IF a < b THEN a ELSE b

Clamp(target, n) == Greater(1, Lesser(target, n))

\* _seek: only a move is published.
Seek(target) ==
  LET to == Clamp(target, Len(Buffer)) IN
  IF Buffer = <<>> \/ to = position
    THEN UNCHANGED <<position, told>>
    ELSE position' = to /\ told' = <<reading, to>>

\* _clear_composer_state
ClearComposer ==
  /\ composer' = "none" /\ typed' = <<>> /\ origin' = 0
  /\ matches' = {} /\ matched' = 0 /\ lastQuery' = <<>>

\* attach, in the two steps another thread can come between.
AttachBuffer(c) ==
  /\ reading' = c
  /\ ClearComposer
  /\ UNCHANGED <<lines, position, told>>

SnapToEnd ==
  /\ position' = Len(Buffer)
  /\ told' = IF Buffer = <<>> THEN told ELSE <<reading, Len(Buffer)>>
  /\ UNCHANGED <<lines, reading, search>>
-----------------------------------------------------------------------------
(* The keys of OUTPUT mode. *)

\* The arrow and page keys, Home and End. An empty buffer has no first line.
Move ==
  /\ \E target \in {position - 1, position + 1, position - PageSize,
                    position + PageSize, 1, Len(Buffer)} : Seek(target)
  /\ UNCHANGED <<lines, reading, search>>

\* _begin_composer: what was matched before survives only a go-to-line.
BeginComposer(kind) ==
  /\ UNCHANGED <<lines, reading, position, told, lastQuery>>
  /\ IF Buffer = <<>>
       THEN UNCHANGED <<composer, typed, origin, matches, matched>>
       ELSE /\ composer' = kind /\ typed' = <<>> /\ origin' = position
            /\ IF kind = "search"
                 THEN matches' = {} /\ matched' = 0
                 ELSE UNCHANGED <<matches, matched>>

Hits(ls, query) == {i \in DOMAIN ls : Range(query) \subseteq ls[i]}

First(S) == {i \in S : \A j \in S : i <= j}

\* _recompute_matches for a changed query: all hits so far, and jump to the first.
TypeQuery(query) ==
  LET found == IF query = <<>> THEN {} ELSE Hits(Buffer, query) IN
  /\ typed' = query /\ matches' = found
  /\ IF found = {}
       THEN matched' = 0 /\ UNCHANGED <<position, told>>
       ELSE \E i \in First(found) : matched' = i /\ Seek(i)

\* extend_composer: any character of a query; a digit makes another number.
Extend ==
  /\ \/ /\ composer = "search" /\ Len(typed) < MaxTyped
        /\ \E ch \in Chars : TypeQuery(Append(typed, ch))
     \/ /\ composer = "goto" /\ \E n \in Numbers : typed' = <<n>>
        /\ UNCHANGED <<position, told, matches, matched>>
  /\ UNCHANGED <<lines, reading, composer, origin, lastQuery>>

\* backspace_composer: a digit less makes another number or none.
Backspace ==
  /\ \/ typed = <<>> /\ UNCHANGED <<typed, position, told, matches, matched>>
     \/ composer = "search" /\ typed # <<>> /\ TypeQuery(Front(typed))
     \/ /\ composer = "goto" /\ typed # <<>>
        /\ typed' = <<>> \/ \E n \in Numbers : typed' = <<n>>
        /\ UNCHANGED <<position, told, matches, matched>>
  /\ UNCHANGED <<lines, reading, composer, origin, lastQuery>>

\* commit_composer: a search stays where it is, a number is gone to.
Commit ==
  /\ composer' = "none" /\ typed' = <<>> /\ origin' = 0
  /\ IF composer = "search"
       THEN lastQuery' = typed /\ UNCHANGED <<position, told>>
       ELSE /\ UNCHANGED lastQuery
            /\ IF typed = <<>> THEN UNCHANGED <<position, told>> ELSE Seek(typed[1])
  /\ UNCHANGED <<lines, reading, matches, matched>>

\* cancel_composer: back to where it was opened, if that was a line.
Cancel ==
  /\ ClearComposer
  /\ IF origin = 0 THEN UNCHANGED <<position, told>> ELSE Seek(origin)
  /\ UNCHANGED <<lines, reading>>

\* The match that follows i: the first one, if i is the last.
Following(i) ==
  LET later == {j \in matches : j > i} IN First(IF later = {} THEN matches ELSE later)

\* next_match and prev_match go round.
NextMatch ==
  /\ IF matches = {}
       THEN UNCHANGED <<position, told, matched>>
       ELSE \E i \in matches : /\ i \in Following(matched) \/ matched \in Following(i)
                              /\ matched' = i /\ Seek(i)
  /\ UNCHANGED <<lines, reading, composer, typed, origin, matches, lastQuery>>
=============================================================================
