------------------------------ MODULE Notebook ------------------------------
(***************************************************************************)
(* The notebook behind the keyboard: a Session (asat/session.py), the      *)
(* NotebookCursor that walks and edits it (asat/notebook.py), the keys     *)
(* that reach the cursor (asat/input_router.py), the actions menu          *)
(* (asat/actions.py) and the list of submissions the Application hands to  *)
(* the driver after each key (asat/app.py).                                *)
(*                                                                         *)
(* All of it runs on the keyboard thread, so a step is one key. Ids stands *)
(* for the uuids: a fresh cell takes one that is not in use, and there are *)
(* as many cells as Ids at most. Of texts only what the control reads is   *)
(* kept: whether a submitted buffer is blank. Editing inside a buffer and  *)
(* the history are left out, and so are the inner states of the settings   *)
(* editor, the event log and the output view.                              *)
(***************************************************************************)
EXTENDS Outline, SequencesExt

CONSTANTS Ids,     \* cell ids
          NoCell,  \* None
          Names,   \* bookmark names
          Levels   \* heading levels, 1 to 6 in the program

ASSUME ConstantsAssumption == NoCell \notin Ids /\ Levels \subseteq Nat \ {0}

VARIABLES
  cells,      \* Session.cells, as ids
  cell,       \* the Cell of an id; BlankCell when the id is not in use
  active,     \* Session.active_cell_id
  bookmarks,  \* Session.bookmarks
  focus,      \* FocusState.cell_id
  mode,       \* FocusState.mode
  menuOpen,   \* ActionMenu.is_open
  submitted,  \* what NotebookCursor.submit returned for this key; NoCell when the
              \* command is blank or the key is another
  pending     \* Application._pending

session == <<cells, cell, active, bookmarks>>
vars == <<cells, cell, active, bookmarks, focus, mode, menuOpen, submitted, pending>>

Modes == {"notebook", "input", "text_input", "output", "settings", "event_log"}

\* Cell.new, Cell.new_text, Cell.new_heading: nothing starts collapsed.
NewOf(kind, level) == [kind |-> kind, level |-> level, collapsed |-> FALSE]
Command == NewOf("command", 0)
Text == NewOf("text", 0)
Heading(l) == NewOf("heading", l)
BlankCell == Command

Fresh == Ids \ Range(cells)
Index(c) == CHOOSE i \in DOMAIN cells : cells[i] = c
List == [i \in DOMAIN cells |-> cell[cells[i]]]

Init ==
  /\ \E c \in Ids : cells = <<c>> /\ active = c /\ focus = c
  /\ cell = [c \in Ids |-> Command]
  /\ bookmarks = [n \in Names |-> NoCell]
  /\ mode = "input"
  /\ menuOpen = FALSE
  /\ submitted = NoCell
  /\ pending = <<>>
-----------------------------------------------------------------------------
(* Who acts. *)

\* A key in mode m: the driver took the submissions of the key before, and the
\* menu is not in the way.
Key(m) ==
  /\ mode = m
  /\ ~menuOpen /\ pending = <<>>
  /\ submitted' = NoCell
  /\ UNCHANGED <<menuOpen, pending>>

\* Enter on a menu item offered in mode m; the menu closes itself.
MenuItem(m) ==
  /\ mode = m
  /\ menuOpen /\ pending = <<>>
  /\ menuOpen' = FALSE
  /\ submitted' = NoCell
  /\ UNCHANGED pending
-----------------------------------------------------------------------------
(* What the cursor does to the session and to itself. *)

\* A transition to mode m on the same cell.
ToMode(m) == mode' = m /\ UNCHANGED <<session, focus>>

\* focus_cell on cell c of the (new) list, in mode m.
Land(c, m) == active' = c /\ focus' = c /\ mode' = m

FocusCell(c) == Land(c, "notebook") /\ UNCHANGED <<cells, cell, bookmarks>>

\* Mutant: the list assigned to at i instead of inserted into.
AddCellInPlace(c, i, new) ==
  /\ cells' = IF i \in DOMAIN cells THEN ReplaceAt(cells, i, c) ELSE Append(cells, c)
  /\ cell' = [cell EXCEPT ![c] = new]
  /\ UNCHANGED bookmarks

\* Session.add_cell of a fresh cell at position i.
AddCell(c, i, new) ==
  /\ cells' = InsertAt(cells, i, c)
  /\ cell' = [cell EXCEPT ![c] = new]
  /\ UNCHANGED bookmarks

\* new_cell, new_heading_cell, new_text_cell: append and focus.
AppendCell(new, m) ==
  \E c \in Fresh : AddCell(c, Len(cells) + 1, new) /\ Land(c, m)

\* Mutant: the bookmarks are not pruned.
RemoveFocusedOnly ==
  LET i == Index(focus)
      rest == RemoveAt(cells, i)
      next == IF rest = <<>> THEN NoCell
              ELSE rest[IF i < Len(rest) THEN i ELSE Len(rest)]
  IN  /\ focus # NoCell
      /\ cells' = rest
      /\ cell' = [cell EXCEPT ![focus] = BlankCell]
      /\ Land(next, "notebook")
      /\ UNCHANGED bookmarks

\* Session.remove_cell and the landing of delete_focused_cell.
RemoveFocused ==
  LET i == Index(focus)
      rest == RemoveAt(cells, i)
      next == IF rest = <<>> THEN NoCell
              ELSE rest[IF i < Len(rest) THEN i ELSE Len(rest)]
  IN  /\ focus # NoCell
      /\ cells' = rest
      /\ cell' = [cell EXCEPT ![focus] = BlankCell]
      /\ bookmarks' = [n \in Names |-> IF bookmarks[n] = focus THEN NoCell
                                       ELSE bookmarks[n]]
      /\ Land(next, "notebook")

DuplicateFocused ==
  /\ focus # NoCell
  /\ \E c \in Fresh :
       /\ AddCell(c, Index(focus) + 1, NewOf(cell[focus].kind, cell[focus].level))
       /\ Land(c, "notebook")

EnterInputMode ==
  focus # NoCell /\ cell[focus].kind = "command" /\ ToMode("input")

\* submit, with a blank buffer or not: a command in the last cell opens a
\* fresh cell after it, anything else lands on the cell itself.
SubmitBuffer(blank) ==
  IF ~blank /\ focus = Last(cells)
  THEN AppendCell(Command, "input")
  ELSE ToMode("notebook")

\* The cell submit returns, when its command is worth running.
Handed(blank) == IF blank THEN NoCell ELSE focus
-----------------------------------------------------------------------------
(* Keys of NOTEBOOK mode. *)

\* Where Up and Down start from: the focused cell or, when it is hidden, the
\* heading above it; from nowhere when that is hidden too.
Starts ==
  LET i == Index(focus)
      visible == VisiblePositions(List)
  IN  IF i \in visible THEN {i} ELSE EnclosingHeading(List, i) \cap visible

MoveUp ==
  /\ Key("notebook")
  /\ focus # NoCell
  /\ LET visible == VisiblePositions(List)
     IN  \E start \in Starts :
           \E i \in Greatest({j \in DOMAIN cells : j \in visible /\ j < start}) :
             FocusCell(cells[i])

MoveDown ==
  /\ Key("notebook")
  /\ focus # NoCell
  /\ LET visible == VisiblePositions(List)
     IN  \E start \in Starts :
           \E i \in Least({j \in DOMAIN cells : j \in visible /\ j > start}) :
             FocusCell(cells[i])

MoveToTop == Key("notebook") /\ cells # <<>> /\ FocusCell(Head(cells))
MoveToBottom == Key("notebook") /\ cells # <<>> /\ FocusCell(Last(cells))

\* ] and [ for any level, 1 to 6 for one level.
NextHeading(levels) ==
  /\ Key("notebook")
  /\ focus # NoCell
  /\ \E i \in HeadingAfter(List, Index(focus), levels) : FocusCell(cells[i])

PrevHeading ==
  /\ Key("notebook")
  /\ focus # NoCell
  /\ \E i \in HeadingBefore(List, Index(focus), Levels) : FocusCell(cells[i])

\* Mutant: up to the level of the scope itself.
ShallowerOrEqualLevels ==
  {l \in Levels : \E h \in EnclosingHeading(List, Index(focus)) : l <= List[h].level}

\* } and {: a heading shallower than the scope of the focused cell.
ShallowerLevels ==
  {l \in Levels : \E h \in EnclosingHeading(List, Index(focus)) : l < List[h].level}

NextParentHeading ==
  /\ Key("notebook")
  /\ focus # NoCell
  /\ \E i \in HeadingAfter(List, Index(focus), ShallowerLevels) : FocusCell(cells[i])

PrevParentHeading ==
  /\ Key("notebook")
  /\ focus # NoCell
  /\ \E i \in HeadingBefore(List, Index(focus), ShallowerLevels) : FocusCell(cells[i])

\* z: nothing to fold when the section is the heading alone.
ToggleFold ==
  /\ Key("notebook")
  /\ focus # NoCell
  /\ IsHeading(List, Index(focus))
  /\ ScopeEnd(List, Index(focus)) - Index(focus) > 1
  /\ cell' = [cell EXCEPT ![focus].collapsed = ~@]
  /\ UNCHANGED <<cells, active, bookmarks, focus, mode>>

EnterInput == Key("notebook") /\ EnterInputMode
NewCell == Key("notebook") /\ AppendCell(Command, "input")
DeleteCell == Key("notebook") /\ RemoveFocused
DuplicateCell == Key("notebook") /\ DuplicateFocused

\* Alt+Up and Alt+Down.
MoveCell(up) ==
  LET old == Index(focus)
      new == IF up THEN old - 1 ELSE old + 1
  IN  /\ Key("notebook")
      /\ focus # NoCell
      /\ new \in DOMAIN cells
      /\ cells' = InsertAt(RemoveAt(cells, old), new, focus)
      /\ UNCHANGED <<cell, active, bookmarks, focus, mode>>

ViewOutput == Key("notebook") /\ focus # NoCell /\ ToMode("output")
BeginTextInput == Key("notebook") /\ ToMode("text_input")
OpenSettings == Key("notebook") /\ ToMode("settings")
OpenEventLog == Key("notebook") /\ ToMode("event_log")
-----------------------------------------------------------------------------
(* Keys of INPUT mode. *)

\* Enter on a plain buffer: the ACTION_INVOKED of the submit reaches the
\* Application, which queues a command that is not blank.
Submit(blank) ==
  /\ mode = "input" /\ ~menuOpen /\ pending = <<>>
  /\ SubmitBuffer(blank)
  /\ submitted' = Handed(blank)
  /\ pending' = IF blank THEN <<>> ELSE <<focus>>
  /\ UNCHANGED menuOpen

ExitInput == Key("input") /\ ToMode("notebook")

\* Enter on a meta-command that leaves INPUT mode with the buffer abandoned:
\* :settings and :reset bank, :delete, :duplicate, :heading, :text, :jump.
\* The last disjunct is a command that is told off for its argument.
MetaCommand ==
  /\ Key("input")
  /\ \/ ToMode("settings")
     \/ RemoveFocused
     \/ DuplicateFocused
     \/ \E l \in Levels : AppendCell(Heading(l), "notebook")
     \/ AppendCell(Text, "notebook")
     \/ \E n \in Names : bookmarks[n] # NoCell /\ FocusCell(bookmarks[n])
     \/ ToMode("notebook")

\* Enter on an ambient one, which stays in INPUT mode: :bookmark, :unbookmark;
\* :log is ambient too, but opens the event log.
AmbientCommand ==
  /\ Key("input")
  /\ \/ \E n \in Names :
          /\ bookmarks' = [bookmarks EXCEPT ![n] = focus]
          /\ UNCHANGED <<cells, cell, active, focus, mode>>
     \/ \E n \in Names :
          /\ bookmarks' = [bookmarks EXCEPT ![n] = NoCell]
          /\ UNCHANGED <<cells, cell, active, focus, mode>>
     \/ ToMode("event_log")
-----------------------------------------------------------------------------
(* Keys of the other modes. *)

\* A body goes in after the cell the composer was opened on; a blank one is
\* as good as Escape.
SubmitText ==
  /\ Key("text_input")
  /\ LET i == IF focus = NoCell THEN Len(cells) + 1 ELSE Index(focus) + 1
     IN  \E c \in Fresh : AddCell(c, i, Text) /\ Land(c, "notebook")

AbandonText == Key("text_input") /\ ToMode("notebook")
ExitOutput == Key("output") /\ focus # NoCell /\ ToMode("notebook")
CloseSettings == Key("settings") /\ ToMode("notebook")
CloseEventLog == Key("event_log") /\ ToMode("notebook")
JumpToBinding == Key("event_log") /\ ToMode("settings")
-----------------------------------------------------------------------------
(* The menu, the driver, the end of the program. *)

\* F2 offers items in INPUT and OUTPUT mode and on a cell of NOTEBOOK mode;
\* without items the menu does not open.
OpenMenu ==
  /\ mode \in {"input", "output"} \/ (mode = "notebook" /\ focus # NoCell)
  /\ ~menuOpen /\ pending = <<>>
  /\ menuOpen' = TRUE
  /\ submitted' = NoCell
  /\ UNCHANGED <<session, focus, mode, pending>>

\* Escape; the copy items of OUTPUT mode change nothing here either.
CloseMenu ==
  /\ menuOpen /\ pending = <<>>
  /\ menuOpen' = FALSE
  /\ submitted' = NoCell
  /\ UNCHANGED <<session, focus, mode, pending>>

\* "Edit command"; a cell that takes no command only sees the menu close.
MenuEnterInput == MenuItem("notebook") /\ EnterInputMode
MenuViewOutput == MenuItem("notebook") /\ ToMode("output")

\* "Submit command" calls the cursor; no submit action is published.
MenuSubmit(blank) ==
  /\ mode = "input" /\ menuOpen /\ pending = <<>>
  /\ SubmitBuffer(blank)
  /\ submitted' = Handed(blank)
  /\ menuOpen' = FALSE
  /\ UNCHANGED pending

\* "Cancel editing" and "Return to notebook".
MenuLeave ==
  \/ MenuItem("input") /\ ToMode("notebook")
  \/ MenuItem("output") /\ ToMode("notebook")

\* The keyboard loop hands what the key left to the execution worker.
Drain ==
  /\ pending # <<>>
  /\ pending' = <<>>
  /\ submitted' = NoCell
  /\ UNCHANGED <<session, focus, mode, menuOpen>>

\* :quit or the end of the input in any mode saves the session; a later start
\* loads it and puts a new cursor on its active cell, or on the first one.
Reopen ==
  /\ pending = <<>>
  /\ LET start == IF active # NoCell \/ cells = <<>> THEN active ELSE Head(cells)
     IN  Land(start, "notebook")
  /\ menuOpen' = FALSE
  /\ submitted' = NoCell
  /\ UNCHANGED <<cells, cell, bookmarks, pending>>

Next ==
  \/ MoveUp \/ MoveDown \/ MoveToTop \/ MoveToBottom
  \/ NextHeading(Levels)
  \/ \E l \in Levels : NextHeading({l})
  \/ PrevHeading \/ NextParentHeading \/ PrevParentHeading
  \/ ToggleFold
  \/ EnterInput \/ NewCell \/ DeleteCell \/ DuplicateCell
  \/ \E up \in BOOLEAN : MoveCell(up)
  \/ ViewOutput \/ BeginTextInput \/ OpenSettings \/ OpenEventLog
  \/ \E blank \in BOOLEAN : Submit(blank) \/ MenuSubmit(blank)
  \/ ExitInput \/ MetaCommand \/ AmbientCommand
  \/ SubmitText \/ AbandonText \/ ExitOutput
  \/ CloseSettings \/ CloseEventLog \/ JumpToBinding
  \/ OpenMenu \/ CloseMenu \/ MenuEnterInput \/ MenuViewOutput \/ MenuLeave
  \/ Drain \/ Reopen

Spec == Init /\ [][Next]_vars
-----------------------------------------------------------------------------
CellTypes ==
  {Command, Text} \cup [kind : {"heading"}, level : Levels, collapsed : BOOLEAN]

\* Only headings have a level and only they are ever collapsed.
TypeOK ==
  /\ cells \in Seq(Ids)
  /\ cell \in [Ids -> CellTypes]
  /\ active \in Ids \cup {NoCell}
  /\ bookmarks \in [Names -> Ids \cup {NoCell}]
  /\ focus \in Ids \cup {NoCell}
  /\ mode \in Modes
  /\ menuOpen \in BOOLEAN
  /\ submitted \in Ids \cup {NoCell}
  /\ pending \in Seq(Ids)

\* No id is in the session twice: every lookup by id means one cell.
IdsAreUnique == IsInjective(cells)

\* The cursor and the session agree on the focused cell, it is a cell of the
\* session, and there is one unless the notebook is empty. Every lookup of the
\* cursor (index_of, get_cell) relies on this, and so does a saved session.
FocusIsReal ==
  /\ active = focus
  /\ focus \in Range(cells) \/ (cells = <<>> /\ focus = NoCell)

\* A bookmark names a cell of the session through every delete, duplicate and
\* restart: :jump never meets a stale id.
BookmarksResolve == \A n \in Names : bookmarks[n] \in Range(cells) \cup {NoCell}

\* Whatever is typed in INPUT mode goes into a command cell: the commit of the
\* buffer (update_command) would raise on any other.
EditsCommands == mode = "input" => focus # NoCell /\ cell[focus].kind = "command"

\* The single pass with its moving end of the hidden stretch agrees with the
\* meaning of folding: a cell is out of reach of Up and Down exactly when some
\* collapsed heading has it in its section, however sections nest.
VisibleAgrees ==
  \A i \in DOMAIN cells : i \in VisiblePositions(List) <=> ~Hidden(List, i)

\* { climbs the outline: the heading it lands on has the cell it left in its
\* section, although it looks no further than the level of the nearest heading.
UpTheOutline ==
  [][PrevParentHeading => InScope(List, Index(focus'), Index(focus))]_vars

\* At most one cell comes or goes; the others are what they were, in their order.
LocalEdit ==
  LET before == Range(cells)
      kept == before \cap Range(cells')
  IN  /\ Cardinality(before \ kept) + Cardinality(Range(cells') \ kept) <= 1
      /\ \A c \in kept : /\ cell'[c].kind = cell[c].kind
                         /\ cell'[c].level = cell[c].level
      /\ \A c, d \in kept \ {focus} :
           Index(c) < Index(d) => Index(c)' < Index(d)'

\* One key adds or removes one cell at most, never changes what a cell is, and
\* leaves the others in their order, so nothing is lost that was not deleted.
EditsAreLocal == [][LocalEdit]_vars

=============================================================================
