------------------------------ MODULE Console ------------------------------
(***************************************************************************)
(* What a key does, input_router.py over notebook.py, actions.py and the   *)
(* controllers of the settings, the event log and the output view.  A key  *)
(* reaches the innermost layer that is open; a step is one key and the     *)
(* handler it invokes, down to the mode it leaves the focus in.  Cells,    *)
(* records and lines are left to the modules about them: of the focused    *)
(* cell its command is kept, and whether it has one.                       *)
(*                                                                         *)
(* No subscriber raises inside a handler here.  The loop survives one that *)
(* does, but the handler is left in the middle: after a raise on           *)
(* EVENT_LOG_OPENED (event_log.py:188) the viewer is open and the mode     *)
(* still the old one, because _open_event_log enters the mode second       *)
(* (input_router.py:1228-1229).                                            *)
(***************************************************************************)
EXTENDS KeyBindings, InputLine

CONSTANTS NoCell,      \* the notebook is empty
          Landmark,    \* a heading or a text cell
          Metas,       \* the colon commands that are typed, each with its argument
          Commands,    \* bound: the commands of the cells one moves to
          MaxLen,      \* bound: the tokens of a line
          MaxHistory   \* bound: the commands that are remembered

\* No command is "" and no cell at once.
ASSUME ConsoleAssumption == <<>> \notin {NoCell, Landmark}

\* In every layer a key means one thing.
ASSUME OneActionPerKey ==
  \A layer \in Layers : \A p, q \in KeyMap[layer] : p[1] = q[1] => p = q

VARIABLES
  mode,       \* FocusState.mode
  cell,       \* the focused cell
  line,       \* the buffer, the caret and the walk through the history
  history,    \* Session.command_history
  menu,       \* the items of the actions menu and the focused one
  composing,  \* OutputCursor.composer_mode is set
  settings,   \* the settings session
  viewer,     \* the event log viewer: open, and its quick edit
  appRunning, \* Application.running
  typed,      \* history: the line the user typed, the walk left aside
  escapes     \* history: how many of the last keys were Escape, four at most

text == <<line, typed>>
panes == <<composing, settings, viewer>>
consoleVars == <<mode, cell, text, history, menu, panes, appRunning, escapes>>

NoMenu == [items |-> <<>>, at |-> 0]
NoSettings == [open |-> FALSE, level |-> "section", sub |-> "none", origin |-> "section"]
NoViewer == [open |-> FALSE, quick |-> FALSE]

Levels == {"section", "record", "field"}

\* What a key reaches: handle_key.
Layer ==
  IF menu.items # <<>> THEN "menu"
  ELSE IF mode = "settings" /\ settings.open /\ settings.sub # "none" THEN settings.sub
  ELSE IF mode = "event_log" /\ viewer.quick THEN "quick_edit"
  ELSE IF mode = "output" /\ composing THEN "composer"
  ELSE mode

Escapes(key) == IF key # "escape" THEN 0 ELSE IF escapes < 4 THEN escapes + 1 ELSE 4

\* The key that is mapped to an action where the user is.
Pressed(action) ==
  /\ appRunning
  /\ escapes' \in {Escapes(key) : key \in KeysOf[Layer][action]}

\* As the focused item of the menu, which then closes.
Activated(item) == Pressed("menu_activate") /\ menu.items[menu.at] = item /\ menu' = NoMenu

\* By its key or from the menu.
Chosen(action) == (Pressed(action) /\ UNCHANGED menu) \/ Activated(action)

\* One of several actions.
PressedAny(actions) == (\E a \in actions : Pressed(a)) /\ UNCHANGED menu

\* A printable key where there is text to type.
TypedInto(layer) ==
  /\ appRunning /\ Layer = layer
  /\ escapes' = 0 /\ UNCHANGED menu

Swallow ==
  /\ appRunning
  /\ LET meant == {pair[1] : pair \in KeyMap[Layer]}
         typable == IF Layer \in TakesText THEN Printable ELSE {}
     IN escapes' \in {Escapes(key) : key \in Keys \ (meant \cup typable)}
  /\ UNCHANGED <<mode, cell, text, history, menu, panes, appRunning>>
----------------------------------------------------------------------------
(* NotebookCursor: changes of mode.                                        *)

\* _transition to a mode without a buffer.
Leave(m) == mode' = m /\ line' = Line(<<>>) /\ typed' = <<>>

\* INPUT on a cell with this command; no walk through the history is going on.
EnterInput(command) ==
  /\ mode' = "input" /\ cell' = command
  /\ line' = Line(command) /\ typed' = command

HasCommand == cell \notin {NoCell, Landmark}

enter_input ==
  /\ Chosen("enter_input")
  /\ \/ HasCommand /\ EnterInput(cell)
     \/ ~HasCommand /\ UNCHANGED <<mode, cell, text>>
  /\ UNCHANGED <<history, panes, appRunning>>

new_cell == PressedAny({"new_cell"}) /\ EnterInput(<<>>) /\ UNCHANGED <<history, panes, appRunning>>

\* The line is kept as the command of the cell.
exit_input ==
  /\ Chosen("exit_input")
  /\ cell' = line.buffer /\ Leave("notebook")
  /\ UNCHANGED <<history, panes, appRunning>>

begin_text_input ==
  /\ PressedAny({"begin_text_input"}) /\ Leave("text_input")
  /\ UNCHANGED <<cell, history, panes, appRunning>>

\* A text cell, unless the line is blank.
submit_text_input ==
  /\ PressedAny({"submit_text_input"}) /\ Leave("notebook")
  /\ cell' = IF Blank(line.buffer) THEN cell ELSE Landmark
  /\ UNCHANGED <<history, panes, appRunning>>

abandon_text_input ==
  /\ PressedAny({"abandon_text_input"}) /\ Leave("notebook")
  /\ UNCHANGED <<cell, history, panes, appRunning>>

\* attach clears a composer that was left open.
view_output ==
  /\ Chosen("view_output")
  /\ \/ cell # NoCell /\ Leave("output") /\ composing' = FALSE
     \/ cell = NoCell /\ UNCHANGED <<mode, text, composing>>
  /\ UNCHANGED <<cell, history, settings, viewer, appRunning>>

exit_output ==
  /\ Chosen("exit_output") /\ Leave("notebook")
  /\ UNCHANGED <<cell, history, panes, appRunning>>

Motions == {"move_up", "move_down", "move_to_top", "move_to_bottom", "next_heading",
  "prev_heading", "next_parent_heading", "prev_parent_heading", "next_heading_1",
  "next_heading_2", "next_heading_3", "next_heading_4", "next_heading_5", "next_heading_6"}

\* Another cell, when there is one.
OtherCell == cell # NoCell /\ cell' \in Commands \cup {Landmark}

MoveFocus ==
  /\ PressedAny(Motions)
  /\ (OtherCell \/ UNCHANGED cell)
  /\ UNCHANGED <<mode, text, history, panes, appRunning>>

delete_cell ==
  /\ PressedAny({"delete_cell"}) /\ (OtherCell \/ cell' = NoCell)
  /\ UNCHANGED <<mode, text, history, panes, appRunning>>

\* What stays within the notebook, the output or the bank, or only publishes.
Elsewhere ==
  /\ PressedAny({"duplicate_cell", "move_cell_up", "move_cell_down", "toggle_fold_heading",
       "repeat_last_narration", "cancel_command", "output_line_up", "output_line_down",
       "output_page_up", "output_page_down", "output_to_start", "output_to_end",
       "output_search_next", "output_search_prev", "output_playback_toggle",
       "output_composer_backspace", "settings_prev", "settings_next",
       "settings_edit_backspace", "settings_save", "event_log_previous", "event_log_next",
       "event_log_replay", "event_log_quick_edit_backspace"})
  /\ UNCHANGED <<mode, cell, text, history, panes, appRunning>>
----------------------------------------------------------------------------
(* The line.                                                               *)

Words(buffer) == {buffer[i] : i \in 1..Len(buffer)} \ {" "}

\* The line becomes what an edit makes of it.
Edits(action, after) ==
  /\ PressedAny({action})
  /\ line' = after /\ typed' = IF after = line THEN typed ELSE after.buffer
  /\ UNCHANGED <<mode, cell, history, panes, appRunning>>

EditLine ==
  \/ Edits("backspace", backspace(line))
  \/ Edits("delete_forward", delete_forward(line))
  \/ Edits("delete_word_left", delete_word_left(line))
  \/ Edits("delete_to_start", delete_to_start(line))
  \/ Edits("delete_to_end", delete_to_end(line))

\* The caret moves, or another line of the history is shown.
Shows(action, after) ==
  /\ PressedAny({action})
  /\ line' = after
  /\ UNCHANGED <<mode, cell, typed, history, panes, appRunning>>

MoveCaret ==
  \/ Shows("cursor_left", cursor_left(line)) \/ Shows("cursor_right", cursor_right(line))
  \/ Shows("cursor_home", cursor_home(line)) \/ Shows("cursor_end", cursor_end(line))

WalkHistory ==
  \/ Shows("history_previous", history_previous(line, history))
  \/ Shows("history_next", history_next(line, history))

\* A colon command is typed in one go and stands alone on its line.
TypeCharacter ==
  /\ TypedInto("input") \/ TypedInto("text_input")
  /\ Len(line.buffer) < MaxLen
  /\ \E c \in {"x", " "} \cup Metas :
       /\ Words(line.buffer) \subseteq {"x"}
       /\ c \in Metas => mode = "input" /\ line.buffer = <<>>
       /\ line' = insert_character(line, c)
  /\ typed' = line'.buffer
  /\ UNCHANGED <<mode, cell, history, panes, appRunning>>
----------------------------------------------------------------------------
(* Enter in INPUT mode, _submit.                                           *)

\* The name of a colon command, without its argument.
NameOf(meta) ==
  CASE meta = "log tail" -> "log"
    [] meta = "reset bank" -> "reset"
    [] OTHER -> meta

ASSUME MetasAreKnown == \A m \in Metas : NameOf(m) \in META_COMMANDS \cup {"unknown"}

\* Every command has a handler, here or in the Application.
ASSUME EveryMetaIsHandled ==
  META_COMMANDS = Informative \cup LeftToTheApplication \cup
    {"bookmark", "unbookmark", "log", "settings", "reset", "delete", "duplicate",
     "heading", "text", "jump"}

\* NotebookCursor.submit: the command is kept and remembered; after the last cell
\* there is a new one to type in.
SubmitCommand ==
  /\ cell' = line.buffer
  /\ history' = record_command(history, line.buffer) /\ Len(history') <= MaxHistory
  /\ Leave("notebook")

SubmitLastCommand ==
  /\ ~Blank(line.buffer)
  /\ history' = record_command(history, line.buffer) /\ Len(history') <= MaxHistory
  /\ EnterInput(<<>>)

\* The item of the menu does not look for a colon.
submit ==
  /\ \/ Pressed("submit") /\ Words(line.buffer) \cap Metas = {} /\ UNCHANGED menu
     \/ Activated("submit")
  /\ SubmitCommand \/ SubmitLastCommand
  /\ UNCHANGED <<panes, appRunning>>

\* Enter on a line with this colon command.
Meta(m) ==
  /\ PressedAny({"submit"}) /\ m \in Words(line.buffer) \cap Metas
  /\ UNCHANGED <<history, composing>>

\* Ambient and unknown ones only take the line; `log` opens the viewer after that.
MetaAmbient ==
  /\ \E m \in Metas :
       /\ Meta(m) /\ NameOf(m) \in AMBIENT_META_COMMANDS \cup {"unknown"} /\ m # "log"
  /\ Leave("input")
  /\ UNCHANGED <<cell, settings, viewer, appRunning>>

MetaLog ==
  /\ Meta("log") /\ Leave("event_log")
  /\ viewer' = [NoViewer EXCEPT !.open = TRUE]
  /\ UNCHANGED <<cell, settings, appRunning>>

OpenSettings(level, sub) ==
  settings' = [open |-> TRUE, level |-> level, sub |-> sub, origin |-> "section"]

MetaSettings ==
  /\ \/ Meta("settings") /\ OpenSettings("section", "none")
     \/ Meta("reset bank") /\ OpenSettings("section", "reset")
  /\ Leave("settings")
  /\ UNCHANGED <<cell, viewer, appRunning>>

FocusAfter(m) ==
  CASE m = "delete" -> Commands \cup {Landmark, NoCell}
    [] m = "jump" -> Commands \cup {Landmark, cell}
    [] m \in {"heading", "text"} -> {Landmark, cell}
    [] OTHER -> {cell}

\* The rest leaves INPUT mode first. `reset` alone is answered with a hint.
MetaInTheNotebook ==
  /\ \E m \in {"delete", "jump", "heading", "text", "duplicate", "reset"} :
       Meta(m) /\ cell' \in FocusAfter(m)
  /\ Leave("notebook")
  /\ UNCHANGED <<settings, viewer, appRunning>>

MetaQuit ==
  /\ Meta("quit") /\ Leave("notebook") /\ appRunning' = FALSE
  /\ UNCHANGED <<cell, settings, viewer>>
----------------------------------------------------------------------------
(* The actions menu, actions.py.                                           *)

\* ActionCatalog: what the providers of the mode offer.
Offered ==
  CASE mode = "notebook" /\ cell # NoCell -> {<<"enter_input", "view_output">>}
    [] mode = "input" -> {<<"submit", "exit_input">>}
    [] mode = "output" ->
         {<<"copy_line", "copy_all", "copy_stderr", "exit_output">>,
          <<"copy_all", "copy_stderr", "exit_output">>}
    [] OTHER -> {<<>>}

open_action_menu ==
  /\ Pressed("open_action_menu")
  /\ \E items \in Offered :
       menu' = [items |-> items, at |-> IF items = <<>> THEN 0 ELSE 1]
  /\ UNCHANGED <<mode, cell, text, history, panes, appRunning>>

\* Clamped at both ends.
MoveInMenu ==
  /\ \/ Pressed("menu_prev") /\ menu' = [menu EXCEPT !.at = IF @ = 1 THEN 1 ELSE @ - 1]
     \/ /\ Pressed("menu_next")
        /\ menu' = [menu EXCEPT !.at = IF @ = Len(menu.items) THEN @ ELSE @ + 1]
  /\ UNCHANGED <<mode, cell, text, history, panes, appRunning>>

CloseMenu ==
  /\ Pressed("menu_close") /\ menu' = NoMenu
  /\ UNCHANGED <<mode, cell, text, history, panes, appRunning>>

Copy ==
  /\ \E item \in {"copy_line", "copy_all", "copy_stderr"} : Activated(item)
  /\ UNCHANGED <<mode, cell, text, history, panes, appRunning>>
----------------------------------------------------------------------------
(* The composer of the output view.                                        *)

Composer(is) ==
  /\ composing' = is
  /\ UNCHANGED <<mode, cell, text, history, settings, viewer, appRunning>>

\* Refused when nothing is attached or there is no line.
BeginComposing ==
  PressedAny({"output_search_begin", "output_goto_begin"}) /\ \E is \in BOOLEAN : Composer(is)

EndComposing ==
  PressedAny({"output_composer_commit", "output_composer_cancel"}) /\ Composer(FALSE)

ExtendComposer == TypedInto("composer") /\ Composer(TRUE)
----------------------------------------------------------------------------
(* SETTINGS mode.                                                          *)

open_settings ==
  /\ PressedAny({"open_settings"})
  /\ OpenSettings("section", "none") /\ Leave("settings")
  /\ UNCHANGED <<cell, history, composing, viewer, appRunning>>

\* Within the session.
Editor(action, after) ==
  /\ PressedAny({action})
  /\ settings' = after
  /\ UNCHANGED <<mode, cell, text, history, composing, viewer, appRunning>>

AtLevel(level) == [settings EXCEPT !.level = level]
InSub(sub) == [settings EXCEPT !.sub = sub]

\* An empty section and the last level refuse.
settings_descend ==
  \/ Editor("settings_descend", AtLevel(IF settings.level = "section" THEN "record" ELSE "field"))
  \/ settings.level = "section" /\ Editor("settings_descend", settings)

CloseSettings ==
  /\ settings' = NoSettings /\ Leave("notebook")
  /\ UNCHANGED <<cell, history, composing, viewer, appRunning>>

\* Mutant: the editor stays at the top.
AscendWithin ==
  Editor("settings_ascend", AtLevel(IF settings.level = "field" THEN "record" ELSE "section"))

settings_ascend ==
  \/ settings.level = "field" /\ Editor("settings_ascend", AtLevel("record"))
  \/ settings.level = "record" /\ Editor("settings_ascend", AtLevel("section"))
  \/ settings.level = "section" /\ PressedAny({"settings_ascend"}) /\ CloseSettings

settings_close == PressedAny({"settings_close"}) /\ CloseSettings

\* Above a field it raises, and nothing is different.
settings_begin_edit ==
  Editor("settings_begin_edit", IF settings.level = "field" THEN InSub("edit") ELSE settings)

\* A value that is refused leaves the composer open, a bank that is not valid the
\* confirmation; there may be nothing to reset.
settings_edit_commit == \E sub \in {"none", "edit"} : Editor("settings_edit_commit", InSub(sub))
settings_edit_cancel == Editor("settings_edit_cancel", InSub("none"))
settings_reset_begin == \E sub \in {"none", "reset"} : Editor("settings_reset_begin", InSub(sub))
settings_reset_confirm == \E sub \in {"none", "reset"} : Editor("settings_reset_confirm", InSub(sub))
settings_reset_cancel == Editor("settings_reset_cancel", InSub("none"))

\* The cursor goes to the record of a match.
settings_search_begin ==
  \/ Editor("settings_search_begin", [InSub("search") EXCEPT !.origin = settings.level])
  \/ Editor("settings_search_begin", settings)

settings_search_commit ==
  Editor("settings_search_commit", [InSub("none") EXCEPT !.origin = "section"])

settings_search_cancel ==
  Editor("settings_search_cancel",
         [InSub("none") EXCEPT !.level = settings.origin, !.origin = "section"])

FollowMatches ==
  \E level \in {settings.level, "record"} :
    \/ Editor("settings_search_backspace", AtLevel(level))
    \/ Editor("settings_search_next", AtLevel(level))
    \/ Editor("settings_search_prev", AtLevel(level))

\* To where the edit was.
UndoRedo ==
  \E level \in Levels :
    \/ Editor("settings_undo", AtLevel(level)) \/ Editor("settings_redo", AtLevel(level))

ExtendSettings ==
  /\ \/ TypedInto("edit") /\ UNCHANGED settings
     \/ TypedInto("search") /\ \E level \in {settings.level, "record"} : settings' = AtLevel(level)
  /\ UNCHANGED <<mode, cell, text, history, composing, viewer, appRunning>>
----------------------------------------------------------------------------
(* EVENT_LOG mode.                                                         *)

Viewer(is, quick) ==
  /\ viewer' = [open |-> is, quick |-> quick]
  /\ UNCHANGED <<cell, history, composing, appRunning>>

open_event_log ==
  /\ PressedAny({"open_event_log"})
  /\ Viewer(TRUE, FALSE) /\ Leave("event_log") /\ UNCHANGED settings

event_log_close ==
  /\ PressedAny({"event_log_close"})
  /\ Viewer(FALSE, FALSE) /\ Leave("notebook") /\ UNCHANGED settings

\* Mutant: the viewer is left open behind the editor.
JumpKeepingTheViewer ==
  /\ PressedAny({"event_log_jump_to_binding"})
  /\ Viewer(TRUE, FALSE) /\ Leave("settings")
  /\ \E level \in {"section", "record"} : OpenSettings(level, "none")

\* To the record of the binding, or the top when the bank has none of that name.
JumpToBinding ==
  /\ PressedAny({"event_log_jump_to_binding"})
  /\ Viewer(FALSE, FALSE) /\ Leave("settings")
  /\ \E level \in {"section", "record"} : OpenSettings(level, "none")

\* An entry without a binding refuses the jump, the edit and the replay; a value may
\* be refused when it is committed. `e` while editing goes on to the next field.
QuickEdit ==
  /\ \/ PressedAny({"event_log_jump_to_binding"}) /\ Viewer(TRUE, FALSE)
     \/ /\ PressedAny({"event_log_begin_quick_edit", "event_log_quick_edit_commit"})
        /\ \E quick \in BOOLEAN : Viewer(TRUE, quick)
     \/ PressedAny({"event_log_quick_edit_cancel"}) /\ Viewer(TRUE, FALSE)
     \/ TypedInto("quick_edit") /\ Viewer(TRUE, TRUE)
  /\ UNCHANGED <<mode, text, settings>>
----------------------------------------------------------------------------
\* Application.build: one cell that is empty, or the notebook that was saved.
ConsoleInit ==
  /\ \/ mode = "input" /\ cell = <<>>
     \/ mode = "notebook" /\ cell \in Commands \cup {Landmark, NoCell}
  /\ line = Line(<<>>) /\ typed = <<>> /\ history = <<>>
  /\ menu = NoMenu /\ composing = FALSE
  /\ settings = NoSettings /\ viewer = NoViewer
  /\ appRunning = TRUE /\ escapes = 0

ConsoleNext ==
  \/ Swallow \/ Elsewhere
  \/ enter_input \/ new_cell \/ exit_input
  \/ begin_text_input \/ submit_text_input \/ abandon_text_input
  \/ view_output \/ exit_output \/ MoveFocus \/ delete_cell
  \/ EditLine \/ MoveCaret \/ WalkHistory \/ TypeCharacter
  \/ submit \/ MetaAmbient \/ MetaLog \/ MetaSettings \/ MetaInTheNotebook \/ MetaQuit
  \/ open_action_menu \/ MoveInMenu \/ CloseMenu \/ Copy
  \/ BeginComposing \/ EndComposing \/ ExtendComposer
  \/ open_settings \/ settings_descend \/ settings_ascend \/ settings_close
  \/ settings_begin_edit \/ settings_edit_commit \/ settings_edit_cancel
  \/ settings_reset_begin \/ settings_reset_confirm \/ settings_reset_cancel
  \/ settings_search_begin \/ settings_search_commit \/ settings_search_cancel
  \/ FollowMatches \/ UndoRedo \/ ExtendSettings
  \/ open_event_log \/ event_log_close \/ JumpToBinding \/ QuickEdit

ConsoleSpec == ConsoleInit /\ [][ConsoleNext]_consoleVars
----------------------------------------------------------------------------
(* The focus mode, which decides what a key means, and the controllers     *)
(* behind it, which keep what is open in fields of their own, agree after  *)
(* every key: a session or a viewer is open in its mode and in no other, a *)
(* composer or a confirmation is open only inside its own, INPUT has a     *)
(* command to edit and the menu offers what belongs to the mode.  This is  *)
(* so as long as no subscriber raises inside a handler.                    *)
ModalAgrees ==
  /\ settings.open <=> mode = "settings"
  /\ viewer.open <=> mode = "event_log"
  /\ settings.sub # "none" => settings.open
  /\ settings.sub = "edit" => settings.level = "field"
  /\ viewer.quick => viewer.open
  /\ composing => mode = "output"
  /\ mode = "input" => HasCommand
  /\ mode = "output" => cell # NoCell
  /\ menu.items # <<>> => menu.items \in Offered

AtHome == mode = "notebook" /\ menu.items = <<>>

(* "Press Escape any time to return to notebook mode." (onboarding.py:43): *)
(* wherever the user is, four presses of Escape in a row lead there, with  *)
(* nothing left open on the way.                                           *)
EscapeLeads == escapes = 4 => AtHome

(* Walking up and down the history and past its newest entry gives back    *)
(* the line as the user had typed it, however long the walk was and        *)
(* whatever it passed.                                                     *)
DraftComesBack == mode = "input" /\ line.browse = 0 => line.buffer = typed
=============================================================================
