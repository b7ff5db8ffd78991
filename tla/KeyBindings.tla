---------------------------- MODULE KeyBindings ----------------------------
(***************************************************************************)
(* Which key does what, input_router.py.  A layer is what a key reaches    *)
(* first: one of the six focus modes, or one of the six sub-modes that     *)
(* shadow a mode while they are open.  A layer maps keys to actions, as a  *)
(* set of pairs; a key it does not map is swallowed, and the printable     *)
(* keys among them are text where the layer takes text.                    *)
(***************************************************************************)
EXTENDS FiniteSets

Modes == {"notebook", "input", "text_input", "output", "settings", "event_log"}

SubModes == {"menu", "edit", "search", "reset", "quick_edit", "composer"}

Layers == Modes \cup SubModes

\* F2 or Ctrl+. where there is a menu, Ctrl+R where there is a narration to repeat.
MenuKeys == {"f2", "ctrl+."} \X {"open_action_menu"}
Repeat == {<<"ctrl+r", "repeat_last_narration">>}

NotebookKeys == MenuKeys \cup Repeat \cup {
  <<"up", "move_up">>, <<"down", "move_down">>,
  <<"home", "move_to_top">>, <<"end", "move_to_bottom">>,
  <<"enter", "enter_input">>, <<"ctrl+n", "new_cell">>,
  <<"ctrl+o", "view_output">>, <<"ctrl+,", "open_settings">>,
  <<"ctrl+e", "open_event_log">>, <<"d", "delete_cell">>, <<"y", "duplicate_cell">>,
  <<"alt+up", "move_cell_up">>, <<"alt+down", "move_cell_down">>,
  <<"]", "next_heading">>, <<"[", "prev_heading">>,
  <<"}", "next_parent_heading">>, <<"{", "prev_parent_heading">>,
  <<"z", "toggle_fold_heading">>,
  <<"1", "next_heading_1">>, <<"2", "next_heading_2">>, <<"3", "next_heading_3">>,
  <<"4", "next_heading_4">>, <<"5", "next_heading_5">>, <<"6", "next_heading_6">>,
  <<"i", "begin_text_input">>}

\* What INPUT and TEXT_INPUT have in common.
LineKeys == MenuKeys \cup Repeat \cup {
  <<"backspace", "backspace">>, <<"delete", "delete_forward">>,
  <<"left", "cursor_left">>, <<"right", "cursor_right">>,
  <<"home", "cursor_home">>, <<"ctrl+a", "cursor_home">>,
  <<"end", "cursor_end">>, <<"ctrl+e", "cursor_end">>,
  <<"ctrl+w", "delete_word_left">>, <<"ctrl+u", "delete_to_start">>,
  <<"ctrl+k", "delete_to_end">>}

InputKeys == LineKeys \cup {
  <<"up", "history_previous">>, <<"down", "history_next">>,
  <<"ctrl+c", "cancel_command">>, <<"enter", "submit">>, <<"escape", "exit_input">>}

TextInputKeys == LineKeys \cup {
  <<"enter", "submit_text_input">>, <<"escape", "abandon_text_input">>}

OutputKeys == MenuKeys \cup {
  <<"up", "output_line_up">>, <<"down", "output_line_down">>,
  <<"page_up", "output_page_up">>, <<"page_down", "output_page_down">>,
  <<"home", "output_to_start">>, <<"end", "output_to_end">>,
  <<"escape", "exit_output">>, <<"/", "output_search_begin">>,
  <<"g", "output_goto_begin">>, <<"n", "output_search_next">>,
  <<"N", "output_search_prev">>,
  <<"p", "output_playback_toggle">>, <<" ", "output_playback_toggle">>}

SettingsKeys == {
  <<"up", "settings_prev">>, <<"down", "settings_next">>,
  <<"left", "settings_ascend">>, <<"escape", "settings_ascend">>,
  <<"right", "settings_descend">>, <<"enter", "settings_descend">>,
  <<"e", "settings_begin_edit">>, <<"/", "settings_search_begin">>,
  <<"n", "settings_search_next">>, <<"N", "settings_search_prev">>,
  <<"ctrl+s", "settings_save">>, <<"ctrl+q", "settings_close">>,
  <<"ctrl+z", "settings_undo">>, <<"ctrl+y", "settings_redo">>,
  <<"ctrl+r", "settings_reset_begin">>}

EventLogKeys == {
  <<"up", "event_log_previous">>, <<"down", "event_log_next">>,
  <<"enter", "event_log_jump_to_binding">>,
  <<"escape", "event_log_close">>, <<"ctrl+q", "event_log_close">>,
  <<"e", "event_log_begin_quick_edit">>, <<"t", "event_log_replay">>}

\* The sub-modes take their keys in code of their own, not from the map.
MenuOpenKeys == {
  <<"up", "menu_prev">>, <<"down", "menu_next">>,
  <<"enter", "menu_activate">>, <<"escape", "menu_close">>}

ComposerKeys == {
  <<"enter", "output_composer_commit">>, <<"escape", "output_composer_cancel">>,
  <<"backspace", "output_composer_backspace">>}

EditKeys == {
  <<"enter", "settings_edit_commit">>, <<"escape", "settings_edit_cancel">>,
  <<"backspace", "settings_edit_backspace">>}

SearchKeys == {
  <<"enter", "settings_search_commit">>, <<"escape", "settings_search_cancel">>,
  <<"backspace", "settings_search_backspace">>}

ResetKeys == {
  <<"enter", "settings_reset_confirm">>, <<"escape", "settings_reset_cancel">>}

QuickEditKeys == {
  <<"enter", "event_log_quick_edit_commit">>, <<"escape", "event_log_quick_edit_cancel">>,
  <<"backspace", "event_log_quick_edit_backspace">>, <<"e", "event_log_begin_quick_edit">>}

KeyMap == [
  notebook |-> NotebookKeys, input |-> InputKeys, text_input |-> TextInputKeys,
  output |-> OutputKeys, settings |-> SettingsKeys, event_log |-> EventLogKeys,
  menu |-> MenuOpenKeys, composer |-> ComposerKeys, edit |-> EditKeys,
  search |-> SearchKeys, reset |-> ResetKeys, quick_edit |-> QuickEditKeys]

\* The keys above that are characters too.
Printable == {"d", "y", "]", "[", "}", "{", "z", "1", "2", "3", "4", "5", "6", "i",
              "/", "g", "n", "N", "p", " ", "e", "t"}

\* Where a printable key that is not mapped is text.
TakesText == {"input", "text_input", "composer", "edit", "search", "quick_edit"}

Keys == UNION {{pair[1] : pair \in KeyMap[layer]} : layer \in Layers}
Actions == UNION {{pair[2] : pair \in KeyMap[layer]} : layer \in Layers}

\* The keys that mean an action in a layer.
KeysOf == [layer \in Layers |-> [action \in Actions |->
             {key \in Keys : <<key, action>> \in KeyMap[layer]}]]

----------------------------------------------------------------------------
(* The commands that begin with a colon. *)

AMBIENT_META_COMMANDS == {
  "help", "save", "pwd", "commands", "welcome", "repeat", "state", "toc",
  "workspace", "list-notebooks", "new-notebook", "bindings", "bookmark",
  "unbookmark", "bookmarks", "verbosity", "reload-bank", "tts", "log"}

META_COMMANDS == AMBIENT_META_COMMANDS \cup {
  "settings", "quit", "delete", "duplicate", "reset", "heading", "text", "jump"}

\* The handlers of these publish an event and change nothing of the console's.
Informative == {"help", "pwd", "commands", "state", "toc", "bindings", "bookmarks"}

\* They have no handler here: the Application acts on their ACTION_INVOKED.
LeftToTheApplication == {
  "save", "quit", "welcome", "repeat", "workspace", "list-notebooks",
  "new-notebook", "verbosity", "reload-bank", "tts"}
=============================================================================
