---------------------------- MODULE DefaultBank ----------------------------
(***************************************************************************)
(* The bank every user starts with, default_bank.py.  A binding says which *)
(* event it is for, the voice that speaks and the cue that sounds (None:   *)
(* neither), what its template can come out as, its priority, its          *)
(* verbosity and the clauses of its predicate.  The parameters of voices   *)
(* and sounds are left out.                                                *)
(***************************************************************************)
EXTENDS Sequences

None == "none"

\* say_template: "words" always yields text, "nothing" never does, and a
\* template that is one placeholder yields text unless that key is empty.
Binding(id, on, voice, sound, says, priority) ==
  [id |-> id, on |-> on, voice |-> voice, sound |-> sound, says |-> says,
   priority |-> priority, verbosity |-> "normal", when |-> <<>>]

Cue(id, on, sound, priority) == Binding(id, on, None, sound, "nothing", priority)

Minimal(bindings) == {[b EXCEPT !.verbosity = "minimal"] : b \in bindings}

When(binding, clauses) == [binding EXCEPT !.when = clauses]

Clause(key, op, value) == [key |-> key, op |-> op, value |-> value]

Only(key, op, value) == <<Clause(key, op, value)>>

OfKind(kind) == Only("transition", "==", "cell") \o Only("kind", "==", kind)

Voices == {"narrator", "alert", "system"}

Sounds == {"tick", "soft_tick", "submit", "start", "success_chord",
  "failure_chord", "cancel", "session_chime", "nav_blip", "menu_open",
  "menu_close", "clipboard", "focus_shift", "tui_menu_alert",
  "settings_chime", "settings_save", "alert_away", "stream_paused",
  "stream_beat", "prompt_ready"}

WorkspaceBindings == {
  Binding("session_created", "session.created", "system", "session_chime", "words", 200),
  Binding("session_loaded", "session.loaded", "system", "session_chime", "words", 200),
  Binding("session_saved", "session.saved", "system", None, "words", 150),
  Binding("workspace_opened", "workspace.opened", "system", "session_chime", "words", 210),
  Binding("notebook_opened", "workspace.notebook.opened", "system", None, "words", 200),
  Binding("notebook_created", "workspace.notebook.created", "system", None, "words", 180),
  Binding("notebook_listed", "workspace.notebook.listed", "narrator", None, "summary", 140),
  Binding("bookmark_created", "bookmark.created", "system", "soft_tick", "words", 170),
  Binding("bookmark_jumped", "bookmark.jumped", "system", "nav_blip", "words", 175),
  Binding("bookmark_removed", "bookmark.removed", "system", "cancel", "words", 160)}

\* What stays audible when the ceiling is lowered.
MinimalBindings == Minimal({
  Binding("verbosity_changed", "verbosity.changed", "system", "tick", "words", 180),
  Binding("bank_reloaded", "bank.reloaded", "system", "soft_tick", "words", 175),
  Binding("audio_pipeline_failed", "audio.pipeline.failed", "alert", None, "words", 190),
  Binding("audio_sink_degraded", "audio.sink.degraded", "alert", None, "words", 195),
  Binding("output_playback_started", "output.playback.started", "system", "soft_tick", "words", 170),
  Binding("output_playback_stopped", "output.playback.stopped", "system", "soft_tick", "words", 170),
  Binding("outline_folded", "outline.folded", "narrator", "nav_blip", "words", 160),
  Binding("outline_unfolded", "outline.unfolded", "narrator", "nav_blip", "words", 160)})

CellBindings == {
  Cue("cell_created", "cell.created", "soft_tick", 100),
  Cue("cell_updated", "cell.updated", "tick", 100),
  Binding("cell_removed", "cell.removed", "system", "cancel", "words", 100),
  Cue("cell_moved", "cell.moved", "nav_blip", 100)}

CommandBindings == {
  Cue("command_submitted", "command.submitted", "submit", 150),
  Cue("command_started", "command.started", "start", 120),
  When(Binding("command_completed_ok", "command.completed", "system", "success_chord", "words", 220),
       Only("exit_code", "==", "0")),
  When(Binding("command_completed_nonzero", "command.completed", "alert", "failure_chord", "words", 215),
       Only("exit_code", "!=", "0")),
  When(Binding("command_failed_timeout", "command.failed", "alert", "failure_chord", "words", 230),
       Only("timed_out", "==", "True")),
  When(Binding("command_failed_generic", "command.failed", "alert", "failure_chord", "words", 200),
       Only("timed_out", "!=", "True")),
  Binding("command_failed_stderr_tail", "command.failed.stderr_tail", "alert", None, "tail_text", 180),
  Binding("command_cancelled", "command.cancelled", "system", "cancel", "words", 150),
  Cue("command_queued", "command.queued", "soft_tick", 90),
  Cue("queue_drained", "queue.drained", "soft_tick", 80),
  Binding("command_completed_away", "command.completed.away", "alert", "alert_away", "words", 225)}

OutputBindings == {
  Binding("output_chunk", "output.chunk", "narrator", None, "line", 80),
  Binding("error_chunk", "error.chunk", "alert", None, "line", 90),
  Cue("output_stream_paused", "output.stream.paused", "stream_paused", 85),
  Cue("output_stream_beat", "output.stream.beat", "stream_beat", 70)}

FocusBindings == {
  When(Binding("focus_changed_mode", "focus.changed", "system", "focus_shift", "new_mode", 110),
       Only("transition", "==", "mode")),
  When(Binding("focus_changed_heading", "focus.changed", "narrator", "nav_blip", "words", 120),
       OfKind("heading")),
  When(Binding("focus_changed_text", "focus.changed", "narrator", "nav_blip", "words", 115),
       OfKind("text")),
  When(Binding("focus_changed_cell", "focus.changed", "narrator", "nav_blip", "command", 100),
       OfKind("command")),
  Binding("output_line_focused", "output.line.focused", "narrator", None, "text", 120)}

MenuBindings == {
  Cue("action_menu_opened", "menu.opened", "menu_open", 150),
  Cue("action_menu_closed", "menu.closed", "menu_close", 150),
  Binding("action_menu_item_focused", "menu.item.focused", "narrator", "nav_blip", "label", 130),
  Binding("action_menu_item_invoked", "menu.item.invoked", "system", "tick", "label", 160),
  Binding("clipboard_copied", "clipboard.copied", "system", "clipboard", "words", 120),
  Binding("tui_menu_detected", "tui.menu.detected", "system", "tui_menu_alert", "words", 180),
  Binding("tui_menu_updated", "tui.menu.updated", "narrator", None, "selected_text", 140),
  Cue("tui_menu_cleared", "tui.menu.cleared", "menu_close", 120)}

SettingsBindings == {
  Binding("settings_opened", "settings.opened", "system", "settings_chime", "words", 220),
  Binding("settings_closed", "settings.closed", "system", "menu_close", "words", 200),
  Binding("settings_focused", "settings.focused", "narrator", "nav_blip", "words", 150),
  Binding("settings_value_edited", "settings.value.edited", "system", "tick", "words", 200),
  Binding("settings_saved", "settings.saved", "system", "settings_save", "words", 220)}

SettingsModeBindings == {
  Binding("settings_search_opened", "settings.search.opened", "system", "nav_blip", "words", 200),
  Binding("settings_search_updated", "settings.search.updated", "system", None, "words", 150),
  Binding("settings_search_closed", "settings.search.closed", "system", "soft_tick", "words", 150),
  Binding("settings_reset_opened", "settings.reset.opened", "alert", "settings_chime", "words", 230),
  When(Binding("settings_reset_applied", "settings.reset.closed", "system", "settings_save", "words", 220),
       Only("outcome", "==", "applied")),
  When(Binding("settings_reset_already_default", "settings.reset.closed", "system", "soft_tick", "words", 215),
       Only("outcome", "==", "already_default")),
  When(Binding("settings_reset_cancelled", "settings.reset.closed", "system", "soft_tick", "words", 210),
       Only("outcome", "==", "cancelled"))}

HelpBindings == {
  Binding("help_requested", "help.requested", "system", "settings_chime", "words", 220),
  Binding("first_run_welcome", "onboarding.first_run", "narrator", "settings_chime", "words", 250),
  Binding("first_run_tour_step", "onboarding.first_run.tour_step", "narrator", None, "words", 245),
  Binding("first_run_tour_event_log_preview", "first_run.tour.event_log_preview", "narrator", None, "words", 240),
  When(Binding("first_run_tour_log_path", "first_run.tour.log_path", "narrator", None, "words", 235),
       Only("path", "!=", "")),
  Binding("first_run_tour_completed", "first_run.tour.completed", "narrator", None, "words", 230),
  When(Binding("prompt_refresh_failure", "prompt.refresh", "system", None, "words", 90),
       Only("last_exit_code", "!=", "0")),
  When(Cue("osc_prompt_ready", "ansi.osc.received", "prompt_ready", 80),
       Only("category", "==", "prompt_start"))}

EventLogBindings == {
  Binding("event_log_opened", "event_log.opened", "system", "settings_chime", "words", 220),
  Binding("event_log_closed", "event_log.closed", "system", "menu_close", "words", 200),
  Binding("event_log_focused", "event_log.focused", "narrator", "nav_blip", "narration", 150),
  Binding("event_log_quick_edit_committed", "event_log.quick_edit.committed", "system", "tick", "words", 200),
  Binding("event_log_replayed", "event_log.replayed", "system", "soft_tick", "words", 150)}

DefaultBindings ==
  WorkspaceBindings \cup MinimalBindings \cup CellBindings \cup CommandBindings
    \cup OutputBindings \cup FocusBindings \cup MenuBindings \cup SettingsBindings
    \cup SettingsModeBindings \cup HelpBindings \cup EventLogBindings

\* SoundBank.validate accepts it: ids are unique, and what a binding refers to is
\* in the bank.
ASSUME ReferencesResolve ==
  /\ \A b, c \in DefaultBindings : b.id = c.id => b = c
  /\ \A b \in DefaultBindings : b.voice \in Voices \cup {None} /\ b.sound \in Sounds \cup {None}
=============================================================================
