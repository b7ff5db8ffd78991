------------------------------ MODULE EventLog ------------------------------
(***************************************************************************)
(* The event log viewer, event_log.py: a ring of the last MaxEntries       *)
(* events, a focus in it that the keyboard walks, the quick edit of a      *)
(* binding and the replay of an entry.                                     *)
(*                                                                         *)
(* The ring records what the keyboard itself does: KEY_PRESSED before the  *)
(* handler of a key, ACTION_INVOKED after it and, in between, the          *)
(* AUDIO_SPOKEN of what the viewer announced.  The viewer's own events are *)
(* not recorded.  An event is recorded under the bus lock; a key moves the *)
(* focus without it.  Positions in the ring count from 1, 0 is None.       *)
(***************************************************************************)
EXTENDS Naturals, Sequences

CONSTANTS MaxEntries,   \* max_entries, 200 in the program
          BindingIds,   \* the bindings AUDIO_SPOKEN may name
          MaxSerial,    \* bound: how many events are recorded
          NoBinding

ASSUME EventLogAssumption == MaxEntries \in Nat \ {0} /\ MaxSerial \in Nat

VARIABLES
  ring,      \* _entries, oldest first
  serial,    \* how many events have been recorded
  focus,     \* _focus_index
  isOpen,    \* _open, which is mode EVENT_LOG for the router
  quick,     \* the field and the binding of the quick edit
  submitted, \* how many commands replays have handed to the queue
  kpc,       \* where the keyboard thread is in a key's handler
  loaded,    \* the focus the handler has read
  wpc,       \* where the worker is in _on_event
  atTail,    \* what _on_event has found
  heard      \* history: the serial the last two walking keys announced

viewerVars == <<ring, serial, focus, isOpen, quick, submitted, kpc, loaded,
          wpc, atTail, heard>>

QUICK_EDIT_FIELDS == <<"say_template", "voice_id", "enabled", "priority">>

NoEdit == [field |-> 0, binding |-> NoBinding]

\* EventLogEntry.from_event: only AUDIO_SPOKEN has a binding.
Entry(n, type, binding) == [serial |-> n, type |-> type, binding |-> binding]

Keys == {"up", "down", "begin_edit", "extend", "commit", "cancel", "replay", "close"}

\* The mode map, and the keys that get through while a field is being edited.
Reaches(key) ==
  IF ~isOpen THEN key = "open"
  ELSE IF quick = NoEdit THEN key \in Keys \ {"extend", "commit", "cancel"}
  ELSE key \in {"begin_edit", "extend", "commit", "cancel"}

EventLogViewerInit ==
  /\ ring = <<>> /\ serial = 0 /\ focus = 0 /\ isOpen = FALSE
  /\ quick = NoEdit /\ submitted = 0
  /\ kpc = "idle" /\ loaded = 0 /\ wpc = "idle" /\ atTail = FALSE
  /\ heard = [before |-> 0, last |-> 0]

----------------------------------------------------------------------------
(* _on_event. *)

AtTail == focus = 0 \/ focus = Len(ring)

\* deque(maxlen): the oldest entry goes, and the others move up by one.
Pushed(entry) ==
  IF Len(ring) < MaxEntries THEN Append(ring, entry) ELSE Append(Tail(ring), entry)

\* Mutant: the focus is moved back with the entries also while the ring fills.
RecordMovingBack(type, binding) ==
  /\ wpc = "idle"
  /\ serial < MaxSerial
  /\ serial' = serial + 1
  /\ ring' = Pushed(Entry(serial + 1, type, binding))
  /\ focus' = IF AtTail THEN Len(ring') ELSE IF focus > 1 THEN focus - 1 ELSE 1
  /\ UNCHANGED <<wpc, atTail>>

\* An event the keyboard thread publishes: nothing comes between.
RecordEvent(type, binding) ==
  /\ wpc = "idle"
  /\ serial < MaxSerial
  /\ serial' = serial + 1
  /\ ring' = Pushed(Entry(serial + 1, type, binding))
  /\ focus' = IF AtTail THEN Len(ring') ELSE focus
  /\ UNCHANGED <<wpc, atTail>>

Unrecorded == UNCHANGED <<ring, serial, focus, wpc, atTail>>

\* An announcement of the viewer's: heard and recorded as AUDIO_SPOKEN, unless
\* its binding is silent.
Announce == Unrecorded \/ \E b \in BindingIds : RecordEvent("spoken", b)

\* The worker's event, while the keyboard may be moving the focus.
WorkerTests ==
  /\ wpc = "idle" /\ serial < MaxSerial
  /\ atTail' = AtTail
  /\ wpc' = "tested"
  /\ UNCHANGED <<ring, serial, focus, isOpen, quick, submitted, kpc, loaded, heard>>

WorkerAppends ==
  /\ wpc = "tested"
  /\ serial' = serial + 1
  /\ ring' = Pushed(Entry(serial + 1, "output", NoBinding))
  /\ wpc' = IF atTail THEN "follow" ELSE "idle"
  /\ UNCHANGED <<focus, isOpen, quick, submitted, kpc, loaded, atTail, heard>>

WorkerFollows ==
  /\ wpc = "follow"
  /\ focus' = Len(ring)
  /\ wpc' = "idle"
  /\ UNCHANGED <<ring, serial, isOpen, quick, submitted, kpc, loaded, atTail, heard>>

----------------------------------------------------------------------------
(* A key: KEY_PRESSED, its handler, ACTION_INVOKED. *)

\* selected_entry: a focus outside the ring selects nothing.
HasSelected == focus \in 1..Len(ring)
selected_entry == ring[focus]

PressKey(key) ==
  /\ kpc = "idle"
  /\ Reaches(key)
  /\ RecordEvent("key", NoBinding)
  /\ kpc' = key
  /\ UNCHANGED <<isOpen, quick, submitted, loaded, heard>>

\* open() anchors on the latest entry; the router changes the mode after it.
Open ==
  /\ kpc = "open"
  /\ isOpen' = TRUE
  /\ quick' = NoEdit
  /\ focus' = Len(ring)
  /\ kpc' = "changing"
  /\ heard' = [before |-> 0, last |-> 0]
  /\ UNCHANGED <<ring, serial, submitted, loaded, wpc, atTail>>

\* close(), after cancel_quick_edit.
Close ==
  /\ kpc = "close"
  /\ isOpen' = FALSE
  /\ quick' = NoEdit
  /\ kpc' = "changing"
  /\ UNCHANGED <<submitted, loaded, heard>> /\ Unrecorded

\* EVENT_LOG_OPENED or EVENT_LOG_CLOSED, and FOCUS_CHANGED.
AnnounceChange ==
  /\ kpc = "changing"
  /\ Announce
  /\ kpc' = "changed"
  /\ UNCHANGED <<isOpen, quick, submitted, loaded, heard>>

ChangeMode ==
  /\ kpc = "changed"
  /\ RecordEvent("focus", NoBinding)
  /\ kpc' = "done"
  /\ UNCHANGED <<isOpen, quick, submitted, loaded, heard>>

\* focus_previous and focus_next compare the focus, read it again and write it:
\* the worker may follow its event in between.
StaysPut(key) ==
  \/ key = "up" /\ focus = 1
  \/ key = "down" /\ (focus = 0 \/ focus >= Len(ring))

Compare(key) ==
  /\ kpc = key
  /\ kpc' = IF StaysPut(key) THEN "done"
            ELSE IF key = "up" /\ focus = 0 THEN "latest"
            ELSE IF key = "up" THEN "load_up" ELSE "load_down"
  /\ UNCHANGED <<isOpen, quick, submitted, loaded, heard>> /\ Unrecorded

Load ==
  /\ kpc \in {"load_up", "load_down"}
  /\ loaded' = focus
  /\ kpc' = IF kpc = "load_up" THEN "store_up" ELSE "store_down"
  /\ UNCHANGED <<isOpen, quick, submitted, heard>> /\ Unrecorded

\* Up without a focus goes to the latest entry.
MoveFocus ==
  /\ kpc \in {"latest", "store_up", "store_down"}
  /\ focus' = CASE kpc = "latest" -> Len(ring)
                [] kpc = "store_up" -> loaded - 1
                [] kpc = "store_down" -> loaded + 1
  /\ kpc' = IF kpc = "store_up" THEN "tell_up" ELSE "tell_down"
  /\ UNCHANGED <<ring, serial, isOpen, quick, submitted, loaded, wpc, atTail, heard>>

\* _publish_focused: the binding of EVENT_LOG_FOCUSED speaks, of an empty
\* narration if nothing is selected.
PublishFocused ==
  /\ kpc \in {"tell_up", "tell_down"}
  /\ heard' = IF HasSelected THEN [before |-> heard.last, last |-> selected_entry.serial]
             ELSE heard
  /\ kpc' = IF kpc = "tell_up" /\ HasSelected THEN "done_up" ELSE "done"
  /\ Announce
  /\ UNCHANGED <<isOpen, quick, submitted, loaded>>

\* begin_quick_edit: the first field of a binding, the next one if it is the
\* binding already being edited.
BeginQuickEdit ==
  /\ kpc = "begin_edit"
  /\ IF HasSelected /\ selected_entry.binding # NoBinding
     THEN quick' = [binding |-> selected_entry.binding,
                    field |-> IF quick.binding = selected_entry.binding
                              THEN (quick.field % Len(QUICK_EDIT_FIELDS)) + 1 ELSE 1]
     ELSE UNCHANGED quick
  /\ kpc' = "done"
  /\ UNCHANGED <<isOpen, submitted, loaded, heard>> /\ Unrecorded

\* Characters and Backspace change the buffer, whose text is left out.
ExtendQuickEdit ==
  /\ kpc = "extend"
  /\ kpc' = "done"
  /\ UNCHANGED <<isOpen, quick, submitted, loaded, heard>> /\ Unrecorded

\* commit_quick_edit: the sound bank is replaced and the field closes, ...
CommitQuickEdit ==
  /\ kpc = "commit"
  /\ quick' = NoEdit
  /\ Announce
  /\ kpc' = "done"
  /\ UNCHANGED <<isOpen, submitted, loaded, heard>>

\* ... or the value is refused and the field stays open.
RefuseQuickEdit ==
  /\ kpc = "commit"
  /\ kpc' = "done"
  /\ UNCHANGED <<isOpen, quick, submitted, loaded, heard>> /\ Unrecorded

CancelQuickEdit ==
  /\ kpc = "cancel"
  /\ quick' = NoEdit
  /\ kpc' = "done"
  /\ UNCHANGED <<isOpen, submitted, loaded, heard>> /\ Unrecorded

\* replay_selected publishes the entry again, as an event of the viewer's: the
\* Application submits the command of an ACTION_INVOKED once more.  Without an
\* entry there is nothing to publish.
Replay ==
  /\ kpc = "replay"
  /\ submitted' = submitted +
       (IF HasSelected THEN IF selected_entry.type = "submit" THEN 1 ELSE 0 ELSE 0)
  /\ IF HasSelected THEN Announce ELSE Unrecorded
  /\ kpc' = IF HasSelected THEN "replayed" ELSE "done"
  /\ UNCHANGED <<isOpen, quick, loaded, heard>>

AnnounceReplay ==
  /\ kpc = "replayed"
  /\ Announce
  /\ kpc' = "done"
  /\ UNCHANGED <<isOpen, quick, submitted, loaded, heard>>

\* ACTION_INVOKED; the entry of a command is one that a replay submits.
Invoked ==
  /\ kpc \in {"done", "done_up"}
  /\ RecordEvent("action", NoBinding)
  /\ kpc' = "idle"
  /\ UNCHANGED <<isOpen, quick, submitted, loaded, heard>>

\* A command is submitted while the viewer is closed.
Submit ==
  /\ kpc = "idle" /\ ~isOpen
  /\ RecordEvent("submit", NoBinding)
  /\ UNCHANGED <<isOpen, quick, submitted, kpc, loaded, heard>>

----------------------------------------------------------------------------
EventLogViewerNext ==
  \/ \E key \in Keys \cup {"open"} : PressKey(key)
  \/ Open \/ Close \/ AnnounceChange \/ ChangeMode
  \/ \E key \in {"up", "down"} : Compare(key)
  \/ Load \/ MoveFocus \/ PublishFocused
  \/ BeginQuickEdit \/ ExtendQuickEdit \/ CommitQuickEdit \/ RefuseQuickEdit \/ CancelQuickEdit
  \/ Replay \/ AnnounceReplay \/ Invoked \/ Submit
  \/ WorkerTests \/ WorkerAppends \/ WorkerFollows

EventLogViewerSpec == EventLogViewerInit /\ [][EventLogViewerNext]_viewerVars

----------------------------------------------------------------------------
\* Between two keys the ring moves under the focus and the worker may take it along,
\* but never back: what `t` replays and `e` edits is the entry that was announced
\* last or a later one.
NeverOlderThanTold ==
  (kpc \in {"idle", "replay", "begin_edit"} /\ heard.last # 0 /\ HasSelected) =>
    selected_entry.serial >= heard.last

\* default_bank.py, preview of the viewer: "Up and Down walk recent events";
\* input_router.py, _event_log_previous: "Walk one entry back (toward older
\* events)".  Up announces an entry older than the one announced before.
UpWalksBack ==
  (kpc = "done_up" /\ heard.before # 0) => heard.last < heard.before
=============================================================================
