--------------------------- MODULE OutputPlayback ---------------------------
(***************************************************************************)
(* OUTPUT mode on its three threads: the keyboard thread moves and         *)
(* searches (OutputCursor), starts and stops the playback and leaves the   *)
(* mode; the playback's ticker (asat/output_playback.py) moves the same    *)
(* cursor; the worker thread appends lines.                                *)
(*                                                                         *)
(* EventBus.publish holds a lock while its handlers run. The keyboard      *)
(* thread starts and stops the playback inside a handler, so nobody else   *)
(* publishes then; the fields themselves have no lock. Time is left out: a *)
(* tick is due at any moment after the last one, and a poll before that    *)
(* changes nothing.                                                        *)
(*                                                                         *)
(* A subscriber may raise when the ticker publishes: all of them have been *)
(* called by then, and the exception ends the thread, whose loop has no    *)
(* try. On the keyboard thread subscribers do not raise here.              *)
(***************************************************************************)
EXTENDS OutputCursor

CONSTANT MaxStarts  \* bound on playbacks

ASSUME PlaybackAssumption == MaxStarts \in Nat

VARIABLES
  outputMode,   \* is FocusState.mode OUTPUT?
  active,       \* OutputPlaybackDriver._active
  stopSignal,   \* OutputPlaybackDriver._stop_signal
  main,         \* where the keyboard thread is
  why,          \* what it handles: "toggle", "leave", "quit" or another key
  ticker,       \* where the ticker thread is
  target,       \* the line its _seek has computed, until it is told
  starts,       \* OUTPUT_PLAYBACK_STARTED published so far
  announced,    \* was that the last of _STARTED and _STOPPED?
  late          \* lines the ticker published since, if not

driver == <<active, stopSignal, starts, announced>>
thread == <<ticker, target>>
vars == <<lines, cursor, outputMode, driver, main, why, thread, late>>

Init ==
  /\ CursorInit
  /\ outputMode = FALSE /\ active = FALSE /\ stopSignal = FALSE
  /\ main = "idle" /\ why = "key"
  /\ ticker = "loop" /\ target = 0
  /\ starts = 0 /\ announced = FALSE /\ late = 0

\* The keyboard thread is in a handler of ACTION_INVOKED or FOCUS_CHANGED.
Dispatching == main \in {"stop", "announce", "start"} /\ why # "quit"

-----------------------------------------------------------------------------
(* The keyboard thread: the handler of a key, then what the Application    *)
(* does on ACTION_INVOKED (_on_action_invoked) and FOCUS_CHANGED.          *)

\* A key of OUTPUT mode whose handler has run and is about to be published.
Handled(key) ==
  /\ main = "idle" /\ outputMode
  /\ main' = "handled" /\ why' = key
  /\ UNCHANGED <<outputMode, driver, thread, late>>

ReadingKey ==
  /\ composer = "none"
  /\ Handled("key")
  /\ Move \/ BeginComposer("search") \/ BeginComposer("goto") \/ NextMatch

ComposerKey ==
  /\ composer # "none"
  /\ Handled("key")
  /\ Extend \/ Backspace \/ Commit \/ Cancel

PressToggle ==
  /\ composer = "none" /\ starts < MaxStarts
  /\ Handled("toggle")
  /\ UNCHANGED <<lines, cursor>>

\* view_output from NOTEBOOK mode: FOCUS_CHANGED to OUTPUT stops nothing.
PressView ==
  /\ main = "idle" /\ ~outputMode
  /\ outputMode' = TRUE
  /\ main' = "attach" /\ why' = "key"
  /\ UNCHANGED <<lines, cursor, driver, thread, late>>

Attach ==
  /\ main = "attach" /\ main' = "snap"
  /\ \E c \in Cells : AttachBuffer(c)
  /\ UNCHANGED <<outputMode, driver, why, thread, late>>

Snap ==
  /\ main = "snap" /\ main' = "handled"
  /\ SnapToEnd
  /\ UNCHANGED <<outputMode, driver, why, thread, late>>

\* exit_output_mode; FOCUS_CHANGED comes first, ACTION_INVOKED after.
PressLeave ==
  /\ main = "idle" /\ outputMode /\ composer = "none"
  /\ outputMode' = FALSE
  /\ main' = "left" /\ why' = "leave"
  /\ UNCHANGED <<lines, cursor, driver, thread, late>>

\* _on_focus_changed
OnFocusChanged ==
  /\ main = "left"
  /\ main' = IF active THEN "stop" ELSE "handled"
  /\ why' = IF active THEN why ELSE "key"
  /\ UNCHANGED <<lines, cursor, outputMode, driver, thread, late>>

\* Mutant: the last line counts as one with a line to come.
HasMoreAtTheEnd == position # 0 /\ position <= Len(Buffer)

\* _has_more_lines
HasMore == position # 0 /\ position < Len(Buffer)

\* Mutant: only the toggle stops a playback, as only it starts one.
OnOtherKeyPlayOn ==
  /\ main = "handled" /\ why = "key"
  /\ main' = "idle"
  /\ UNCHANGED <<lines, cursor, outputMode, driver, why, thread, late>>

\* _on_action_invoked: any other key stops an active playback.
OnOtherKey ==
  /\ main = "handled" /\ why = "key"
  /\ main' = IF active THEN "stop" ELSE "idle"
  /\ UNCHANGED <<lines, cursor, outputMode, driver, why, thread, late>>

\* _toggle_output_playback and the check of start: p stops an active playback, and
\* starts one that has somewhere to go.
OnToggle ==
  /\ main = "handled" /\ why = "toggle"
  /\ main' = CASE active             -> "stop"
               [] ~active /\ HasMore -> "start"
               [] OTHER              -> "idle"
  /\ active' = (active \/ HasMore)
  /\ why' = "key"
  /\ UNCHANGED <<lines, cursor, outputMode, stopSignal, starts, announced, thread, late>>

\* start, after it has set _active.
PublishStarted ==
  /\ main = "start" /\ main' = "idle"
  /\ starts' = starts + 1 /\ announced' = TRUE /\ late' = 0
  /\ UNCHANGED <<lines, cursor, outputMode, active, stopSignal, why, thread>>

\* stop, after its check.
Halt == active' = FALSE /\ stopSignal' = TRUE

StopByKey ==
  /\ main = "stop" /\ main' = "announce"
  /\ Halt
  /\ UNCHANGED <<lines, cursor, outputMode, starts, announced, why, thread, late>>

PublishStopped ==
  /\ main = "announce"
  /\ main' = CASE why = "leave" -> "handled" [] why = "quit" -> "gone" [] OTHER -> "idle"
  /\ why' = IF why = "quit" THEN why ELSE "key"
  /\ announced' = FALSE /\ late' = 0
  /\ UNCHANGED <<lines, cursor, outputMode, active, stopSignal, starts, thread>>

\* Application.close, OutputPlaybackDriver.close
Quit ==
  /\ main = "idle"
  /\ why' = "quit"
  /\ IF active
       THEN main' = "stop" /\ UNCHANGED driver
       ELSE main' = "gone" /\ stopSignal' = TRUE /\ UNCHANGED <<active, starts, announced>>
  /\ UNCHANGED <<lines, cursor, outputMode, thread, late>>
-----------------------------------------------------------------------------
(* The ticker: the loop of start_background_ticker around step.            *)

TickerGoes(to) ==
  /\ ticker' = to
  /\ UNCHANGED <<lines, outputMode, main, why>>

\* One round of the loop that does something.
Tick ==
  /\ ticker = "loop"
  /\ \/ stopSignal /\ TickerGoes("gone")
     \/ ~stopSignal /\ active /\ TickerGoes("due")
  /\ UNCHANGED <<cursor, driver, target, late>>

\* Mutant: a page for a line.
SeekPageDown ==
  /\ ticker = "due"
  /\ target' = Clamp(position + PageSize, Len(Buffer))
  /\ TickerGoes(IF Buffer = <<>> THEN "stop"
                ELSE IF target' = position THEN "look" ELSE "write")
  /\ UNCHANGED <<cursor, driver, late>>

\* move_line_down computes where to go.
SeekDown ==
  /\ ticker = "due"
  /\ target' = Clamp(position + 1, Len(Buffer))
  /\ TickerGoes(IF Buffer = <<>> THEN "stop"
                ELSE IF target' = position THEN "look" ELSE "write")
  /\ UNCHANGED <<cursor, driver, late>>

\* It goes there and reads the line, of whatever buffer is attached by now: the
\* IndexError of a line that is not there ends the thread.
WriteLine ==
  /\ ticker = "write"
  /\ position' = target
  /\ TickerGoes(IF target \in DOMAIN Buffer THEN "publish" ELSE "crashed")
  /\ UNCHANGED <<reading, told, search, driver, target, late>>

\* OUTPUT_LINE_FOCUSED. A subscriber that raises (`bad`) leaves step and ends the
\* thread, with the playback still active.
PublishLine(bad) ==
  /\ ticker = "publish" /\ ~Dispatching
  /\ told' = <<reading, target>>
  /\ late' = IF announced THEN late ELSE late + 1
  /\ target' = 0
  /\ TickerGoes(IF bad THEN "raised" ELSE "look")
  /\ UNCHANGED <<reading, position, search, driver>>

\* Mutant: it plays on to the end without going back to the check of the loop.
LookAheadPlayingOn ==
  /\ ticker = "look"
  /\ TickerGoes(IF HasMore THEN "due" ELSE "stop")
  /\ UNCHANGED <<cursor, driver, target, late>>

LookAhead ==
  /\ ticker = "look"
  /\ TickerGoes(IF HasMore THEN "loop" ELSE "stop")
  /\ UNCHANGED <<cursor, driver, target, late>>

\* stop("end"): its check, what it sets, what it publishes.
StopAtEnd ==
  /\ ticker = "stop"
  /\ TickerGoes(IF active THEN "clear" ELSE "loop")
  /\ UNCHANGED <<cursor, driver, target, late>>

\* Mutant: the end is not published.
ClearAtEndSilently ==
  /\ ticker = "clear"
  /\ Halt
  /\ TickerGoes("loop")
  /\ UNCHANGED <<cursor, starts, announced, target, late>>

ClearAtEnd ==
  /\ ticker = "clear"
  /\ Halt
  /\ TickerGoes("announce")
  /\ UNCHANGED <<cursor, starts, announced, target, late>>

PublishEnd(bad) ==
  /\ ticker = "announce" /\ ~Dispatching
  /\ announced' = FALSE /\ late' = 0
  /\ TickerGoes(IF bad THEN "raised" ELSE "loop")
  /\ UNCHANGED <<cursor, active, stopSignal, starts, target>>

-----------------------------------------------------------------------------
\* The worker thread publishes a chunk; the recorder appends it.
Chunk ==
  /\ ~Dispatching
  /\ \E c \in Cells, text \in SUBSET Chars : Record(c, text)
  /\ UNCHANGED <<cursor, outputMode, driver, main, why, thread, late>>

Press == ReadingKey \/ ComposerKey \/ PressToggle \/ PressView \/ PressLeave \/ Quit
Keyboard == Attach \/ Snap \/ OnFocusChanged \/ OnOtherKey \/ OnToggle \/ PublishStarted
            \/ StopByKey \/ PublishStopped
Ticker == Tick \/ SeekDown \/ WriteLine \/ LookAhead \/ StopAtEnd \/ ClearAtEnd
          \/ \E bad \in BOOLEAN : PublishLine(bad) \/ PublishEnd(bad)

Next == Press \/ Keyboard \/ Ticker \/ Chunk
Spec == Init /\ [][Next]_vars

\* The threads run; nobody presses a key or prints a line because he must.
FairSpec == Spec /\ WF_vars(Keyboard) /\ WF_vars(Ticker)
-----------------------------------------------------------------------------
(* A playback only runs over an output that is being read, with no search  *)
(* or line number half typed, once the key at hand is dealt with.          *)
PlaysWhatIsRead == active /\ main = "idle" => outputMode /\ composer = "none"

(* After OUTPUT_PLAYBACK_STOPPED at most the line that was on its way is   *)
(* spoken, however often playback is tried again.                          *)
QuietAfterStop == late <= 1

(* Unless its end is just being published, a playback that is over has     *)
(* been reported as stopped, whichever thread ended it.                    *)
EveryEndIsTold ==
  ~active /\ main \notin {"start", "announce"} /\ ticker # "announce" => ~announced

(* The first playback tells every line: each is the one after the line     *)
(* told before, as long as no key is pressed.                              *)
TellsEveryLine ==
  [][ticker = "publish" /\ ticker' # "publish" /\ active /\ main = "idle" /\ starts = 1
       => told' = <<told[1], told[2] + 1>>]_vars

(* A playback begun before any was stopped ends: at the last line, by a    *)
(* key or with the program, unless a subscriber that raised on one of its  *)
(* lines has ended the ticker.  A later one is not promised an end: the    *)
(* first stop has ended the ticker, and start launches no other.           *)
FirstPlaybackEnds == active /\ ~stopSignal ~> ~active \/ ticker = "raised"

=============================================================================
