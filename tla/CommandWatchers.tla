--------------------------- MODULE CommandWatchers ---------------------------
(***************************************************************************)
(* What is told about a command besides its own events, put together: the  *)
(* worker that publishes them, the keyboard thread that moves the focus    *)
(* and announces it, the recorder's buffers, the announcer of the stderr   *)
(* tail, the watcher for completions away from the focus, and the          *)
(* streaming monitor.                                                      *)
(*                                                                         *)
(* A delivery holds the lock of the bus for all its handlers: each publish *)
(* of the worker, with every handler's effect, is one step.                *)
(*                                                                         *)
(* Left out: `t` in the event log publishes an old COMMAND or FOCUS event  *)
(* again (event_log.py:351), and the watchers take it for a new one.       *)
(***************************************************************************)
EXTENDS StreamingMonitor, Sequences

CONSTANTS
  Runnable,   \* the cells that are run
  TailLines,  \* StderrTailAnnouncer's tail_lines
  MaxErrors   \* bound on the stderr lines of a cell

ASSUME WatchersAssumption ==
  /\ Runnable \subseteq Cells
  /\ TailLines \in Nat \ {0} /\ MaxErrors \in Nat

VARIABLES
  cell,       \* the cell whose command was started and has not been ended
  alive,      \* does that command still run, for all the worker knows?
  errors,     \* the stderr lines in each cell's OutputBuffer, each written
              \* by the cell's latest run ("own") or by an earlier one ("old")
  focus,      \* the cell the notebook's focus is on
  unsaid,     \* has the focus moved without its FOCUS_CHANGED being out?
  shadow,     \* CompletionFocusWatcher._current_cell_id
  seen,       \* the cells whose command ran at some time during the check
  sinceBeat,  \* ticks since a beat was published
  pauseHeard, \* has a pause been delivered in this quiet stretch?
  armed       \* did this quiet stretch begin while no check was under way?

worldVars   == <<cell, alive, errors>>
userVars    == <<focus, unsaid, shadow>>
ghostVars   == <<seen, sinceBeat, pauseHeard, armed>>
vars        == <<monitorVars, said, worldVars, userVars, ghostVars>>

TypeOK ==
  /\ MonitorTypeOK
  /\ cell \in Runnable \cup {NoCell}
  /\ alive \in BOOLEAN
  /\ errors \in [Runnable -> Seq({"old", "own"})]
  /\ \A c \in Runnable : Len(errors[c]) <= MaxErrors
  /\ {focus, shadow} \subseteq Cells \cup {NoCell}
  /\ unsaid \in BOOLEAN
  /\ seen \subseteq Runnable
  /\ sinceBeat \in 0 .. Interval
  /\ pauseHeard \in BOOLEAN /\ armed \in BOOLEAN

Init ==
  /\ MonitorInit /\ said = {}
  /\ cell = NoCell /\ alive = FALSE
  /\ errors = [c \in Runnable |-> <<>>]
  /\ focus = NoCell /\ unsaid = FALSE /\ shadow = NoCell
  /\ seen = {} /\ sinceBeat = Interval
  /\ pauseHeard = FALSE /\ armed = FALSE

-----------------------------------------------------------------------------
(* The announcer and the watcher.                                          *)

\* COMMAND_FAILED_STDERR_TAIL: the last lines of the cell's buffer, if any.
\* No code empties a buffer when its cell is run again.
StderrTail(c) ==
  LET n == Len(errors[c]) IN
  IF n = 0 THEN {}
  ELSE {[what |-> "tail", cell |-> c,
         lines |-> SubSeq(errors[c], IF n < TailLines THEN 1 ELSE n - TailLines + 1, n)]}

\* Mutant: the watcher nudges also when it has no focus to compare with.
AwayWithoutFocus(c) ==
  IF shadow # c THEN {[what |-> "away", cell |-> c]} ELSE {}

\* COMMAND_COMPLETED_AWAY.
Away(c) ==
  IF shadow # NoCell /\ shadow # c THEN {[what |-> "away", cell |-> c]} ELSE {}

-----------------------------------------------------------------------------
(* The worker.                                                             *)

NewStretch == pauseHeard' = FALSE /\ armed' = (ticker = "wait")

\* COMMAND_STARTED.
Start(c) ==
  /\ ~alive /\ alive' = TRUE
  /\ cell' = c
  /\ errors' = [errors EXCEPT ![c] = [i \in DOMAIN @ |-> "old"]]
  /\ StartTracking(c)
  /\ seen' = IF ticker = "wait" THEN seen ELSE seen \cup {c}
  /\ NewStretch
  /\ said' = {}
  /\ UNCHANGED <<userVars, sinceBeat>>

\* OUTPUT_CHUNK.
OutputChunk ==
  /\ alive
  /\ RecordChunk(cell)
  /\ NewStretch
  /\ said' = {}
  /\ UNCHANGED <<worldVars, userVars, seen, sinceBeat>>

\* ERROR_CHUNK: the recorder appends the line.
ErrorChunk ==
  /\ alive /\ Len(errors[cell]) < MaxErrors
  /\ errors' = [errors EXCEPT ![cell] = Append(@, "own")]
  /\ RecordChunk(cell)
  /\ NewStretch
  /\ said' = {}
  /\ UNCHANGED <<cell, alive, userVars, seen, sinceBeat>>

\* The terminal event.  A launch that fails publishes ERROR_CHUNK first.
End(how) ==
  /\ alive /\ alive' = FALSE
  /\ cell' = NoCell
  /\ StopTracking(cell)
  /\ said' = {[what |-> how, cell |-> cell]}
             \cup (IF how = "failed" THEN StderrTail(cell) ELSE {})
             \cup (IF how = "cancelled" THEN {} ELSE Away(cell))
  /\ NewStretch
  /\ UNCHANGED <<errors, userVars, seen, sinceBeat>>

\* A subscriber raised: the exception leaves execute and no terminal event is
\* published, so that the monitor goes on following the cell.
Abandon ==
  /\ MayRaise /\ alive /\ alive' = FALSE
  /\ said' = {}
  /\ UNCHANGED <<monitorVars, cell, errors, userVars, ghostVars>>

Worker == \/ \E c \in Runnable : Start(c)
          \/ OutputChunk \/ ErrorChunk \/ Abandon
          \/ \E how \in {"completed", "failed", "cancelled"} : End(how)

-----------------------------------------------------------------------------
(* The keyboard thread: the cursor moves, then publishes.                  *)

MoveFocus(c) ==
  /\ ~unsaid /\ focus # c
  /\ focus' = c /\ unsaid' = TRUE
  /\ said' = {}
  /\ UNCHANGED <<monitorVars, worldVars, shadow, ghostVars>>

\* FOCUS_CHANGED.
AnnounceFocus ==
  /\ unsaid /\ unsaid' = FALSE
  /\ shadow' = focus
  /\ said' = {}
  /\ UNCHANGED <<monitorVars, worldVars, focus, ghostVars>>

User == \/ \E c \in Cells \cup {NoCell} : MoveFocus(c)
        \/ AnnounceFocus

-----------------------------------------------------------------------------
(* The ticker and the clock, with the history the properties look at.      *)

Names(what) == {e \in said' : e.what = what}

TickerStep ==
  /\ Ticker
  /\ seen' = CASE ticker' = "wait" -> {}
               [] ticker = "wait"  -> Runnable \cap {cell}
               [] OTHER            -> seen
  /\ sinceBeat' = IF ticker' = "beaten" THEN 0 ELSE sinceBeat
  /\ pauseHeard' = (pauseHeard \/ ticker' = "paused")
  /\ UNCHANGED <<worldVars, userVars, armed>>

ClockStep ==
  /\ Tick
  /\ sinceBeat' = IF sinceBeat < Interval THEN sinceBeat + 1 ELSE Interval
  /\ UNCHANGED <<worldVars, userVars, seen, pauseHeard, armed>>

CloseStep == CloseMonitor /\ UNCHANGED <<worldVars, userVars, ghostVars>>

Next == Worker \/ User \/ TickerStep \/ ClockStep \/ CloseStep

Spec == Init /\ [][Next]_vars

\* The ticker is a thread of its own and time passes; commands need not end.
FairSpec == Spec /\ WF_vars(TickerStep) /\ WF_vars(ClockStep)

-----------------------------------------------------------------------------
(* Properties.                                                             *)

\* What a pacing event says is true: the cell it names had a command running
\* at some time during the check that published it, although the check reads
\* the fields one by one while commands end and start.
NamesARunningCell ==
  [][\A e \in said' : e.what \in {"paused", "beat"} => e.cell \in seen]_vars

\* A quiet stretch is announced once: after a pause was delivered no other is
\* published before a chunk arrives or another command starts.  Only an
\* exception out of a subscriber makes the check repeat itself.
OncePerStretch ==
  [][Names("paused") # {} => ~pauseHeard]_vars

\* Beats keep their distance, whichever commands they are about: after one was
\* delivered the next comes no sooner than the interval, less the time one
\* check may take.
BeatsAreSpaced ==
  [][Names("beat") # {} => sinceBeat + MaxLag >= Interval]_vars

\* A completion is told as away exactly if the user is at another cell, unless
\* the focus has just moved and the announcement of that waits for the bus.
AwayIsTrue ==
  [][\A e \in said' : e.what \in {"completed", "failed"} /\ ~unsaid =>
       ((Names("away") # {}) <=> (focus \notin {e.cell, NoCell}))]_vars

Tells(what) == \E e \in said : e.what = what

\* A silence that is long enough is announced, if the chunk or the start that
\* began it did not come in the middle of a check: a check that has just announced
\* a silence closes the gate on a chunk that came meanwhile, and the silence after
\* that chunk stays untold.
QuietIsTold ==
  (chunkAge = Silence /\ armed /\ ~pauseHeard /\ ~stopped)
    ~> (Tells("paused") \/ chunkAge \in {0, NoTime} \/ stopped)

=============================================================================
