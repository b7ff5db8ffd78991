-------------------------- MODULE StreamingMonitor --------------------------
(***************************************************************************)
(* The pacing of long output: the handlers that follow the events of one   *)
(* command, under the lock of the bus, and the ticker thread whose check   *)
(* reads the same fields without any lock, in steps, and publishes.        *)
(*                                                                         *)
(* Time is kept as ages: how many ticks ago a time stamp was taken, capped *)
(* where it stops mattering.  `lag` is the age of the `now` a check works  *)
(* with; a handler is one step.                                            *)
(***************************************************************************)
EXTENDS Naturals

CONSTANTS
  Cells,      \* cell identifiers
  NoCell,     \* None in the place of a cell
  NoTime,     \* None in the place of a time stamp
  Silence,    \* silence_threshold_sec, in ticks
  Interval,   \* progress_beat_interval_sec, in ticks
  MaxLag,     \* bound on the ticks one check lasts
  MayRaise    \* may a subscriber raise?

ASSUME MonitorAssumption ==
  /\ NoCell \notin Cells
  /\ NoTime \notin Nat
  /\ {Silence, Interval} \subseteq Nat \ {0}
  /\ MaxLag \in Nat
  /\ MayRaise \in BOOLEAN

VARIABLES
  active,     \* _active_cell_id
  chunkAge,   \* age of _last_chunk_at
  beatAge,    \* age of _last_beat_at
  pausedSent, \* _paused_sent
  ticker,     \* where the ticker thread is
  due,        \* has tick_interval_sec passed since the last check?
  lag,        \* age of the check's `current`
  claimed,    \* the cell named in the payload the check has built
  stopped,    \* the ticker's stop event
  said        \* the events published by the last step, except the worker's own

fieldVars   == <<active, chunkAge, beatAge, pausedSent>>
tickerVars  == <<ticker, due, lag, claimed, stopped>>
monitorVars == <<fieldVars, tickerVars>>

Ages(n) == 0 .. n + MaxLag

MonitorTypeOK ==
  /\ active \in Cells \cup {NoCell}
  /\ chunkAge \in Ages(Silence) \cup {NoTime}
  /\ beatAge \in Ages(Interval) \cup {NoTime}
  /\ pausedSent \in BOOLEAN
  /\ ticker \in {"wait", "quiet?", "gap", "pausing", "paused",
                 "beat?", "elapsed", "beating", "beaten"}
  /\ due \in BOOLEAN /\ stopped \in BOOLEAN
  /\ lag \in 0 .. MaxLag
  /\ claimed \in Cells \cup {NoCell}

MonitorInit ==
  /\ active = NoCell /\ chunkAge = NoTime /\ beatAge = NoTime
  /\ pausedSent = FALSE
  /\ ticker = "wait" /\ due = FALSE /\ lag = 0 /\ claimed = NoCell
  /\ stopped = FALSE

-----------------------------------------------------------------------------
(* The handlers, run by whoever publishes while it holds the bus.          *)

StartTracking(c) ==
  /\ active' = c /\ chunkAge' = 0 /\ beatAge' = 0 /\ pausedSent' = FALSE
  /\ UNCHANGED tickerVars

\* Mutant: a chunk leaves the gate closed.
RecordChunkOnly(c) ==
  /\ chunkAge' = IF c = active THEN 0 ELSE chunkAge
  /\ UNCHANGED <<active, beatAge, pausedSent, tickerVars>>

\* A chunk of the tracked cell restarts the silence and re-arms its gate.
RecordChunk(c) ==
  /\ IF c = active THEN chunkAge' = 0 /\ pausedSent' = FALSE
                   ELSE UNCHANGED <<chunkAge, pausedSent>>
  /\ UNCHANGED <<active, beatAge, tickerVars>>

StopTracking(c) ==
  /\ IF c = active
       THEN /\ active' = NoCell /\ chunkAge' = NoTime /\ beatAge' = NoTime
            /\ pausedSent' = FALSE
       ELSE UNCHANGED fieldVars
  /\ UNCHANGED tickerVars

-----------------------------------------------------------------------------
(* The ticker thread: stop_event.wait, then one check.                     *)

Pacing(what) == [what |-> what, cell |-> claimed]

\* Nothing is tracked: the check returns.  Otherwise it reads the clock.
Look ==
  /\ ticker = "wait" /\ due /\ ~stopped
  /\ due' = FALSE
  /\ ticker' = IF active = NoCell THEN "wait" ELSE "quiet?"
  /\ said' = {}
  /\ UNCHANGED <<fieldVars, lag, claimed, stopped>>

\* Is this the first check to find the stream quiet for long enough?
TestSilence ==
  /\ ticker = "quiet?"
  /\ ticker' = IF ~pausedSent /\ chunkAge # NoTime /\ chunkAge >= Silence + lag
                 THEN "gap" ELSE "beat?"
  /\ said' = {}
  /\ UNCHANGED <<fieldVars, due, lag, claimed, stopped>>

\* The check is over, at its end or because an exception left it.
Rest == ticker' = "wait" /\ lag' = 0 /\ claimed' = NoCell

\* The gap is computed and the payload built from what the fields hold now;
\* a command that ended since the test leaves None in the subtraction.
BuildPause ==
  /\ ticker = "gap"
  /\ IF chunkAge = NoTime
       THEN Rest
       ELSE ticker' = "pausing" /\ claimed' = active /\ UNCHANGED lag
  /\ said' = {}
  /\ UNCHANGED <<fieldVars, due, stopped>>

\* OUTPUT_STREAM_PAUSED.  If a subscriber raises the check ends here.
PublishPause(raises) ==
  /\ ticker = "pausing"
  /\ said' = {Pacing("paused")}
  /\ IF raises THEN Rest ELSE ticker' = "paused" /\ UNCHANGED <<lag, claimed>>
  /\ UNCHANGED <<fieldVars, due, stopped>>

\* Mutant: the gate is never closed.
MarkNothing ==
  /\ ticker = "paused"
  /\ ticker' = "beat?"
  /\ said' = {}
  /\ UNCHANGED <<fieldVars, due, lag, claimed, stopped>>

\* The gate is closed after the event went out, whatever happened meanwhile.
MarkPaused ==
  /\ ticker = "paused"
  /\ pausedSent' = TRUE
  /\ ticker' = "beat?"
  /\ said' = {}
  /\ UNCHANGED <<active, chunkAge, beatAge, due, lag, claimed, stopped>>

\* _started_at is None exactly while nothing is tracked.
TestInterval ==
  /\ ticker = "beat?"
  /\ IF beatAge # NoTime /\ active # NoCell /\ beatAge >= Interval + lag
       THEN ticker' = "elapsed" /\ UNCHANGED <<lag, claimed>>
       ELSE Rest
  /\ said' = {}
  /\ UNCHANGED <<fieldVars, due, stopped>>

BuildBeat ==
  /\ ticker = "elapsed"
  /\ IF active = NoCell
       THEN Rest
       ELSE ticker' = "beating" /\ claimed' = active /\ UNCHANGED lag
  /\ said' = {}
  /\ UNCHANGED <<fieldVars, due, stopped>>

PublishBeat(raises) ==
  /\ ticker = "beating"
  /\ said' = {Pacing("beat")}
  /\ IF raises THEN Rest ELSE ticker' = "beaten" /\ UNCHANGED <<lag, claimed>>
  /\ UNCHANGED <<fieldVars, due, stopped>>

\* The time the check began is stored, also over that of a newer command.
MarkBeat ==
  /\ ticker = "beaten"
  /\ beatAge' = lag
  /\ Rest
  /\ said' = {}
  /\ UNCHANGED <<active, chunkAge, pausedSent, due, stopped>>

Ticker ==
  \/ Look \/ TestSilence \/ BuildPause \/ MarkPaused
  \/ TestInterval \/ BuildBeat \/ MarkBeat
  \/ PublishPause(FALSE) \/ PublishBeat(FALSE)
  \/ MayRaise /\ (PublishPause(TRUE) \/ PublishBeat(TRUE))

\* close: the stop event ends the wait; a check that is under way goes on.
CloseMonitor ==
  /\ ~stopped /\ stopped' = TRUE
  /\ said' = {}
  /\ UNCHANGED <<fieldVars, ticker, due, lag, claimed>>

-----------------------------------------------------------------------------
(* The clock.                                                              *)

Older(age, cap) == IF age = NoTime THEN NoTime
                   ELSE IF age < cap THEN age + 1 ELSE cap

Tick ==
  /\ ticker = "wait" \/ lag < MaxLag
  /\ chunkAge' = Older(chunkAge, Silence + MaxLag)
  /\ beatAge' = Older(beatAge, Interval + MaxLag)
  /\ lag' = IF ticker = "wait" THEN 0 ELSE lag + 1
  /\ due' = TRUE
  /\ said' = {}
  /\ UNCHANGED <<active, pausedSent, ticker, claimed, stopped>>
=============================================================================
