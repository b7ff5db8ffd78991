----------------------- MODULE CommandWatchersProofs -----------------------
(***************************************************************************)
(* Proofs about CommandWatchers, for any cells, thresholds and length of a *)
(* check: what the pacing events say of a command, how often they come,    *)
(* and when a completion is told as away.                                  *)
(***************************************************************************)
EXTENDS CommandWatchers, SequenceTheorems, TLAPS

\* The focus the watcher knows is the user's, once that is announced.
FocusInv == ~unsaid => shadow = focus

\* A command that runs has a cell, and what is tracked is that cell.
TrackInv ==
  /\ alive => cell # NoCell
  /\ active # NoCell => active = cell
  /\ chunkAge # NoTime => active # NoCell

\* A check names only cells whose command ran since it began.
CheckInv ==
  /\ ticker = "wait" => claimed = NoCell
  /\ ticker \in {"pausing", "beating"} => claimed # NoCell
  /\ claimed # NoCell => claimed \in seen
  /\ ticker # "wait" /\ cell # NoCell => cell \in seen

\* Once a pause was heard the gate is closed, or the check is about to close it.
StretchInv ==
  /\ ticker \in {"gap", "pausing"} => ~pauseHeard
  /\ pauseHeard => pausedSent \/ ticker = "paused"

\* The time stamp of the last beat is no older than that beat, but for a check.
BeatInv ==
  /\ ticker # "beaten" => \/ beatAge = NoTime
                          \/ sinceBeat = Interval
                          \/ beatAge <= sinceBeat + MaxLag
  /\ ticker \in {"elapsed", "beating"} => sinceBeat + MaxLag >= Interval

IInv == TypeOK /\ FocusInv /\ TrackInv /\ CheckInv /\ StretchInv /\ BeatInv
-----------------------------------------------------------------------------
(* Types. *)

\* A tick keeps an age an age.
LEMMA OlderIsAge ==
  ASSUME NEW n \in Nat, NEW age \in Ages(n) \cup {NoTime}
  PROVE  Older(age, n + MaxLag) \in Ages(n) \cup {NoTime}
BY MonitorAssumption DEF Ages, Older

\* Marking lines as old keeps how many there are.
LEMMA AgedLines ==
  ASSUME NEW s \in Seq({"old", "own"})
  PROVE  /\ [i \in DOMAIN s |-> "old"] \in Seq({"old", "own"})
         /\ Len([i \in DOMAIN s |-> "old"]) = Len(s)
<1>1. DOMAIN s = 1..Len(s) /\ Len(s) \in Nat
  OBVIOUS
<1>2. [i \in 1..Len(s) |-> "old"] \in Seq({"old", "own"})
  BY <1>1, IsASeq
<1> QED
  BY <1>1, <1>2

\* What leaves the monitor alone leaves its types alone.
LEMMA SameMonitor == MonitorTypeOK /\ UNCHANGED monitorVars => MonitorTypeOK'
BY DEF MonitorTypeOK, monitorVars, fieldVars, tickerVars

\* The world and its history after a step of the worker.
LEMMA WorkerTypes == TypeOK /\ TrackInv /\ Worker => TypeOK'
<1> SUFFICES ASSUME TypeOK, TrackInv, Worker PROVE TypeOK'
  OBVIOUS
<1>0. /\ Runnable \subseteq Cells /\ NoCell \notin Cells /\ 0 \in Ages(Silence)
      /\ 0 \in Ages(Interval)
  BY MonitorAssumption, WatchersAssumption DEF Ages
<1>1. ASSUME NEW c \in Runnable, Start(c) PROVE TypeOK'
  <2>1. errors' = [errors EXCEPT ![c] = [i \in DOMAIN @ |-> "old"]]
    BY <1>1 DEF Start
  <2>2. ASSUME NEW d \in Runnable
        PROVE  errors'[d] \in Seq({"old", "own"}) /\ Len(errors'[d]) <= MaxErrors
    BY <2>1, AgedLines DEF TypeOK
  <2>3. errors' \in [Runnable -> Seq({"old", "own"})]
    BY <2>1, <2>2 DEF TypeOK
  <2>4. MonitorTypeOK'
    BY <1>0, <1>1 DEF Start, StartTracking, tickerVars, TypeOK, MonitorTypeOK
  <2> QED
    BY <1>1, <2>2, <2>3, <2>4 DEF Start, TypeOK, userVars, NewStretch
<1>2. ASSUME NEW c, RecordChunk(c) PROVE MonitorTypeOK'
  BY <1>0, <1>2 DEF RecordChunk, tickerVars, TypeOK, MonitorTypeOK
<1>3. CASE OutputChunk
  BY <1>2, <1>3 DEF OutputChunk, TypeOK, worldVars, userVars, NewStretch
<1>4. CASE ErrorChunk
  <2>1. cell \in Runnable /\ Len(errors[cell]) < MaxErrors
        /\ errors' = [errors EXCEPT ![cell] = Append(@, "own")]
    BY <1>4 DEF ErrorChunk, TypeOK, TrackInv
  <2>2. errors[cell] \in Seq({"old", "own"}) /\ Len(errors[cell]) \in Nat
    BY <2>1 DEF TypeOK
  <2>3. /\ Append(errors[cell], "own") \in Seq({"old", "own"})
        /\ Len(Append(errors[cell], "own")) <= MaxErrors
    BY <2>1, <2>2, WatchersAssumption
  <2>4. ASSUME NEW d \in Runnable
        PROVE  errors'[d] \in Seq({"old", "own"}) /\ Len(errors'[d]) <= MaxErrors
    BY <2>1, <2>3 DEF TypeOK
  <2>5. errors' \in [Runnable -> Seq({"old", "own"})]
    BY <2>1, <2>4 DEF TypeOK
  <2> QED
    BY <1>2, <1>4, <2>4, <2>5 DEF ErrorChunk, TypeOK, userVars, NewStretch
<1>5. ASSUME NEW how, End(how) PROVE TypeOK'
  <2>1. MonitorTypeOK'
    BY <1>5 DEF End, StopTracking, fieldVars, tickerVars, TypeOK, MonitorTypeOK
  <2> QED
    BY <1>5, <2>1 DEF End, TypeOK, userVars, NewStretch
<1>6. CASE Abandon
  <2>1. MonitorTypeOK'
    BY <1>6, SameMonitor DEF Abandon, TypeOK
  <2> QED
    BY <1>6, <2>1 DEF Abandon, TypeOK, userVars, ghostVars
<1> QED
  BY <1>1, <1>3, <1>4, <1>5, <1>6 DEF Worker

\* A step of the ticker thread and its history.
LEMMA TickerTypes == TypeOK /\ TickerStep => TypeOK'
<1> SUFFICES ASSUME TypeOK, TickerStep PROVE TypeOK'
  OBVIOUS
<1>1. MonitorTypeOK'
  <2>1. lag \in Ages(Interval) /\ 0 \in 0 .. MaxLag
    BY MonitorAssumption DEF TypeOK, MonitorTypeOK, Ages
  <2>2. CASE Look \/ TestSilence \/ BuildPause
    BY <2>1, <2>2 DEF TypeOK, MonitorTypeOK, Look, TestSilence, BuildPause, Rest, fieldVars
  <2>3. CASE MarkPaused \/ TestInterval \/ BuildBeat \/ MarkBeat
    BY <2>1, <2>3 DEF TypeOK, MonitorTypeOK, MarkPaused, TestInterval, BuildBeat, MarkBeat,
                      Rest, fieldVars
  <2>4. ASSUME NEW raises \in BOOLEAN, PublishPause(raises) \/ PublishBeat(raises)
        PROVE  MonitorTypeOK'
    BY <2>1, <2>4 DEF TypeOK, MonitorTypeOK, PublishPause, PublishBeat, Rest, fieldVars
  <2> QED
    BY <2>2, <2>3, <2>4 DEF TickerStep, Ticker
<1>2. seen' \subseteq Runnable
  BY DEF TickerStep, TypeOK
<1>3. sinceBeat' \in 0 .. Interval
  BY MonitorAssumption DEF TickerStep, TypeOK
<1>4. pauseHeard' \in BOOLEAN
  BY DEF TickerStep, TypeOK
<1> QED
  BY <1>1, <1>2, <1>3, <1>4 DEF TickerStep, TypeOK, worldVars, userVars

\* A tick of the clock.
LEMMA ClockTypes == TypeOK /\ ClockStep => TypeOK'
<1> SUFFICES ASSUME TypeOK, ClockStep PROVE TypeOK'
  OBVIOUS
<1>1. Silence \in Nat /\ Interval \in Nat /\ MaxLag \in Nat
  BY MonitorAssumption
<1>2. chunkAge' \in Ages(Silence) \cup {NoTime} /\ beatAge' \in Ages(Interval) \cup {NoTime}
  BY <1>1, OlderIsAge DEF ClockStep, Tick, TypeOK, MonitorTypeOK
<1>3. lag' \in 0 .. MaxLag
  BY <1>1 DEF ClockStep, Tick, TypeOK, MonitorTypeOK
<1>4. sinceBeat' \in 0 .. Interval
  BY <1>1 DEF ClockStep, TypeOK
<1> QED
  BY <1>2, <1>3, <1>4 DEF ClockStep, Tick, TypeOK, MonitorTypeOK, worldVars, userVars

\* Every step keeps the types.
LEMMA NextTypes == TypeOK /\ TrackInv /\ [Next]_vars => TypeOK'
<1> SUFFICES ASSUME TypeOK, TrackInv, [Next]_vars PROVE TypeOK'
  OBVIOUS
<1>1. CASE User
  <2>1. MonitorTypeOK'
    BY <1>1, SameMonitor DEF User, MoveFocus, AnnounceFocus, TypeOK
  <2> QED
    BY <1>1, <2>1 DEF User, MoveFocus, AnnounceFocus, TypeOK, worldVars, ghostVars
<1>2. CASE CloseStep
  BY <1>2 DEF CloseStep, CloseMonitor, TypeOK, MonitorTypeOK, fieldVars, worldVars, userVars,
              ghostVars
<1>3. CASE UNCHANGED vars
  BY <1>3 DEF vars, TypeOK, MonitorTypeOK, monitorVars, fieldVars, tickerVars, worldVars,
              userVars, ghostVars
<1> QED
  BY <1>1, <1>2, <1>3, WorkerTypes, TickerTypes, ClockTypes DEF Next
-----------------------------------------------------------------------------
(* The invariant. *)

\* It holds at first.
LEMMA InitInv == Init => IInv
<1> SUFFICES ASSUME Init PROVE IInv
  OBVIOUS
<1>1. TypeOK
  <2>1. MonitorTypeOK
    <3>1. 0 \in 0 .. MaxLag
      BY MonitorAssumption
    <3> QED
      BY <3>1 DEF Init, MonitorInit, MonitorTypeOK
  <2>2. <<>> \in Seq({"old", "own"}) /\ Len(<<>>) <= MaxErrors
    BY WatchersAssumption
  <2>3. sinceBeat \in 0 .. Interval
    BY MonitorAssumption DEF Init
  <2>4. /\ errors \in [Runnable -> Seq({"old", "own"})]
        /\ \A c \in Runnable : Len(errors[c]) <= MaxErrors
    BY <2>2 DEF Init
  <2> QED
    BY <2>1, <2>3, <2>4 DEF Init, TypeOK
<1>2. FocusInv /\ TrackInv /\ CheckInv /\ StretchInv /\ BeatInv
  BY DEF Init, MonitorInit, FocusInv, TrackInv, CheckInv, StretchInv, BeatInv
<1> QED
  BY <1>1, <1>2 DEF IInv

\* The announcement of the focus.
LEMMA FocusStep == FocusInv /\ [Next]_vars => FocusInv'
BY DEF FocusInv, Next, vars, Worker, Start, OutputChunk, ErrorChunk, End, Abandon, User,
       MoveFocus, AnnounceFocus, TickerStep, ClockStep, CloseStep, userVars

\* What is tracked is the cell that runs, before and after every step.
LEMMA TrackStep == TypeOK /\ TrackInv /\ [Next]_vars => TrackInv'
<1> SUFFICES ASSUME TypeOK, TrackInv, [Next]_vars PROVE TrackInv'
  OBVIOUS
<1>0. NoCell \notin Runnable
  BY MonitorAssumption, WatchersAssumption
<1>1. ASSUME NEW c \in Runnable, Start(c) PROVE TrackInv'
  BY <1>0, <1>1 DEF Start, StartTracking, TrackInv
<1>2. CASE OutputChunk \/ ErrorChunk
  BY <1>2 DEF OutputChunk, ErrorChunk, RecordChunk, TrackInv, worldVars
<1>3. ASSUME NEW how, End(how) PROVE TrackInv'
  BY <1>3 DEF End, StopTracking, fieldVars, TrackInv
<1>4. CASE Abandon
  BY <1>4 DEF Abandon, monitorVars, fieldVars, TrackInv
<1>5. CASE TickerStep
  <2>1. UNCHANGED <<cell, alive, active, chunkAge>>
    BY <1>5 DEF TickerStep, Ticker, worldVars, fieldVars, Look, TestSilence, BuildPause,
       MarkPaused, TestInterval, BuildBeat, MarkBeat, PublishPause, PublishBeat
  <2> QED
    BY <2>1 DEF TrackInv
<1>6. CASE ClockStep
  BY <1>6 DEF ClockStep, Tick, Older, worldVars, TrackInv
<1>7. CASE User \/ CloseStep \/ UNCHANGED vars
  BY <1>7 DEF User, MoveFocus, AnnounceFocus, CloseStep, CloseMonitor, vars, monitorVars,
     fieldVars, worldVars, TrackInv
<1> QED
  BY <1>1, <1>2, <1>3, <1>4, <1>5, <1>6, <1>7 DEF Next, Worker

\* A check claims only cells that ran since it began.
LEMMA CheckStep == TypeOK /\ TrackInv /\ CheckInv /\ [Next]_vars => CheckInv'
<1> SUFFICES ASSUME TypeOK, TrackInv, CheckInv, [Next]_vars PROVE CheckInv'
  OBVIOUS
<1>1. ASSUME NEW c \in Runnable, Start(c) PROVE CheckInv'
  BY <1>1 DEF Start, StartTracking, tickerVars, CheckInv
<1>2. CASE OutputChunk \/ ErrorChunk
  BY <1>2 DEF OutputChunk, ErrorChunk, RecordChunk, tickerVars, worldVars, CheckInv
<1>3. ASSUME NEW how, End(how) PROVE CheckInv'
  BY <1>3 DEF End, StopTracking, tickerVars, CheckInv
<1>4. CASE Abandon
  BY <1>4 DEF Abandon, monitorVars, tickerVars, ghostVars, CheckInv
<1>5. CASE TickerStep
  <2>0. UNCHANGED cell /\ seen' = CASE ticker' = "wait" -> {}
                                    [] ticker = "wait"  -> Runnable \cap {cell}
                                    [] OTHER            -> seen
    BY <1>5 DEF TickerStep, worldVars
  <2>1. CASE Look
    <3>1. ticker = "wait" /\ claimed' = claimed /\ claimed = NoCell
          /\ ticker' \in {"wait", "quiet?"}
      BY <2>1 DEF Look, CheckInv
    <3>2. ticker' = "quiet?" => seen' = Runnable \cap {cell}
      BY <2>0, <3>1
    <3> QED
      BY <2>0, <3>1, <3>2 DEF CheckInv, TypeOK
  <2>2. CASE ticker' = "wait" /\ claimed' = NoCell
    BY <2>2 DEF CheckInv
  <2>3. CASE ticker # "wait" /\ ticker' # "wait" /\ claimed' = claimed
             /\ ticker' \notin {"pausing", "beating"}
    <3>1. seen' = seen
      BY <2>0, <2>3
    <3> QED
      BY <2>0, <2>3, <3>1 DEF CheckInv
  <2>4. CASE ticker # "wait" /\ ticker' # "wait" /\ claimed' = active /\ active # NoCell
    <3>1. seen' = seen
      BY <2>0, <2>4
    <3> QED
      BY <2>0, <2>4, <3>1 DEF CheckInv, TrackInv
  <2>5. CASE TestSilence
    BY <2>3, <2>5 DEF TestSilence
  <2>6. CASE BuildPause
    BY <2>2, <2>4, <2>6 DEF BuildPause, Rest, TrackInv
  <2>7. ASSUME NEW raises \in BOOLEAN, PublishPause(raises) PROVE CheckInv'
    BY <2>2, <2>3, <2>7 DEF PublishPause, Rest
  <2>8. CASE MarkPaused
    BY <2>3, <2>8 DEF MarkPaused
  <2>9. CASE TestInterval
    BY <2>2, <2>3, <2>9 DEF TestInterval, Rest
  <2>10. CASE BuildBeat
    BY <2>2, <2>4, <2>10 DEF BuildBeat, Rest
  <2>11. ASSUME NEW raises \in BOOLEAN, PublishBeat(raises) PROVE CheckInv'
    BY <2>2, <2>3, <2>11 DEF PublishBeat, Rest
  <2>12. CASE MarkBeat
    BY <2>2, <2>12 DEF MarkBeat, Rest
  <2> QED
    BY <1>5, <2>1, <2>5, <2>6, <2>7, <2>8, <2>9, <2>10, <2>11, <2>12 DEF TickerStep, Ticker
<1>6. CASE ClockStep \/ User \/ CloseStep \/ UNCHANGED vars
  <2>1. UNCHANGED <<ticker, claimed, seen, cell>>
    BY <1>6 DEF ClockStep, Tick, User, MoveFocus, AnnounceFocus, CloseStep, CloseMonitor, vars,
       monitorVars, tickerVars, worldVars, ghostVars
  <2> QED
    BY <2>1 DEF CheckInv
<1> QED
  BY <1>1, <1>2, <1>3, <1>4, <1>5, <1>6 DEF Next, Worker

\* A stretch of silence is heard of at most once.
LEMMA StretchStep == StretchInv /\ [Next]_vars => StretchInv'
<1> SUFFICES ASSUME StretchInv, [Next]_vars PROVE StretchInv'
  OBVIOUS
<1>1. CASE NewStretch
  BY <1>1 DEF NewStretch, StretchInv
<1>2. CASE UNCHANGED <<ticker, pauseHeard, pausedSent>>
  BY <1>2 DEF StretchInv
<1>3. CASE TickerStep
  <2>0. pauseHeard' = (pauseHeard \/ ticker' = "paused")
    BY <1>3 DEF TickerStep
  <2>1. CASE TestSilence
    BY <2>0, <2>1 DEF TestSilence, fieldVars, StretchInv
  <2>2. CASE MarkPaused
    BY <2>0, <2>2 DEF MarkPaused, StretchInv
  <2>3. CASE Look
    BY <2>0, <2>3 DEF Look, fieldVars, StretchInv
  <2>4. CASE BuildPause
    BY <2>0, <2>4 DEF BuildPause, Rest, fieldVars, StretchInv
  <2>5. ASSUME NEW raises \in BOOLEAN, PublishPause(raises) PROVE StretchInv'
    BY <2>0, <2>5 DEF PublishPause, Rest, fieldVars, StretchInv
  <2>6. CASE TestInterval \/ BuildBeat \/ MarkBeat
    BY <2>0, <2>6 DEF TestInterval, BuildBeat, MarkBeat, Rest, fieldVars, StretchInv
  <2>7. ASSUME NEW raises \in BOOLEAN, PublishBeat(raises) PROVE StretchInv'
    BY <2>0, <2>7 DEF PublishBeat, Rest, fieldVars, StretchInv
  <2> QED
    BY <1>3, <2>1, <2>2, <2>3, <2>4, <2>5, <2>6, <2>7 DEF TickerStep, Ticker
<1> QED
  BY <1>1, <1>2, <1>3 DEF Next, vars, Worker, Start, OutputChunk, ErrorChunk, End, Abandon, User,
     MoveFocus, AnnounceFocus, ClockStep, Tick, CloseStep, CloseMonitor, monitorVars, fieldVars,
     tickerVars, ghostVars

\* The age of the last beat's time stamp, where it is about to be looked at.
LEMMA BeatStep == TypeOK /\ BeatInv /\ [Next]_vars => BeatInv'
<1> SUFFICES ASSUME TypeOK, BeatInv, [Next]_vars PROVE BeatInv'
  OBVIOUS
<1>0. /\ Interval \in Nat \ {0} /\ MaxLag \in Nat /\ NoTime \notin Nat
      /\ sinceBeat \in 0 .. Interval /\ lag \in 0 .. MaxLag
      /\ beatAge \in 0 .. Interval + MaxLag \/ beatAge = NoTime
  BY MonitorAssumption DEF TypeOK, MonitorTypeOK, Ages
<1>1. ASSUME NEW c \in Runnable, Start(c) PROVE BeatInv'
  BY <1>0, <1>1 DEF Start, StartTracking, tickerVars, BeatInv
<1>2. CASE UNCHANGED <<ticker, sinceBeat>> /\ beatAge' \in {beatAge, NoTime}
  BY <1>0, <1>2 DEF BeatInv
<1>3. CASE TickerStep
  <2>0. sinceBeat' = IF ticker' = "beaten" THEN 0 ELSE sinceBeat
    BY <1>3 DEF TickerStep
  <2>1. CASE /\ ticker # "beaten" /\ UNCHANGED beatAge
             /\ ticker' \notin {"elapsed", "beating", "beaten"}
    BY <2>0, <2>1 DEF BeatInv
  <2>2. CASE TestInterval /\ ticker' = "elapsed"
    <3>1. beatAge # NoTime /\ beatAge >= Interval + lag /\ UNCHANGED beatAge
          /\ ticker # "beaten" /\ sinceBeat' = sinceBeat
      BY <2>0, <2>2 DEF TestInterval, Rest, fieldVars
    <3>2. beatAge \in Nat /\ (sinceBeat = Interval \/ beatAge <= sinceBeat + MaxLag)
      BY <1>0, <3>1 DEF BeatInv
    <3>3. sinceBeat + MaxLag >= Interval
      BY <1>0, <3>1, <3>2
    <3> QED
      BY <2>2, <3>1, <3>2, <3>3 DEF BeatInv
  <2>3. CASE TestInterval /\ ticker' = "wait"
    BY <2>1, <2>3 DEF TestInterval, fieldVars
  <2>4. CASE BuildBeat
    BY <2>0, <2>4 DEF BuildBeat, Rest, fieldVars, BeatInv
  <2>5. ASSUME NEW raises \in BOOLEAN, PublishBeat(raises) PROVE BeatInv'
    BY <2>0, <2>5 DEF PublishBeat, Rest, fieldVars, BeatInv
  <2>6. CASE MarkBeat
    BY <1>0, <2>0, <2>6 DEF MarkBeat, Rest, BeatInv
  <2>7. CASE Look \/ TestSilence \/ BuildPause \/ MarkPaused
    BY <2>1, <2>7 DEF Look, TestSilence, BuildPause, MarkPaused, Rest, fieldVars
  <2>8. ASSUME NEW raises \in BOOLEAN, PublishPause(raises) PROVE BeatInv'
    BY <2>1, <2>8 DEF PublishPause, Rest, fieldVars
  <2>9. TestInterval => ticker' \in {"elapsed", "wait"}
    BY DEF TestInterval, Rest
  <2> QED
    BY <1>3, <2>2, <2>3, <2>4, <2>5, <2>6, <2>7, <2>8, <2>9 DEF TickerStep, Ticker
<1>4. CASE ClockStep
  <2>1. /\ ticker' = ticker
        /\ beatAge' = Older(beatAge, Interval + MaxLag)
        /\ sinceBeat' = IF sinceBeat < Interval THEN sinceBeat + 1 ELSE Interval
    BY <1>4 DEF ClockStep, Tick
  <2>2. sinceBeat' >= sinceBeat /\ (sinceBeat' = Interval \/ sinceBeat' = sinceBeat + 1)
    BY <1>0, <2>1
  <2>3. beatAge = NoTime => beatAge' = NoTime
    BY <2>1 DEF Older
  <2>4. beatAge # NoTime => beatAge' \in Nat /\ beatAge' <= beatAge + 1
    BY <1>0, <2>1 DEF Older
  <2>5. sinceBeat = Interval => sinceBeat' = Interval
    BY <1>0, <2>1
  <2>6. ASSUME beatAge # NoTime, beatAge <= sinceBeat + MaxLag, sinceBeat' # Interval
        PROVE  beatAge' <= sinceBeat' + MaxLag
    BY <1>0, <2>2, <2>4, <2>6
  <2>7. sinceBeat + MaxLag >= Interval => sinceBeat' + MaxLag >= Interval
    BY <1>0, <2>1
  <2> QED
    BY <2>1, <2>3, <2>5, <2>6, <2>7 DEF BeatInv
<1> QED
  BY <1>1, <1>2, <1>3, <1>4 DEF Next, vars, Worker, OutputChunk, ErrorChunk, RecordChunk, End,
     StopTracking, Abandon, User, MoveFocus, AnnounceFocus, CloseStep, CloseMonitor, monitorVars,
     fieldVars, tickerVars, ghostVars

\* The types and the agreements of the monitor with the worker, the check with
\* the fields, and the watcher with the focus are an invariant.
THEOREM Invariance == Spec => []IInv
<1>1. IInv /\ [Next]_vars => IInv'
  BY NextTypes, FocusStep, TrackStep, CheckStep, StretchStep, BeatStep DEF IInv
<1> QED
  BY <1>1, InitInv, PTL DEF Spec
-----------------------------------------------------------------------------
(* What follows. *)

\* The type invariant of the watchers holds.
THEOREM TypeCorrect == Spec => []TypeOK
<1>1. IInv => TypeOK
  BY DEF IInv
<1> QED
  BY <1>1, Invariance, PTL

\* What the steps of the ticker say is what the check claims.
LEMMA PacingIsClaimed ==
  ASSUME [Next]_vars, vars' # vars, NEW e \in said', e.what \in {"paused", "beat"}
  PROVE  /\ TickerStep
         /\ e = Pacing(e.what)
         /\ e.what = "paused" => ticker = "pausing"
         /\ e.what = "beat" => ticker = "beating"
<1>1. ASSUME Worker PROVE FALSE
  <2>1. ASSUME NEW how \in {"completed", "failed", "cancelled"}, End(how) PROVE FALSE
    <3>1. e.what \in {how, "tail", "away"}
      BY <2>1 DEF End, StderrTail, Away
    <3> QED
      BY <2>1, <3>1
  <2> QED
    BY <1>1, <2>1 DEF Worker, Start, OutputChunk, ErrorChunk, Abandon
<1>2. ASSUME User \/ ClockStep \/ CloseStep PROVE FALSE
  BY <1>2 DEF User, MoveFocus, AnnounceFocus, ClockStep, Tick, CloseStep, CloseMonitor
<1>3. TickerStep
  BY <1>1, <1>2 DEF Next
<1>4. PICK raises \in BOOLEAN : PublishPause(raises) \/ PublishBeat(raises)
  BY <1>3 DEF TickerStep, Ticker, Look, TestSilence, BuildPause, MarkPaused, TestInterval,
              BuildBeat, MarkBeat
<1> QED
  BY <1>3, <1>4 DEF PublishPause, PublishBeat, Pacing

\* A pacing event names a cell that had a command during the check.
THEOREM PacingIsTrue == Spec => NamesARunningCell
<1>1. IInv /\ [Next]_vars =>
        [\A e \in said' : e.what \in {"paused", "beat"} => e.cell \in seen]_vars
  <2> SUFFICES ASSUME IInv, [Next]_vars, vars' # vars,
                      NEW e \in said', e.what \in {"paused", "beat"}
               PROVE  e.cell \in seen
    OBVIOUS
  <2>1. ticker \in {"pausing", "beating"} /\ e.cell = claimed
    BY PacingIsClaimed DEF Pacing
  <2> QED
    BY <2>1 DEF IInv, CheckInv
<1> QED
  BY <1>1, Invariance, PTL DEF Spec, NamesARunningCell

\* No second pause is published in a quiet stretch in which one was delivered.
THEOREM PauseOncePerStretch == Spec => OncePerStretch
<1>1. IInv /\ [Next]_vars => [Names("paused") # {} => ~pauseHeard]_vars
  <2> SUFFICES ASSUME IInv, [Next]_vars, vars' # vars, Names("paused") # {}
               PROVE  ~pauseHeard
    OBVIOUS
  <2>1. PICK e \in said' : e.what = "paused"
    BY DEF Names
  <2> QED
    BY <2>1, PacingIsClaimed DEF IInv, StretchInv
<1> QED
  BY <1>1, Invariance, PTL DEF Spec, OncePerStretch

\* Two beats are at least the interval apart, less the time a check may take.
THEOREM BeatsKeepDistance == Spec => BeatsAreSpaced
<1>1. IInv /\ [Next]_vars => [Names("beat") # {} => sinceBeat + MaxLag >= Interval]_vars
  <2> SUFFICES ASSUME IInv, [Next]_vars, vars' # vars, Names("beat") # {}
               PROVE  sinceBeat + MaxLag >= Interval
    OBVIOUS
  <2>1. PICK e \in said' : e.what = "beat"
    BY DEF Names
  <2> QED
    BY <2>1, PacingIsClaimed DEF IInv, BeatInv
<1> QED
  BY <1>1, Invariance, PTL DEF Spec, BeatsAreSpaced

\* A completion is told as away exactly if the user is at another cell.
THEOREM AwayTellsTheTruth == Spec => AwayIsTrue
<1>1. IInv /\ [Next]_vars =>
        [\A e \in said' : e.what \in {"completed", "failed"} /\ ~unsaid =>
           ((Names("away") # {}) <=> (focus \notin {e.cell, NoCell}))]_vars
  <2> SUFFICES ASSUME IInv, [Next]_vars, vars' # vars, NEW e \in said',
                      e.what \in {"completed", "failed"}, ~unsaid
               PROVE  (Names("away") # {}) <=> (focus \notin {e.cell, NoCell})
    OBVIOUS
  <2>1. PICK how \in {"completed", "failed", "cancelled"} : End(how)
    BY DEF Next, Worker, Start, OutputChunk, ErrorChunk, Abandon, User, MoveFocus,
       AnnounceFocus, ClockStep, Tick, CloseStep, CloseMonitor, TickerStep, Ticker, Look,
       TestSilence, BuildPause, MarkPaused, TestInterval, BuildBeat, MarkBeat, PublishPause,
       PublishBeat, Pacing
  <2>2. how # "cancelled" /\ e.cell = cell
    BY <2>1 DEF End, StderrTail, Away
  <2>3. shadow = focus
    BY DEF IInv, FocusInv
  <2>4. \A a \in said' : a.what = "away" <=> a \in Away(cell)
    BY <2>1 DEF End, StderrTail, Away
  <2>5. Away(cell) \subseteq said'
    BY <2>1, <2>2 DEF End
  <2>6. Names("away") = Away(cell)
    BY <2>4, <2>5 DEF Names
  <2> QED
    BY <2>2, <2>3, <2>6 DEF Away
<1> QED
  BY <1>1, Invariance, PTL DEF Spec, AwayIsTrue
=============================================================================
