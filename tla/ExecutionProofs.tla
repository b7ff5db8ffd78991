--------------------------- MODULE ExecutionProofs ---------------------------
(***************************************************************************)
(* Theorems about Execution, for any set of cells and any bounds.  None of *)
(* the safety properties is inductive; IInv is, and it implies each.       *)
(***************************************************************************)
EXTENDS Execution, SequenceTheorems, TLAPS

\* The worker is inside ExecutionKernel.execute.
InExecute == {"submit", "start", "launch", "run", "check", "errchunk", "publish",
              "clear"}

\* What each place of the two threads says about the other variables.
Control ==
  /\ bus = "main" <=> upc \in {"cancel", "signal"}
  /\ upc \in {"moving", "count", "put", "announce", "cancel", "signal"} => ucell \in Cells
  /\ closed <=> upc \in {"join", "save", "teardown", "exited"}
  /\ Holding => wcell \in Cells
  /\ active = IF wpc \in InExecute THEN wcell ELSE NoCell

\* Only the last element of the queue can be the sentinel, and only once the
\* worker is closed; the thread that took the sentinel left nothing behind.
QueueShape ==
  /\ \A i \in 1..Len(queue) : i < Len(queue) => queue[i] \in Cells
  /\ StopQueued => closed
  /\ wpc = "stopped" => closed /\ queue = <<>>

\* How far the markers of the kernel, the cancels it granted and the terminal
\* event it is about to publish agree, at each place of the worker.
CancelState ==
  /\ \A g \in granted : g[1] <= begun
  /\ wpc = "enter" => \A b \in BOOLEAN : <<begun, b>> \notin granted
  /\ BeforeCheck => (wcell \in cancelled <=> <<begun, TRUE>> \in granted)
  /\ wpc \in {"errchunk", "publish"} =>
       /\ outcome = "cancelled" => <<begun, TRUE>> \in granted
       /\ <<begun, TRUE>> \in granted => outcome \in {"cancelled", "unlaunched"}
  /\ wpc = "errchunk" => outcome = "unlaunched"
  /\ upc = "signal" /\ wpc \in {"start", "launch", "run", "check"}
       => <<begun, TRUE>> \in granted

\* The worker has begun a run and not narrated it yet.
Unnarrated == {"enter", "submit", "start", "launch", "run", "check", "errchunk",
               "publish"}

\* A run is narrated after it began, and not before its end.
RunsNarrated ==
  \A i \in DOMAIN narrated :
    /\ narrated[i].run <= begun
    /\ wpc \in Unnarrated => narrated[i].run < begun

\* No shell was left in the middle of a command.
Aligned == runner = "process" \/ torn = {}

\* Then the runner has at most the command of the current run, and what waits in
\* the pipe is that command's, its end last; between two runs nothing waits,
\* except for what a command left unfinished by the shell's death.
InStep ==
  /\ jobs # <<>> => jobs = <<begun>> /\ wpc = "run"
  /\ wpc = "run" => \A i \in DOMAIN pipe :
                      /\ pipe[i].run = begun
                      /\ pipe[i].end => jobs = <<>> /\ i = Len(pipe)
  /\ wpc # "run" => pipe = <<>> \/ (child = "gone" /\ NoEnd)

\* Commands and output.  Once a shell was left in the middle of a command, all
\* that it runs and all that waits in the pipe is of that run or of later ones.
OutputState ==
  /\ torn \subseteq 0..begun
  /\ jobs # <<>> <=> child \in {"fresh", "alive"}
  /\ Aligned => InStep
  /\ ~Aligned => /\ \A i \in DOMAIN jobs : Astray(jobs[i])
                 /\ \A i \in DOMAIN pipe : Astray(pipe[i].run)

\* The submissions begun and the cells still queued are all that was accepted.
AllAccounted == accepted = begun + Backlog

IInv ==
  /\ TypeOK /\ Control /\ QueueShape /\ InflightExact /\ AllAccounted
  /\ CancelState /\ RunsNarrated /\ OutputState
  /\ CancelHitsItsTarget /\ CancelledWasAsked /\ EarlyCancelIsNarrated

-----------------------------------------------------------------------------

(* Types. *)

\* The initial values have the types.
LEMMA TypeInit == Init => TypeOK
<1> SUFFICES ASSUME Init PROVE TypeOK
  OBVIOUS
<1>1. CellTypes
  BY DEF Init, CellTypes, Statuses
<1>2. WorkerTypes /\ HistoryTypes /\ ChildTypes
  BY EmptySeq DEF Init, WorkerTypes, HistoryTypes, ChildTypes
<1>3. ThreadTypes /\ KernelTypes /\ MainTypes /\ BoundTypes
  BY DEF Init, ThreadTypes, KernelTypes, MainTypes, BoundTypes,
         Outcomes, WorkerPCs, MainPCs
<1> QED
  BY <1>1, <1>2, <1>3 DEF TypeOK

\* A step that leaves a group of variables alone keeps the types of that group.
LEMMA TypesFramed ==
  ASSUME TypeOK
  PROVE  /\ UNCHANGED cellVars => CellTypes'
         /\ UNCHANGED workerVars => WorkerTypes'
         /\ UNCHANGED threadVars => ThreadTypes'
         /\ UNCHANGED kernelVars => KernelTypes'
         /\ UNCHANGED childVars => ChildTypes'
         /\ UNCHANGED mainVars => MainTypes'
         /\ UNCHANGED bounds => BoundTypes'
         /\ UNCHANGED history => HistoryTypes'
<1>1. UNCHANGED cellVars => CellTypes'
  BY DEF TypeOK, CellTypes, cellVars
<1>2. UNCHANGED workerVars => WorkerTypes'
  BY DEF TypeOK, WorkerTypes, workerVars
<1>3. UNCHANGED threadVars => ThreadTypes'
  BY DEF TypeOK, ThreadTypes, threadVars
<1>4. UNCHANGED kernelVars => KernelTypes'
  BY DEF TypeOK, KernelTypes, kernelVars
<1>5. UNCHANGED childVars => ChildTypes'
  BY DEF TypeOK, ChildTypes, childVars
<1>6. UNCHANGED mainVars => MainTypes'
  BY DEF TypeOK, MainTypes, mainVars
<1>7. UNCHANGED bounds => BoundTypes'
  BY DEF TypeOK, BoundTypes, bounds
<1>8. UNCHANGED history => HistoryTypes'
  BY DEF TypeOK, HistoryTypes, history
<1> QED
  BY <1>1, <1>2, <1>3, <1>4, <1>5, <1>6, <1>7, <1>8

\* Cell.update_command keeps the types.
LEMMA UpdateCommandTypes ==
  ASSUME TypeOK, NEW c \in Cells, UpdateCommand(c), UNCHANGED members
  PROVE  CellTypes' /\ edits' \in Nat
  BY DEF TypeOK, CellTypes, BoundTypes, UpdateCommand, Statuses

\* So does the recording of a result.
LEMMA RecordTypes ==
  ASSUME TypeOK, NEW s \in Statuses, NEW o \in Outcomes, Record(s, o)
  PROVE  CellTypes' /\ outcome' \in Outcomes
  BY DEF TypeOK, CellTypes, ThreadTypes, Record

\* The number of queued cells is a natural number.
LEMMA BacklogType ==
  ASSUME TypeOK
  PROVE  Backlog \in Nat
  BY EmptySeq, LenProperties DEF TypeOK, WorkerTypes, Backlog, StopQueued

\* While a cell is held, the counter is positive.
LEMMA HeldIsCounted ==
  ASSUME TypeOK, InflightExact, Holding
  PROVE  inflight \in Nat \ {0}
  BY BacklogType DEF TypeOK, WorkerTypes, InflightExact

\* The command in the foreground is the first of the runner's.
LEMMA ForegroundRun ==
  ASSUME TypeOK, OutputState, child = "alive"
  PROVE  jobs # <<>> /\ Head(jobs) \in Nat /\ Head(jobs) = jobs[1] /\ 1 \in DOMAIN jobs
  BY HeadTailProperties, LenProperties, EmptySeq DEF TypeOK, ChildTypes, OutputState

\* Every action keeps every variable in its type.
LEMMA TypeStep == TypeOK /\ Control /\ InflightExact /\ OutputState /\ [Next]_vars
                  => TypeOK'
<1> SUFFICES ASSUME TypeOK, Control, InflightExact, OutputState, [Next]_vars
             PROVE  TypeOK'
  OBVIOUS
<1> USE TypesFramed DEF TypeOK
<1>1. ASSUME NEW c \in Cells, Submit(c) PROVE TypeOK'
  <2>1. CASE UpdateCommand(c)
    <3>1. CellTypes' /\ edits' \in Nat
      BY <1>1, <2>1, UpdateCommandTypes DEF Submit
    <3> QED
      BY <1>1, <3>1 DEF Submit, MainTypes, MainPCs, BoundTypes
  <2>2. CASE UNCHANGED <<status, version, shown, edits>>
    <3>1. UNCHANGED cellVars /\ UNCHANGED bounds
      BY <1>1, <2>2 DEF Submit, cellVars, bounds
    <3> QED
      BY <1>1, <3>1 DEF Submit, MainTypes, MainPCs
  <2> QED
    BY <1>1, <2>1, <2>2 DEF Submit
<1>2. ASSUME NEW c \in Cells, ExitInputMode(c) PROVE TypeOK'
  <2>1. CellTypes' /\ edits' \in Nat
    BY <1>2, UpdateCommandTypes DEF ExitInputMode
  <2> QED
    BY <1>2, <2>1 DEF ExitInputMode, BoundTypes
<1>3. ASSUME NEW c \in Cells, DeleteCell(c) PROVE TypeOK'
  BY <1>3 DEF DeleteCell, CellTypes
<1>4. ASSUME NEW c \in Cells, MovePop(c) PROVE TypeOK'
  BY <1>4 DEF MovePop, CellTypes, MainTypes, MainPCs
<1>5. CASE PressCancel
  BY <1>5 DEF PressCancel, MainTypes, MainPCs, BoundTypes, KernelTypes
<1>6. CASE CloseWorker
  <2>1. queue' \in Seq(Cells \union {STOP})
    BY <1>6, AppendProperties DEF CloseWorker, WorkerTypes
  <2> QED
    BY <1>6, <2>1 DEF CloseWorker, WorkerTypes, MainTypes, MainPCs
<1>7. CASE MoveInsert
  BY <1>7 DEF MoveInsert, CellTypes, MainTypes, MainPCs, Control
<1>8. CASE EnqueueCount
  <2>1. inflight' \in Nat
    BY <1>8 DEF EnqueueCount, WorkerTypes
  <2>2. idle' \in BOOLEAN
    BY <1>8 DEF EnqueueCount
  <2>3. MainTypes'
    BY <1>8 DEF EnqueueCount, MainTypes, MainPCs
  <2> QED
    BY <1>8, <2>1, <2>2, <2>3 DEF EnqueueCount, WorkerTypes
<1>9. CASE EnqueuePut
  <2>1. ucell \in Cells
    BY <1>9 DEF EnqueuePut, Control
  <2>2. queue' \in Seq(Cells \union {STOP})
    BY <1>9, <2>1, AppendProperties DEF EnqueuePut, WorkerTypes
  <2> QED
    BY <1>9, <2>2
    DEF EnqueuePut, WorkerTypes, MainTypes, MainPCs, BoundTypes
<1>10. CASE EnqueueAnnounce
  BY <1>10 DEF EnqueueAnnounce, MainTypes, MainPCs
<1>11. CASE CancelMark
  <2>1. ucell \in Cells
    BY <1>11 DEF CancelMark, Control
  <2>2. CASE active # ucell
    BY <1>11, <2>2
    DEF CancelMark, MainTypes, MainPCs, KernelTypes, HistoryTypes
  <2>3. CASE active = ucell
    <3>1. granted' = granted \union {<<begun, BeforeCheck>>} /\ BeforeCheck \in BOOLEAN
      BY <1>11, <2>3 DEF CancelMark, BeforeCheck
    <3>2. granted' \subseteq Nat \X BOOLEAN
      BY <3>1 DEF HistoryTypes, BoundTypes
    <3> QED
      BY <1>11, <2>1, <2>3, <3>2
      DEF CancelMark, MainTypes, MainPCs, KernelTypes, HistoryTypes
  <2> QED
    BY <2>2, <2>3
<1>12. CASE CancelSignal
  <2>1. child = "alive" => Head(jobs) \in Nat
    BY ForegroundRun
  <2> QED
    BY <1>12, <2>1 DEF CancelSignal, MainTypes, MainPCs, HistoryTypes
<1>13. CASE Joined
  BY <1>13 DEF Joined, MainTypes, MainPCs
<1>14. CASE SaveSession
  BY <1>14 DEF SaveSession, MainTypes, MainPCs
<1>15. CASE ExitProcess
  BY <1>15 DEF ExitProcess, MainTypes, MainPCs
<1>16. CASE Get
  <2>1. queue' \in Seq(Cells \union {STOP}) /\ Head(queue) \in Cells \union {STOP}
    BY <1>16, HeadTailProperties DEF Get, WorkerTypes
  <2> QED
    BY <1>16, <2>1
    DEF Get, WorkerTypes, ThreadTypes, WorkerPCs, BoundTypes
<1>17. CASE Enter
  <2>1. wcell \in Cells
    BY <1>17 DEF Enter, Control, Holding
  <2>2. ThreadTypes'
    BY <1>17, <2>1 DEF Enter, ThreadTypes, WorkerPCs, CellTypes
  <2>3. KernelTypes'
    BY <1>17, <2>1 DEF Enter, KernelTypes, kernelVars
  <2> QED
    BY <1>17, <2>2, <2>3 DEF Enter
<1>18. CASE Launch
  <2>1. jobs' \in Seq(Nat)
    BY <1>18, AppendProperties DEF Launch, ChildTypes, BoundTypes
  <2> QED
    BY <1>18, <2>1 DEF Launch, ThreadTypes, WorkerPCs, ChildTypes
<1>19. CASE RunnerReturns
  <2>1. pipe' \in Seq([run : Nat, end : BOOLEAN])
    BY <1>19, HeadTailProperties DEF RunnerReturns, ChildTypes
  <2> QED
    BY <1>19, <2>1 DEF RunnerReturns, ThreadTypes, WorkerPCs, ChildTypes
<1>20. CASE PostRunCheck
  <2>1. PICK s \in Statuses, o \in Outcomes : Record(s, o)
    BY <1>20 DEF PostRunCheck, Statuses, Outcomes
  <2>2. CellTypes' /\ outcome' \in Outcomes
    BY <2>1, RecordTypes
  <2> QED
    BY <1>20, <2>2 DEF PostRunCheck, ThreadTypes, WorkerPCs, KernelTypes
<1>21. CASE PublishTerminal
  <2>1. wcell \in Cells
    BY <1>21 DEF PublishTerminal, Control, Holding
  <2>2. [run |-> begun, cell |-> wcell, outcome |-> outcome]
          \in [run : Nat, cell : Cells, outcome : Outcomes]
    BY <2>1 DEF ThreadTypes, BoundTypes
  <2>3. narrated' \in Seq([run : Nat, cell : Cells, outcome : Outcomes])
    BY <1>21, <2>2, AppendProperties DEF PublishTerminal, HistoryTypes
  <2> QED
    BY <1>21, <2>3 DEF PublishTerminal, ThreadTypes, WorkerPCs, HistoryTypes
<1>22. CASE ClearActive
  BY <1>22 DEF ClearActive, ThreadTypes, WorkerPCs, KernelTypes
<1>23. CASE FinishCount
  <2>1. inflight \in Nat \ {0}
    BY <1>23, HeldIsCounted DEF FinishCount, Holding
  <2> QED
    BY <1>23, <2>1 DEF FinishCount, WorkerTypes, ThreadTypes, WorkerPCs
<1>24. CASE SetIdle
  BY <1>24 DEF SetIdle, WorkerTypes, ThreadTypes, WorkerPCs
<1>25. CASE FailBeforeLaunch
  <2>1. CellTypes' /\ outcome' \in Outcomes
    BY <1>25, RecordTypes DEF FailBeforeLaunch, Statuses, Outcomes
  <2> QED
    BY <1>25, <2>1 DEF FailBeforeLaunch, ThreadTypes, WorkerPCs
<1>26. ASSUME NEW bad \in BOOLEAN, PublishSubmitted(bad) PROVE TypeOK'
  <2>1. CellTypes'
    BY <1>26 DEF PublishSubmitted, CellTypes, Statuses
  <2> QED
    BY <1>26, <2>1
    DEF PublishSubmitted, Raised, ThreadTypes, WorkerPCs, BoundTypes
<1>27. ASSUME NEW bad \in BOOLEAN, PublishStarted(bad) PROVE TypeOK'
  BY <1>27 DEF PublishStarted, Raised, ThreadTypes, WorkerPCs, BoundTypes
<1>28. ASSUME NEW bad \in BOOLEAN, PublishErrorChunk(bad) PROVE TypeOK'
  BY <1>28 DEF PublishErrorChunk, Raised, ThreadTypes, WorkerPCs, BoundTypes
<1>29. ASSUME NEW bad \in BOOLEAN, PublishDrained(bad) PROVE TypeOK'
  BY <1>29 DEF PublishDrained, Raised, ThreadTypes, WorkerPCs, BoundTypes
<1>30. CASE ChildReady
  BY <1>30 DEF ChildReady, ChildTypes
<1>31. CASE ChildWrites
  <2>1. pipe' \in Seq([run : Nat, end : BOOLEAN])
    BY <1>31, ForegroundRun, AppendProperties DEF ChildWrites, ChildTypes
  <2> QED
    BY <1>31, <2>1 DEF ChildWrites, ChildTypes
<1>32. ASSUME NEW bad \in BOOLEAN, PublishChunk(bad) PROVE TypeOK'
  <2>1. pipe' \in Seq([run : Nat, end : BOOLEAN])
    BY <1>32, HeadTailProperties DEF PublishChunk, ChildTypes
  <2>2. ChildTypes'
    BY <1>32, <2>1 DEF PublishChunk, ChildTypes, BoundTypes
  <2> QED
    BY <1>32, <2>2 DEF PublishChunk, Raised, ThreadTypes, WorkerPCs, BoundTypes
<1>33. CASE ChildExits
  <2>1. /\ pipe' \in Seq([run : Nat, end : BOOLEAN])
        /\ jobs' \in Seq(Nat)
    BY <1>33, ForegroundRun, AppendProperties, HeadTailProperties
    DEF ChildExits, ChildTypes
  <2> QED
    BY <1>33, <2>1 DEF ChildExits, ChildTypes
<1>34. CASE UNCHANGED vars
  BY <1>34 DEF vars
<1>35. CASE ShellDies
  <2>1. jobs' \in Seq(Nat)
    BY <1>35, EmptySeq DEF ShellDies
  <2> QED
    BY <1>35, <2>1 DEF ShellDies, ChildTypes
<1> HIDE DEF TypeOK
<1> QED
  BY <1>1, <1>2, <1>3, <1>4, <1>5, <1>6, <1>7, <1>8, <1>9, <1>10, <1>11,
     <1>12, <1>13, <1>14, <1>15, <1>16, <1>17, <1>18, <1>19, <1>20, <1>21,
     <1>22, <1>23, <1>24, <1>25, <1>26, <1>27, <1>28, <1>29, <1>30, <1>31,
     <1>32, <1>33, <1>34, <1>35
  DEF Next, Keyboard, MainThread, Worker, Command, Ended

(* The inductive invariant. *)

\* The initial state satisfies every part of it.
LEMMA InvInit == Init => IInv
<1> SUFFICES ASSUME Init PROVE IInv
  OBVIOUS
<1>1. TypeOK
  BY TypeInit
<1>2. Control
  BY DEF Init, Control, Holding, InExecute
<1>3. QueueShape /\ InflightExact /\ AllAccounted
  BY EmptySeq
  DEF Init, QueueShape, InflightExact, AllAccounted, Backlog, StopQueued, Holding
<1>4. CancelState /\ RunsNarrated
  BY DEF Init, CancelState, RunsNarrated, BeforeCheck
<1>5. CancelHitsItsTarget /\ CancelledWasAsked /\ EarlyCancelIsNarrated
  BY DEF Init, CancelHitsItsTarget, CancelledWasAsked, EarlyCancelIsNarrated
<1>6. OutputState
  BY EmptySeq DEF Init, OutputState, Aligned, InStep
<1> QED
  BY <1>1, <1>2, <1>3, <1>4, <1>5, <1>6 DEF IInv

\* Every action keeps the control part.
LEMMA ControlStep == TypeOK /\ Control /\ [Next]_vars => Control'
<1> SUFFICES ASSUME TypeOK, Control, [Next]_vars
             PROVE  Control'
  OBVIOUS
<1> USE ExecutionAssumption
    DEF Control, Holding, InExecute, cellVars, workerVars, threadVars, kernelVars,
        childVars, mainVars, bounds, history
<1>1. ASSUME NEW c \in Cells, Submit(c) PROVE Control'
  BY <1>1 DEF Submit, UpdateCommand
<1>2. ASSUME NEW c \in Cells, ExitInputMode(c) PROVE Control'
  BY <1>2 DEF ExitInputMode, UpdateCommand
<1>3. ASSUME NEW c \in Cells, DeleteCell(c) PROVE Control'
  BY <1>3 DEF DeleteCell
<1>4. ASSUME NEW c \in Cells, MovePop(c) PROVE Control'
  BY <1>4 DEF MovePop
<1>5. CASE PressCancel
  BY <1>5 DEF PressCancel
<1>6. CASE CloseWorker
  BY <1>6 DEF CloseWorker
<1>7. CASE MoveInsert
  BY <1>7 DEF MoveInsert
<1>8. CASE EnqueueCount
  BY <1>8 DEF EnqueueCount
<1>9. CASE EnqueuePut
  BY <1>9 DEF EnqueuePut
<1>10. CASE EnqueueAnnounce
  BY <1>10 DEF EnqueueAnnounce
<1>11. CASE CancelMark
  BY <1>11 DEF CancelMark
<1>12. CASE CancelSignal
  BY <1>12 DEF CancelSignal
<1>13. CASE Joined
  BY <1>13 DEF Joined
<1>14. CASE SaveSession
  BY <1>14 DEF SaveSession
<1>15. CASE ExitProcess
  BY <1>15 DEF ExitProcess
<1>16. CASE Get
  <2>1. Head(queue) \in Cells \union {STOP}
    BY <1>16, HeadTailProperties DEF Get, TypeOK, WorkerTypes
  <2> QED
    BY <1>16, <2>1 DEF Get
<1>17. CASE Enter
  BY <1>17 DEF Enter
<1>18. CASE Launch
  BY <1>18 DEF Launch
<1>19. CASE RunnerReturns
  BY <1>19 DEF RunnerReturns
<1>20. CASE PostRunCheck
  BY <1>20 DEF PostRunCheck, Record
<1>21. CASE PublishTerminal
  BY <1>21 DEF PublishTerminal
<1>22. CASE ClearActive
  BY <1>22 DEF ClearActive
<1>23. CASE FinishCount
  BY <1>23 DEF FinishCount
<1>24. CASE SetIdle
  BY <1>24 DEF SetIdle
<1>25. CASE FailBeforeLaunch
  BY <1>25 DEF FailBeforeLaunch, CannotRun, Record
<1>26. ASSUME NEW bad \in BOOLEAN, PublishSubmitted(bad) PROVE Control'
  BY <1>26 DEF PublishSubmitted, Raised
<1>27. ASSUME NEW bad \in BOOLEAN, PublishStarted(bad) PROVE Control'
  BY <1>27 DEF PublishStarted, Raised
<1>28. ASSUME NEW bad \in BOOLEAN, PublishErrorChunk(bad) PROVE Control'
  BY <1>28 DEF PublishErrorChunk, Raised
<1>29. ASSUME NEW bad \in BOOLEAN, PublishDrained(bad) PROVE Control'
  BY <1>29 DEF PublishDrained, Raised
<1>30. CASE ChildReady
  BY <1>30 DEF ChildReady
<1>31. CASE ChildWrites
  BY <1>31 DEF ChildWrites
<1>32. ASSUME NEW bad \in BOOLEAN, PublishChunk(bad) PROVE Control'
  BY <1>32 DEF PublishChunk, Raised
<1>33. CASE ChildExits
  BY <1>33 DEF ChildExits
<1>34. CASE UNCHANGED vars
  BY <1>34 DEF vars
<1>35. CASE ShellDies
  BY <1>35 DEF ShellDies
<1> HIDE DEF Control
<1> QED
  BY <1>1, <1>2, <1>3, <1>4, <1>5, <1>6, <1>7, <1>8, <1>9, <1>10, <1>11,
     <1>12, <1>13, <1>14, <1>15, <1>16, <1>17, <1>18, <1>19, <1>20, <1>21,
     <1>22, <1>23, <1>24, <1>25, <1>26, <1>27, <1>28, <1>29, <1>30, <1>31,
     <1>32, <1>33, <1>34, <1>35
  DEF Next, Keyboard, MainThread, Worker, Command, Ended

\* Before close, every queued element is a cell.
LEMMA OpenQueue ==
  ASSUME TypeOK, QueueShape, ~closed
  PROVE  /\ ~StopQueued /\ Backlog = Len(queue) /\ wpc # "stopped"
         /\ \A i \in 1..Len(queue) : queue[i] \in Cells
<1>1. ~StopQueued /\ Backlog = Len(queue) /\ wpc # "stopped"
  BY DEF QueueShape, Backlog
<1>2. ASSUME NEW i \in 1..Len(queue) PROVE queue[i] \in Cells
  <2>1. Len(queue) \in Nat /\ queue[i] \in Cells \union {STOP} /\ queue # <<>>
    BY <1>2, ElementOfSeq, LenProperties, EmptySeq DEF TypeOK, WorkerTypes
  <2> QED
    BY <1>1, <1>2, <2>1 DEF QueueShape, StopQueued
<1> QED
  BY <1>1, <1>2

\* Putting an element on the queue of an open worker.
LEMMA QueueAppend ==
  ASSUME TypeOK, QueueShape, ~closed, UNCHANGED wpc,
         NEW e \in Cells \union {STOP}, queue' = Append(queue, e),
         e = STOP => closed'
  PROVE  /\ QueueShape'
         /\ Backlog' = Backlog + (IF e = STOP THEN 0 ELSE 1)
<1>1. /\ Len(queue) \in Nat /\ Len(queue') = Len(queue) + 1
      /\ queue' # <<>>
      /\ \A i \in 1..Len(queue) : queue'[i] = queue[i]
      /\ queue'[Len(queue)+1] = e
  BY AppendProperties, LenProperties DEF TypeOK, WorkerTypes
<1>2. StopQueued' <=> e = STOP
  BY <1>1 DEF StopQueued
<1>3. Backlog' = Backlog + (IF e = STOP THEN 0 ELSE 1)
  BY <1>1, <1>2, OpenQueue DEF Backlog
<1>4. \A i \in 1..Len(queue') : i < Len(queue') => queue'[i] \in Cells
  BY <1>1, OpenQueue
<1> QED
  BY <1>2, <1>3, <1>4, OpenQueue DEF QueueShape

\* Taking the first element: the sentinel is alone on the queue, a cell is one
\* of the backlog.
LEMMA QueueTail ==
  ASSUME TypeOK, QueueShape, queue # <<>>, queue' = Tail(queue), UNCHANGED closed
  PROVE  /\ Head(queue) = STOP => closed /\ queue' = <<>> /\ Backlog = 0 /\ Backlog' = 0
         /\ Head(queue) # STOP => Backlog' = Backlog - 1
         /\ \A i \in 1..Len(queue') : i < Len(queue') => queue'[i] \in Cells
         /\ StopQueued' => closed'
<1>1. /\ Len(queue) \in Nat \ {0} /\ Len(queue') = Len(queue) - 1
      /\ Head(queue) = queue[1]
      /\ \A i \in 1..Len(queue') : queue'[i] = queue[i+1]
      /\ queue' \in Seq(Cells \union {STOP})
  BY HeadTailProperties, EmptySeq DEF TypeOK, WorkerTypes
<1>2. queue' # <<>> <=> Len(queue') # 0
  BY <1>1, EmptySeq
<1>3. \A i \in 1..Len(queue') : i < Len(queue') => queue'[i] \in Cells
  BY <1>1 DEF QueueShape
<1>4. CASE Len(queue) = 1
  BY <1>1, <1>2, <1>3, <1>4 DEF QueueShape, Backlog, StopQueued
<1>5. CASE Len(queue) > 1
  <2>1. queue'[Len(queue')] = queue[Len(queue)] /\ queue[1] \in Cells
    BY <1>1, <1>5 DEF QueueShape
  <2>2. StopQueued' <=> StopQueued
    BY <1>2, <1>5, <2>1 DEF StopQueued
  <2> QED
    BY <1>1, <1>3, <2>1, <2>2, ExecutionAssumption DEF QueueShape, Backlog
<1> QED
  BY <1>1, <1>4, <1>5

\* The queue, its sentinel and the counts are left alone by every other step;
\* what matters of the places is the same before and after.
LEMMA QueueFramed ==
  ASSUME QueueShape, InflightExact, AllAccounted,
         UNCHANGED <<queue, inflight, closed, accepted, begun>>,
         Holding' <=> Holding, upc' = "put" <=> upc = "put",
         wpc' = "stopped" <=> wpc = "stopped"
  PROVE  QueueShape' /\ InflightExact' /\ AllAccounted'
<1>1. UNCHANGED <<Backlog, StopQueued>>
  BY DEF Backlog, StopQueued
<1> QED
  BY <1>1 DEF QueueShape, InflightExact, AllAccounted

\* Every action keeps the queue's shape and both counts.
LEMMA QueueStep ==
  ASSUME TypeOK, Control, QueueShape, InflightExact, AllAccounted, [Next]_vars
  PROVE  QueueShape' /\ InflightExact' /\ AllAccounted'
<1> USE DEF Holding, cellVars, workerVars, threadVars, kernelVars,
        childVars, mainVars, bounds, history
<1>1. CASE CloseWorker
  <2>1. QueueShape' /\ Backlog' = Backlog
    BY <1>1, QueueAppend, BacklogType DEF CloseWorker, threadVars, Control
  <2> QED
    BY <1>1, <2>1 DEF CloseWorker, threadVars, InflightExact, AllAccounted
<1>2. CASE EnqueueCount
  <2>1. UNCHANGED <<queue, closed, wpc, accepted, begun>>
    BY <1>2 DEF EnqueueCount, threadVars
  <2>2. QueueShape' /\ Backlog' = Backlog
    BY <2>1 DEF QueueShape, Backlog, StopQueued
  <2> QED
    BY <1>2, <2>1, <2>2, BacklogType DEF EnqueueCount, InflightExact, AllAccounted
<1>3. CASE EnqueuePut
  <2>1. ucell \in Cells /\ ucell # STOP
    BY <1>3, ExecutionAssumption DEF EnqueuePut, Control
  <2>2. QueueShape' /\ Backlog' = Backlog + 1
    BY <1>3, <2>1, QueueAppend DEF EnqueuePut, threadVars, Control
  <2>3. AllAccounted'
    <3>1. accepted' = accepted + 1 /\ begun' = begun /\ begun \in Nat
      BY <1>3 DEF EnqueuePut, TypeOK, BoundTypes
    <3> QED
      BY <2>2, <3>1, BacklogType DEF AllAccounted
  <2> QED
    BY <1>3, <2>2, <2>3, BacklogType DEF EnqueuePut, threadVars, InflightExact
<1>4. CASE Get
  <2>1. CASE Head(queue) = STOP
    BY <1>4, <2>1, QueueTail DEF Get, mainVars, InflightExact, QueueShape, AllAccounted
  <2>2. CASE Head(queue) # STOP
    <3>1. AllAccounted'
      BY <1>4, <2>2, QueueTail, BacklogType DEF Get, AllAccounted, TypeOK, BoundTypes
    <3> QED
      BY <1>4, <2>2, <3>1, QueueTail, BacklogType
      DEF Get, mainVars, InflightExact, QueueShape
  <2> QED
    BY <2>1, <2>2
<1>5. CASE FinishCount
  <2>1. UNCHANGED <<queue, closed, upc, accepted, begun>>
    BY <1>5 DEF FinishCount, mainVars
  <2>2. UNCHANGED <<Backlog, StopQueued>>
    BY <2>1 DEF Backlog, StopQueued
  <2>3. InflightExact'
    BY <1>5, <2>1, <2>2, BacklogType DEF FinishCount, InflightExact
  <2>4. QueueShape' /\ AllAccounted'
    BY <1>5, <2>1, <2>2 DEF FinishCount, QueueShape, AllAccounted
  <2> QED
    BY <2>3, <2>4
<1>6. CASE ~(CloseWorker \/ EnqueueCount \/ EnqueuePut \/ Get \/ FinishCount)
  BY <1>6, QueueFramed
  DEF Next, Keyboard, MainThread, Worker, Command, Ended, Submit,
      UpdateCommand, ExitInputMode, DeleteCell, MovePop, PressCancel,
      MoveInsert, EnqueueAnnounce, CancelMark, CancelSignal, Joined,
      SaveSession, ExitProcess, Enter, Launch, RunnerReturns, PostRunCheck,
      Record, PublishTerminal, ClearActive, SetIdle, FailBeforeLaunch, CannotRun,
      PublishSubmitted, Raised, PublishStarted, PublishErrorChunk, PublishDrained,
      ChildReady, ChildWrites, PublishChunk, ChildExits, ShellDies, vars
<1> QED
  BY <1>1, <1>2, <1>3, <1>4, <1>5, <1>6

\* The steps that neither grant, mark nor begin anything, and lead to no place
\* inside the execution, do not matter to that agreement.
LEMMA CancelFramed ==
  ASSUME CancelState, UNCHANGED <<wcell, begun, granted, cancelled, outcome>>,
         upc' = "signal" => upc = "signal",
         wpc' = wpc \/ wpc' \in {"get", "drained", "setidle", "dead"}
  PROVE  CancelState'
  BY DEF CancelState, BeforeCheck

\* Every action keeps the agreement of markers, grants and outcome.
LEMMA CancelStep == TypeOK /\ Control /\ CancelState /\ [Next]_vars => CancelState'
<1> SUFFICES ASSUME TypeOK, Control, CancelState, [Next]_vars
             PROVE  CancelState'
  OBVIOUS
<1> USE DEF CancelState, BeforeCheck,
        cellVars, workerVars, threadVars, kernelVars,
        childVars, mainVars, bounds, history
<1>1. CASE CancelMark
  <2>1. CASE active # ucell
    BY <1>1, <2>1 DEF CancelMark, CancelState, BeforeCheck
  <2>2. CASE active = ucell
    <3>1. /\ wpc \in InExecute /\ ucell = wcell
          /\ cancelled' = cancelled \union {ucell}
          /\ granted' = granted \union {<<begun, BeforeCheck>>}
      BY <1>1, <2>2, ExecutionAssumption DEF CancelMark, Control
    <3>2. \A g \in granted' : g[1] <= begun
      BY <3>1 DEF CancelState, TypeOK, BoundTypes
    <3>3. BeforeCheck => <<begun, TRUE>> \in granted'
      BY <3>1 DEF BeforeCheck
    <3>4. ~BeforeCheck => (<<begun, TRUE>> \in granted' <=> <<begun, TRUE>> \in granted)
      BY <3>1 DEF BeforeCheck
    <3> QED
      BY <1>1, <3>1, <3>2, <3>3, <3>4 DEF CancelMark, CancelState, BeforeCheck, InExecute
  <2> QED
    BY <2>1, <2>2
<1>2. CASE CancelSignal
  BY <1>2 DEF CancelSignal
<1>3. CASE Get
  <2>1. \A g \in granted : g[1] \in Nat
    BY DEF TypeOK, HistoryTypes
  <2>2. begun \in Nat
    BY DEF TypeOK, BoundTypes
  <2> QED
    BY <1>3, <2>1, <2>2 DEF Get, CancelState, BeforeCheck
<1>4. CASE Enter
  BY <1>4 DEF Enter
<1>5. CASE Launch
  BY <1>5 DEF Launch
<1>6. CASE RunnerReturns
  BY <1>6 DEF RunnerReturns
<1>7. CASE PostRunCheck
  BY <1>7 DEF PostRunCheck, Record
<1>8. CASE PublishTerminal
  BY <1>8 DEF PublishTerminal
<1>9. CASE ClearActive
  BY <1>9 DEF ClearActive
<1>10. CASE FailBeforeLaunch
  BY <1>10 DEF FailBeforeLaunch, CannotRun, Record
<1>11. ASSUME NEW bad \in BOOLEAN, PublishSubmitted(bad) PROVE CancelState'
  <2>1. upc # "signal"
    BY <1>11 DEF PublishSubmitted, Control
  <2> QED
    BY <1>11, <2>1 DEF PublishSubmitted
<1>12. ASSUME NEW bad \in BOOLEAN, PublishStarted(bad) PROVE CancelState'
  BY <1>12 DEF PublishStarted, Raised
<1>13. ASSUME NEW bad \in BOOLEAN, PublishErrorChunk(bad) PROVE CancelState'
  BY <1>13 DEF PublishErrorChunk, Raised
<1>14. ASSUME NEW bad \in BOOLEAN, PublishChunk(bad) PROVE CancelState'
  BY <1>14 DEF PublishChunk, Raised
<1>15. CASE /\ ~(CancelMark \/ CancelSignal \/ Get \/ Enter \/ Launch \/ RunnerReturns \/
               PostRunCheck \/ PublishTerminal \/ ClearActive \/ FailBeforeLaunch)
            /\ ~(\E bad \in BOOLEAN : PublishSubmitted(bad) \/
               PublishStarted(bad) \/ PublishErrorChunk(bad) \/ PublishChunk(bad))
  BY <1>15, CancelFramed
  DEF Next, Keyboard, MainThread, Worker, Command, Ended, Submit,
      UpdateCommand, ExitInputMode, DeleteCell, MovePop, PressCancel,
      CloseWorker, MoveInsert, EnqueueCount, EnqueuePut, EnqueueAnnounce,
      Joined, SaveSession, ExitProcess, FinishCount, SetIdle, PublishDrained,
      Raised, ChildReady, ChildWrites, ChildExits, ShellDies, vars
<1> QED
  BY <1>1, <1>2, <1>3, <1>4, <1>5, <1>6, <1>7, <1>8, <1>9, <1>10, <1>11,
     <1>12, <1>13, <1>14, <1>15

\* The command that is signalled is that of the current run, as long as no shell
\* was left in the middle of one.
LEMMA ForegroundIsCurrent ==
  ASSUME TypeOK, OutputState, child = "alive"
  PROVE  \/ Head(jobs) = begun /\ wpc = "run"
         \/ Astray(Head(jobs))
<1>1. jobs # <<>> /\ Head(jobs) = jobs[1] /\ 1 \in DOMAIN jobs
  BY ForegroundRun
<1>2. CASE Aligned
  BY <1>1, <1>2, HeadTailProperties DEF OutputState, InStep, TypeOK, BoundTypes
<1>3. CASE ~Aligned
  BY <1>1, <1>3 DEF OutputState
<1> QED
  BY <1>2, <1>3

\* What was narrated, granted and signalled stays as good as it was while runs
\* only begin, cancels are only granted and nothing is added to the other two.
LEMMA NarrationFramed ==
  ASSUME TypeOK, RunsNarrated, CancelledWasAsked, EarlyCancelIsNarrated,
         CancelHitsItsTarget, UNCHANGED <<runner, begun, granted, hits, narrated>>,
         torn \subseteq torn',
         wpc' \in Unnarrated => wpc \in Unnarrated
  PROVE  RunsNarrated' /\ CancelledWasAsked' /\ EarlyCancelIsNarrated'
         /\ CancelHitsItsTarget'
  BY DEF RunsNarrated, CancelledWasAsked, EarlyCancelIsNarrated, CancelHitsItsTarget,
         Astray

\* Every action keeps what was narrated, granted and signalled in step.
LEMMA NarrationStep ==
  TypeOK /\ Control /\ CancelState /\ OutputState /\ RunsNarrated /\ CancelledWasAsked
    /\ EarlyCancelIsNarrated /\ CancelHitsItsTarget /\ [Next]_vars
  => RunsNarrated' /\ CancelledWasAsked' /\ EarlyCancelIsNarrated' /\ CancelHitsItsTarget'
<1> SUFFICES ASSUME TypeOK, Control, CancelState, OutputState, RunsNarrated,
                    CancelledWasAsked, EarlyCancelIsNarrated, CancelHitsItsTarget,
                    [Next]_vars
             PROVE  RunsNarrated' /\ CancelledWasAsked' /\ EarlyCancelIsNarrated'
             /\ CancelHitsItsTarget'
  OBVIOUS
<1> USE DEF Unnarrated, cellVars, workerVars, threadVars, kernelVars,
        childVars, mainVars, bounds, history
<1>1. CASE CancelMark
  <2>1. granted \subseteq granted' /\ UNCHANGED <<wpc, begun, hits, narrated, runner, torn>>
    BY <1>1 DEF CancelMark
  <2>2. CASE active # ucell
    <3>1. UNCHANGED granted
      BY <1>1, <2>2 DEF CancelMark
    <3> QED
      BY <2>1, <3>1, NarrationFramed
  <2>3. CASE active = ucell
    <3>1. wpc \in InExecute /\ granted' = granted \union {<<begun, BeforeCheck>>}
      BY <1>1, <2>3, ExecutionAssumption DEF CancelMark, Control
    <3>2. ASSUME NEW i \in DOMAIN narrated, <<narrated[i].run, TRUE>> \in granted'
          PROVE  narrated[i].outcome \in {"cancelled", "unlaunched"}
      <4>1. BeforeCheck => narrated[i].run # begun
        <5>1. begun \in Nat
          BY DEF TypeOK, BoundTypes
        <5> QED
          BY <5>1 DEF RunsNarrated, BeforeCheck
      <4>2. <<narrated[i].run, TRUE>> \in granted
        BY <3>1, <3>2, <4>1 DEF BeforeCheck
      <4> QED
        BY <4>2 DEF EarlyCancelIsNarrated
    <3> QED
      BY <2>1, <3>2
      DEF RunsNarrated, CancelledWasAsked, EarlyCancelIsNarrated, CancelHitsItsTarget,
          Astray
  <2> QED
    BY <2>2, <2>3
<1>2. CASE CancelSignal
  <2>1. child = "alive" => <<Head(jobs), TRUE>> \in granted \/ Astray(Head(jobs))
    BY <1>2, ForegroundIsCurrent DEF CancelSignal, CancelState
  <2> QED
    BY <1>2, <2>1
    DEF CancelSignal, RunsNarrated, CancelledWasAsked, EarlyCancelIsNarrated,
        CancelHitsItsTarget, Astray
<1>3. CASE Get
  <2>1. begun \in Nat /\ begun' \in {begun, begun + 1}
    BY <1>3 DEF Get, TypeOK, BoundTypes
  <2>2. \A i \in DOMAIN narrated : narrated[i].run \in Nat
    <3>1. \A i \in DOMAIN narrated : narrated[i] \in [run : Nat, cell : Cells, outcome : Outcomes]
      BY LenProperties, ElementOfSeq DEF TypeOK, HistoryTypes
    <3> QED
      BY <3>1
  <2>3. RunsNarrated'
    BY <1>3, <2>1, <2>2 DEF Get, RunsNarrated
  <2> QED
    BY <1>3, <2>3
    DEF Get, CancelledWasAsked, EarlyCancelIsNarrated, CancelHitsItsTarget, Astray
<1>4. CASE PublishTerminal
  <2> DEFINE n == [run |-> begun, cell |-> wcell, outcome |-> outcome]
  <2>1. begun \in Nat /\ wcell \in Cells /\ outcome \in Outcomes
    BY <1>4 DEF PublishTerminal, Control, Holding, TypeOK, BoundTypes, ThreadTypes
  <2>2. n \in [run : Nat, cell : Cells, outcome : Outcomes]
    BY <2>1
  <2>3. /\ DOMAIN narrated = 1..Len(narrated) /\ Len(narrated) \in Nat
        /\ DOMAIN narrated' = 1..Len(narrated) + 1
        /\ \A i \in 1..Len(narrated) : narrated'[i] = narrated[i]
        /\ narrated'[Len(narrated) + 1] = n
    BY <1>4, <2>2, AppendProperties, LenProperties DEF PublishTerminal, TypeOK, HistoryTypes
  <2>4. /\ n.run = begun
        /\ n.outcome = "cancelled" => <<begun, TRUE>> \in granted
        /\ <<begun, TRUE>> \in granted => n.outcome \in {"cancelled", "unlaunched"}
    BY <1>4 DEF PublishTerminal, CancelState
  <2>5. \A i \in DOMAIN narrated' : i \in DOMAIN narrated \/ i = Len(narrated) + 1
    BY <2>3
  <2>6. RunsNarrated'
    BY <1>4, <2>1, <2>3, <2>4, <2>5 DEF PublishTerminal, RunsNarrated
  <2>7. CancelledWasAsked' /\ EarlyCancelIsNarrated'
    BY <1>4, <2>3, <2>4, <2>5
    DEF PublishTerminal, CancelledWasAsked, EarlyCancelIsNarrated
  <2> QED
    BY <1>4, <2>6, <2>7 DEF PublishTerminal, CancelHitsItsTarget, Astray
<1>5. CASE ~(CancelMark \/ CancelSignal \/ Get \/ PublishTerminal)
  BY <1>5, NarrationFramed
  DEF Next, Keyboard, MainThread, Worker, Command, Ended, Submit,
      UpdateCommand, ExitInputMode, DeleteCell, MovePop, PressCancel,
      CloseWorker, MoveInsert, EnqueueCount, EnqueuePut, EnqueueAnnounce,
      Joined, SaveSession, ExitProcess, Enter, Launch, RunnerReturns,
      PostRunCheck, Record, ClearActive, FinishCount, SetIdle,
      FailBeforeLaunch, CannotRun, PublishSubmitted, Raised, PublishStarted,
      PublishErrorChunk, PublishDrained, ChildReady, ChildWrites,
      PublishChunk, ChildExits, ShellDies, vars
<1> QED
  BY <1>1, <1>2, <1>3, <1>4, <1>5

\* A step that leaves the commands and their output alone, and neither begins
\* nor ends the run that collects it.
LEMMA OutputFramed ==
  ASSUME OutputState, UNCHANGED childVars, UNCHANGED begun, wpc' = "run" <=> wpc = "run"
  PROVE  OutputState'
  BY DEF OutputState, Aligned, InStep, NoEnd, Astray, childVars

\* What the first command writes follows what is there: one more line, or its end.
LEMMA OutputAppended ==
  ASSUME TypeOK, OutputState, child = "alive", NEW last \in BOOLEAN,
         pipe' = Append(pipe, [run |-> Head(jobs), end |-> last])
  PROVE  /\ pipe' # <<>> /\ Len(pipe') = Len(pipe) + 1 /\ Len(pipe) \in Nat
         /\ DOMAIN pipe' = 1..Len(pipe) + 1 /\ DOMAIN pipe = 1..Len(pipe)
         /\ \A i \in 1..Len(pipe) : pipe'[i] = pipe[i]
         /\ pipe'[Len(pipe) + 1].run = Head(jobs)
         /\ pipe'[Len(pipe) + 1].end = last
<1> DEFINE Item == [run : Nat, end : BOOLEAN]
           e == [run |-> Head(jobs), end |-> last]
<1>1. e \in Item /\ pipe \in Seq(Item) /\ e.run = Head(jobs) /\ e.end = last
  BY ForegroundRun DEF TypeOK, ChildTypes
<1> HIDE DEF Item, e
<1>2. /\ pipe' \in Seq(Item) /\ Len(pipe') = Len(pipe) + 1
      /\ \A i \in 1..Len(pipe) : pipe'[i] = pipe[i]
      /\ pipe'[Len(pipe) + 1] = e
  BY <1>1, AppendProperties DEF e
<1> QED
  BY <1>1, <1>2, LenProperties, EmptySeq

\* What is left once the first item was taken.
LEMMA OutputTaken ==
  ASSUME TypeOK, pipe # <<>>, pipe' = Tail(pipe)
  PROVE  /\ DOMAIN pipe = 1..Len(pipe) /\ 1 \in DOMAIN pipe /\ Head(pipe) = pipe[1]
         /\ Len(pipe') = Len(pipe) - 1 /\ Len(pipe) \in Nat
         /\ DOMAIN pipe' = 1..Len(pipe) - 1
         /\ \A i \in DOMAIN pipe' : pipe'[i] = pipe[i + 1] /\ i + 1 \in DOMAIN pipe
         /\ Len(pipe) = 1 => pipe' = <<>>
<1> DEFINE Item == [run : Nat, end : BOOLEAN]
<1>1. pipe \in Seq(Item)
  BY DEF TypeOK, ChildTypes
<1> HIDE DEF Item
<1>2. /\ pipe' \in Seq(Item) /\ Len(pipe') = Len(pipe) - 1 /\ Head(pipe) = pipe[1]
      /\ \A i \in 1..Len(pipe) - 1 : pipe'[i] = pipe[i + 1]
      /\ Len(pipe) \in Nat \ {0}
  BY <1>1, HeadTailProperties, LenProperties, EmptySeq
<1> QED
  BY <1>1, <1>2, LenProperties, EmptySeq

\* Every action keeps commands and output in step with the runs, or astray.
LEMMA OutputStep == TypeOK /\ OutputState /\ [Next]_vars => OutputState'
<1> SUFFICES ASSUME TypeOK, OutputState, [Next]_vars
             PROVE  OutputState'
  OBVIOUS
<1>0. begun \in Nat /\ torn \subseteq Nat
  BY DEF TypeOK, BoundTypes, ChildTypes
<1> USE DEF cellVars, workerVars, threadVars, kernelVars, mainVars, bounds, history
<1>1. CASE Get
  <2>1. /\ UNCHANGED childVars /\ begun' \in {begun, begun + 1}
        /\ wpc # "run" /\ wpc' # "run"
    BY <1>1 DEF Get
  <2>2. torn' \subseteq 0..begun'
    BY <1>0, <2>1 DEF OutputState, childVars
  <2> QED
    BY <2>1, <2>2 DEF OutputState, Aligned, InStep, NoEnd, Astray, childVars
<1>2. CASE Launch
  <2>1. /\ UNCHANGED <<begun, runner, pipe, torn>> /\ wpc = "launch" /\ wpc' = "run"
        /\ child # "gone" /\ jobs' = Append(jobs, begun)
        /\ jobs = <<>> => child' = "fresh"
        /\ jobs # <<>> => child' = child
    BY <1>2 DEF Launch
  <2>2. /\ jobs \in Seq(Nat) /\ jobs' # <<>> /\ Len(jobs) \in Nat
        /\ DOMAIN jobs = 1..Len(jobs) /\ DOMAIN jobs' = 1..Len(jobs) + 1
        /\ \A i \in 1..Len(jobs) : jobs'[i] = jobs[i]
        /\ jobs'[Len(jobs) + 1] = begun
    BY <1>0, <2>1, AppendProperties, LenProperties, EmptySeq DEF TypeOK, ChildTypes
  <2>3. jobs' # <<>> <=> child' \in {"fresh", "alive"}
    BY <2>1, <2>2 DEF OutputState
  <2>4. CASE Aligned
    <3>1. jobs = <<>> /\ pipe = <<>>
      BY <2>1, <2>4 DEF OutputState, InStep
    <3>2. jobs' = <<begun>> /\ \A i \in DOMAIN pipe' : FALSE
      BY <2>1, <3>1
    <3>3. InStep' /\ Aligned'
      BY <2>1, <2>4, <3>2 DEF InStep, Aligned
    <3> QED
      BY <2>1, <2>3, <3>3 DEF OutputState
  <2>5. CASE ~Aligned
    <3>1. \A r : Astray(r)' = Astray(r)
      BY <2>1 DEF Astray
    <3>2. Astray(begun)
      BY <1>0, <2>5 DEF Astray, Aligned, OutputState, TypeOK, ChildTypes
    <3>3. \A i \in DOMAIN jobs' : Astray(jobs'[i])
      BY <2>2, <2>5, <3>2 DEF OutputState
    <3>4. ~Aligned' /\ \A i \in DOMAIN pipe' : Astray(pipe'[i].run)
      BY <2>1, <2>5 DEF OutputState, Aligned
    <3> QED
      BY <2>1, <2>3, <3>1, <3>3, <3>4 DEF OutputState, Astray
  <2> QED
    BY <2>4, <2>5
<1>3. CASE RunnerReturns
  <2>1. /\ UNCHANGED <<begun, runner, jobs, child, torn>>
        /\ wpc = "run" /\ wpc' = "check"
        /\ pipe # <<>> /\ Head(pipe).end /\ pipe' = Tail(pipe)
    BY <1>3 DEF RunnerReturns
  <2>2. CASE Aligned
    <3>1. jobs = <<>> /\ Len(pipe) = 1
      BY <2>1, <2>2, OutputTaken DEF OutputState, InStep
    <3>2. jobs' = <<>> /\ pipe' = <<>>
      BY <2>1, <3>1, OutputTaken
    <3> QED
      BY <2>1, <2>2, <3>2 DEF OutputState, InStep, Aligned
  <2>3. CASE ~Aligned
    BY <2>1, <2>3, OutputTaken DEF OutputState, Aligned, Astray
  <2> QED
    BY <2>2, <2>3
<1>4. CASE FailBeforeLaunch
  <2>1. UNCHANGED childVars /\ UNCHANGED begun /\ wpc' = "errchunk" /\ CannotRun
    BY <1>4 DEF FailBeforeLaunch, childVars
  <2>2. CASE wpc = "launch"
    BY <2>1, <2>2, OutputFramed
  <2>3. CASE child = "gone" /\ NoEnd
    <3>1. jobs = <<>>
      BY <2>3 DEF OutputState
    <3> QED
      BY <2>1, <2>3, <3>1 DEF OutputState, InStep, Aligned, NoEnd, Astray, childVars
  <2> QED
    BY <2>1, <2>2, <2>3 DEF CannotRun
<1>5. CASE ChildReady
  <2>1. UNCHANGED <<begun, wpc, runner, jobs, pipe, torn>> /\ child = "fresh" /\ child' = "alive"
    BY <1>5 DEF ChildReady
  <2> QED
    BY <2>1 DEF OutputState, InStep, Aligned, NoEnd, Astray
<1>6. CASE ChildWrites
  <2>1. /\ UNCHANGED <<begun, wpc, runner, jobs, child, torn>> /\ child = "alive"
        /\ pipe' = Append(pipe, [run |-> Head(jobs), end |-> FALSE])
    BY <1>6 DEF ChildWrites
  <2>2. jobs # <<>> /\ Head(jobs) = jobs[1] /\ 1 \in DOMAIN jobs
    BY <2>1, ForegroundRun
  <2>3. /\ pipe' # <<>> /\ Len(pipe') = Len(pipe) + 1 /\ Len(pipe) \in Nat
        /\ DOMAIN pipe' = 1..Len(pipe) + 1 /\ DOMAIN pipe = 1..Len(pipe)
        /\ \A i \in 1..Len(pipe) : pipe'[i] = pipe[i]
        /\ pipe'[Len(pipe) + 1].run = Head(jobs)
        /\ pipe'[Len(pipe) + 1].end = FALSE
    BY <2>1, OutputAppended
  <2>4. CASE Aligned
    <3>1. jobs = <<begun>> /\ wpc = "run" /\ Head(jobs) = begun
      BY <2>2, <2>4 DEF OutputState, InStep
    <3>2. ASSUME NEW i \in DOMAIN pipe' PROVE pipe'[i].run = begun /\ ~pipe'[i].end
      <4>1. CASE i = Len(pipe) + 1
        BY <2>3, <3>1, <4>1
      <4>2. CASE i \in DOMAIN pipe
        BY <2>2, <2>3, <2>4, <3>1, <4>2 DEF OutputState, InStep
      <4> QED
        BY <2>3, <4>1, <4>2
    <3>3. InStep'
      BY <2>1, <3>1, <3>2 DEF InStep
    <3> QED
      BY <2>1, <2>4, <3>3 DEF OutputState, Aligned
  <2>5. CASE ~Aligned
    BY <2>1, <2>2, <2>3, <2>5 DEF OutputState, Aligned, Astray
  <2> QED
    BY <2>4, <2>5
<1>7. CASE ChildExits
  <2>1. /\ UNCHANGED <<begun, wpc, runner, torn>> /\ child = "alive"
        /\ pipe' = Append(pipe, [run |-> Head(jobs), end |-> TRUE])
        /\ jobs' = Tail(jobs)
        /\ jobs' = <<>> => child' = "none"
        /\ jobs' # <<>> => child' = "fresh"
    BY <1>7 DEF ChildExits
  <2>2. jobs # <<>> /\ Head(jobs) = jobs[1] /\ 1 \in DOMAIN jobs
    BY <2>1, ForegroundRun
  <2>3. /\ pipe' # <<>> /\ Len(pipe') = Len(pipe) + 1 /\ Len(pipe) \in Nat
        /\ DOMAIN pipe' = 1..Len(pipe) + 1 /\ DOMAIN pipe = 1..Len(pipe)
        /\ \A i \in 1..Len(pipe) : pipe'[i] = pipe[i]
        /\ pipe'[Len(pipe) + 1].run = Head(jobs)
        /\ pipe'[Len(pipe) + 1].end = TRUE
    BY <2>1, OutputAppended
  <2>4. CASE Aligned
    <3>1. jobs = <<begun>> /\ wpc = "run" /\ Head(jobs) = begun
      BY <2>2, <2>4 DEF OutputState, InStep
    <3>2. jobs' = <<>>
      BY <2>1, <3>1
    <3>3. ASSUME NEW i \in DOMAIN pipe'
          PROVE  pipe'[i].run = begun /\ (pipe'[i].end => i = Len(pipe'))
      <4>1. CASE i = Len(pipe) + 1
        BY <2>3, <3>1, <4>1
      <4>2. CASE i \in DOMAIN pipe
        BY <2>2, <2>3, <2>4, <3>1, <4>2 DEF OutputState, InStep
      <4> QED
        BY <2>3, <4>1, <4>2
    <3>4. InStep'
      BY <2>1, <3>1, <3>2, <3>3 DEF InStep
    <3> QED
      BY <2>1, <2>4, <3>2, <3>4 DEF OutputState, Aligned
  <2>5. CASE ~Aligned
    <3>1. \A i \in DOMAIN jobs' : jobs'[i] = jobs[i + 1] /\ i + 1 \in DOMAIN jobs
      BY <2>1, <2>2, HeadTailProperties, LenProperties DEF TypeOK, ChildTypes
    <3> QED
      BY <2>1, <2>2, <2>3, <2>5, <3>1 DEF OutputState, Aligned, Astray
  <2> QED
    BY <2>4, <2>5
<1>8. CASE ShellDies
  <2>1. UNCHANGED <<begun, wpc, runner, pipe, torn>> /\ child # "gone"
        /\ child' = "gone" /\ jobs' = <<>>
    BY <1>8 DEF ShellDies
  <2>2. \A i \in DOMAIN jobs' : FALSE
    BY <2>1
  <2>3. CASE Aligned
    BY <2>1, <2>3 DEF OutputState, InStep, Aligned
  <2>4. CASE ~Aligned
    BY <2>1, <2>2, <2>4 DEF OutputState, Aligned, Astray
  <2> QED
    BY <2>3, <2>4
<1>9. ASSUME NEW bad \in BOOLEAN, PublishChunk(bad) PROVE OutputState'
  <2>1. /\ UNCHANGED <<begun, runner, jobs, child>>
        /\ wpc = "run" /\ pipe # <<>> /\ pipe' = Tail(pipe)
        /\ torn' = IF bad THEN torn \union {begun} ELSE torn
        /\ ~bad \/ runner # "shell" => wpc' = "run"
    BY <1>9 DEF PublishChunk
  <2>2. torn' \subseteq 0..begun' /\ torn \subseteq torn'
    BY <1>0, <2>1 DEF OutputState
  <2>3. CASE Aligned'
    <3>1. wpc' = "run" /\ Aligned
      BY <2>1, <2>3 DEF Aligned
    <3>2. \A i \in DOMAIN pipe' : /\ pipe'[i].run = begun
                                  /\ pipe'[i].end => jobs = <<>> /\ i = Len(pipe')
      BY <2>1, <3>1, OutputTaken DEF OutputState, InStep
    <3>3. InStep'
      BY <2>1, <3>1, <3>2 DEF OutputState, InStep
    <3> QED
      BY <2>1, <2>2, <2>3, <3>3 DEF OutputState
  <2>4. CASE ~Aligned'
    <3>1. runner' = "shell"
      BY <2>1, <2>4 DEF Aligned, TypeOK, ChildTypes
    <3>2. ASSUME ~Aligned
          PROVE  /\ (\A i \in DOMAIN jobs : Astray(jobs[i]))'
                 /\ (\A i \in DOMAIN pipe : Astray(pipe[i].run))'
      BY <2>1, <2>2, <3>2, OutputTaken DEF OutputState, Astray
    <3>3. ASSUME Aligned
          PROVE  /\ (\A i \in DOMAIN jobs : Astray(jobs[i]))'
                 /\ (\A i \in DOMAIN pipe : Astray(pipe[i].run))'
      <4>1. begun \in torn'
        BY <2>1, <2>4, <3>3 DEF Aligned
      <4>2. \E t \in torn' : t <= begun
        BY <1>0, <4>1
      <4>3. \A i \in DOMAIN jobs' : jobs'[i] = begun
        <5>1. jobs = <<>> \/ jobs = <<begun>>
          BY <3>3 DEF OutputState, InStep
        <5> QED
          BY <2>1, <5>1
      <4>4. \A i \in DOMAIN pipe' : pipe'[i].run = begun
        BY <2>1, <3>3, OutputTaken DEF OutputState, InStep
      <4> QED
        BY <2>1, <3>1, <4>2, <4>3, <4>4 DEF Astray
    <3> QED
      BY <2>1, <2>2, <2>4, <3>2, <3>3 DEF OutputState
  <2> QED
    BY <2>3, <2>4
<1>10. CASE /\ ~(Get \/ Launch \/ RunnerReturns \/ FailBeforeLaunch \/ ChildReady
               \/ ChildWrites \/ ChildExits \/ ShellDies)
            /\ ~\E bad \in BOOLEAN : PublishChunk(bad)
  <2>1. UNCHANGED childVars /\ UNCHANGED begun /\ (wpc' = "run" <=> wpc = "run")
    BY <1>10
    DEF Next, Keyboard, MainThread, Worker, Command, Ended, Submit, UpdateCommand,
        ExitInputMode, DeleteCell, MovePop, PressCancel, CloseWorker, MoveInsert,
        EnqueueCount, EnqueuePut, EnqueueAnnounce, CancelMark, CancelSignal, Joined,
        SaveSession, ExitProcess, Enter, PostRunCheck, Record, PublishTerminal,
        ClearActive, FinishCount, SetIdle, PublishSubmitted, Raised, PublishStarted,
        PublishErrorChunk, PublishDrained, vars
  <2> QED
    BY <2>1, OutputFramed
<1> QED
  BY <1>1, <1>2, <1>3, <1>4, <1>5, <1>6, <1>7, <1>8, <1>9, <1>10

\* Every action keeps the whole invariant.
LEMMA InvStep == IInv /\ [Next]_vars => IInv'
  BY TypeStep, ControlStep, QueueStep, CancelStep, NarrationStep, OutputStep DEF IInv

\* IInv is an invariant.
THEOREM Invariance == Spec => []IInv
<1>1. Init => IInv
  BY InvInit
<1>2. IInv /\ [Next]_vars => IInv'
  BY InvStep
<1> QED
  BY <1>1, <1>2, PTL DEF Spec

-----------------------------------------------------------------------------
(* The properties. *)

\* Every variable always has its type; the in-flight counter is never negative.
THEOREM TypeCorrect == Spec => []TypeOK
  BY Invariance, PTL DEF IInv

\* The in-flight counter always equals the cells queued, run or being enqueued.
THEOREM CountIsExact == Spec => []InflightExact
  BY Invariance, PTL DEF IInv

\* A cancel signal only reaches the command of a run whose cancel was granted
\* before its post-run check, whichever the runner and whatever handlers raise;
\* only a shell that was left in the middle of a command, by a raising handler of
\* its output, can give the signal to another run, that one or a later one.
THEOREM SignalsHitTheirTarget == Spec => []CancelHitsItsTarget
  BY Invariance, PTL DEF IInv

\* No run is narrated as cancelled for a cancel granted during another run.
THEOREM NoStrayCancel == Spec => []CancelledWasAsked
  BY Invariance, PTL DEF IInv

\* A cancel granted before the post-run check is always narrated, unless the
\* command could not be launched.
THEOREM NoForgottenCancel == Spec => []EarlyCancelIsNarrated
  BY Invariance, PTL DEF IInv

\* The output of a command is published before its end is narrated, with either
\* runner and whatever handlers raise; it can come late only from a shell that a
\* raising handler left in the middle of that command or of an earlier one, and
\* be left over only when the shell died before the command's end.
THEOREM OutputFirst == Spec => []OutputBeforeTerminal
<1>1. TypeOK /\ OutputState => OutputBeforeTerminal
  <2> SUFFICES ASSUME TypeOK, OutputState, NEW i \in DOMAIN pipe, ~pipe[i].end
               PROVE  \/ wpc = "run" /\ pipe[i].run = begun
                      \/ Astray(pipe[i].run)
                      \/ child = "gone" /\ NoEnd
    BY DEF OutputBeforeTerminal
  <2>1. DOMAIN pipe # {}
    OBVIOUS
  <2>2. pipe # <<>>
    BY <2>1
  <2> QED
    BY <2>2 DEF OutputState, InStep
<1> QED
  BY <1>1, Invariance, PTL DEF IInv

\* When the worker ends because it was closed, every submission ever accepted has
\* been begun: the sentinel is behind them all.
THEOREM NothingOvertaken == Spec => []DrainedWhenStopped
<1>1. IInv => DrainedWhenStopped
  <2> SUFFICES ASSUME IInv, wpc = "stopped" PROVE queue = <<>> /\ begun = accepted
    BY DEF DrainedWhenStopped
  <2>1. queue = <<>>
    BY DEF IInv, QueueShape
  <2>2. Backlog = 0
    BY <2>1, EmptySeq DEF Backlog, StopQueued
  <2> QED
    BY <2>1, <2>2 DEF IInv, AllAccounted, TypeOK, BoundTypes
<1> QED
  BY <1>1, Invariance, PTL

\* Every action keeps the cells that read RUNNING inside their execution, unless
\* a handler raises in it.
LEMMA RunningStep ==
  ASSUME TypeOK, Control, RunningIsLive, [Next]_vars
  PROVE  RunningIsLive'
<1> USE DEF TypeOK, Control
<1> USE DEF RunningIsLive, cellVars, workerVars, threadVars,
        kernelVars, childVars, mainVars, bounds, history
<1>1. ASSUME NEW c \in Cells, Submit(c) PROVE RunningIsLive'
  <2>1. CASE UpdateCommand(c)
    BY <1>1, <2>1 DEF Submit, UpdateCommand, CellTypes
  <2>2. CASE UNCHANGED <<status, version, shown, edits>>
    BY <1>1, <2>2 DEF Submit
  <2> QED
    BY <1>1, <2>1, <2>2 DEF Submit
<1>2. ASSUME NEW c \in Cells, ExitInputMode(c) PROVE RunningIsLive'
  BY <1>2 DEF ExitInputMode, UpdateCommand
<1>3. CASE Get
  BY <1>3 DEF Get
<1>4. CASE Enter
  BY <1>4 DEF Enter
<1>5. CASE Launch
  BY <1>5 DEF Launch
<1>6. CASE RunnerReturns
  BY <1>6 DEF RunnerReturns
<1>7. CASE PostRunCheck
  <2>1. PICK s \in Statuses \ {"running"}, o \in Outcomes : Record(s, o)
    BY <1>7 DEF PostRunCheck, Statuses, Outcomes
  <2> QED
    BY <1>7, <2>1 DEF PostRunCheck, Record, CellTypes
<1>8. CASE FailBeforeLaunch
  BY <1>8 DEF FailBeforeLaunch, CannotRun, Record, CellTypes
<1>9. ASSUME NEW bad \in BOOLEAN, PublishSubmitted(bad) PROVE RunningIsLive'
  BY <1>9 DEF BoundTypes, PublishSubmitted, Raised
<1>10. ASSUME NEW bad \in BOOLEAN, PublishStarted(bad) \/ PublishChunk(bad)
       PROVE  RunningIsLive'
  BY <1>10 DEF BoundTypes, PublishStarted, PublishChunk, Raised
<1>11. ASSUME NEW bad \in BOOLEAN, PublishErrorChunk(bad) \/ PublishDrained(bad)
       PROVE  RunningIsLive'
  BY <1>11 DEF BoundTypes, PublishErrorChunk, PublishDrained, Raised
<1>12. CASE /\ ~(Get \/ Enter \/ Launch \/ RunnerReturns \/ PostRunCheck \/
               FailBeforeLaunch)
            /\ ~(\E c \in Cells : Submit(c) \/ ExitInputMode(c))
            /\ ~(\E bad \in BOOLEAN : PublishSubmitted(bad) \/
               PublishStarted(bad) \/ PublishErrorChunk(bad) \/
               PublishDrained(bad) \/ PublishChunk(bad))
  BY <1>12
  DEF Next, Keyboard, MainThread, Worker, Command, Ended, DeleteCell, MovePop,
      PressCancel, CloseWorker, MoveInsert, EnqueueCount, EnqueuePut,
      EnqueueAnnounce, CancelMark, CancelSignal, Joined, SaveSession, ExitProcess,
      PublishTerminal, ClearActive, FinishCount, SetIdle, ChildReady,
      ChildWrites, ChildExits, ShellDies, vars
<1> HIDE DEF RunningIsLive
<1> QED
  BY <1>1, <1>2, <1>3, <1>4, <1>5, <1>6, <1>7, <1>8, <1>9, <1>10,
     <1>11, <1>12

\* Until a handler raises, no cell is left RUNNING by an execution that is over.
THEOREM NothingStranded == Spec => []RunningIsLive
<1>1. Init => RunningIsLive
  BY DEF Init, RunningIsLive
<1>2. IInv /\ RunningIsLive /\ [Next]_vars => RunningIsLive'
  BY RunningStep DEF IInv
<1> QED
  BY <1>1, <1>2, Invariance, PTL DEF Spec

-----------------------------------------------------------------------------
(* The refinement of ExecutionQueue: its safety, for any number of cells,  *)
(* submissions, cancels, edits, moves, lines and raising handlers.         *)

\* A queue without its sentinel is a sequence of cells.
LEMMA CellsOfQueue ==
  ASSUME NEW q \in Seq(Cells \union {STOP}), NEW n,
         \A i \in 1..Len(q) : i < Len(q) => q[i] \in Cells,
         n = IF q # <<>> /\ q[Len(q)] = STOP THEN Len(q) - 1 ELSE Len(q)
  PROVE  /\ SubSeq(q, 1, n) \in Seq(Cells) /\ Len(SubSeq(q, 1, n)) = n
         /\ \A i \in 1..n : SubSeq(q, 1, n)[i] = q[i]
         /\ n \in Nat /\ n <= Len(q)
<1>1. n \in Nat /\ n <= Len(q) /\ Len(q) \in Nat
  BY LenProperties, EmptySeq
<1>2. ASSUME NEW i \in 1..n PROVE q[i] \in Cells
  <2>1. i \in 1..Len(q) /\ q[i] \in Cells \union {STOP} /\ q # <<>>
    BY <1>1, <1>2, ElementOfSeq, EmptySeq
  <2>2. CASE i < Len(q)
    BY <2>1, <2>2
  <2>3. CASE i = Len(q)
    BY <1>1, <1>2, <2>1, <2>3
  <2> QED
    BY <1>1, <2>1, <2>2, <2>3
<1>3. /\ SubSeq(q, 1, n) \in Seq(Cells)
      /\ Len(SubSeq(q, 1, n)) = IF 1 <= n THEN n - 1 + 1 ELSE 0
      /\ \A i \in 1..n - 1 + 1 : SubSeq(q, 1, n)[i] = q[1 + i - 1]
  BY <1>1, <1>2, SubSeqProperties
<1> QED
  BY <1>1, <1>3

\* The user's queue is the queue without the sentinel, before a step and after.
LEMMA QueuedCellsType ==
  ASSUME TypeOK, QueueShape
  PROVE  /\ QueuedCells \in Seq(Cells) /\ Len(QueuedCells) = Backlog
         /\ \A i \in 1..Backlog : QueuedCells[i] = queue[i]
         /\ Backlog \in Nat /\ Backlog <= Len(queue)
  BY CellsOfQueue DEF TypeOK, WorkerTypes, QueueShape, QueuedCells, Backlog, StopQueued

LEMMA NextQueuedCellsType ==
  ASSUME TypeOK', QueueShape'
  PROVE  /\ QueuedCells' \in Seq(Cells) /\ Len(QueuedCells') = Backlog'
         /\ \A i \in 1..Backlog' : QueuedCells'[i] = queue'[i]
         /\ Backlog' \in Nat /\ Backlog' <= Len(queue')
  BY CellsOfQueue DEF TypeOK, WorkerTypes, QueueShape, QueuedCells, Backlog, StopQueued

\* One more cell at the end of the queue.
LEMMA QueuedCellsAppend ==
  ASSUME TypeOK, TypeOK', QueueShape, ~closed, UNCHANGED <<wpc, closed>>,
         NEW c \in Cells, queue' = Append(queue, c)
  PROVE  QueuedCells' = Append(QueuedCells, c)
<1>1. c # STOP
  BY ExecutionAssumption
<1>2. QueueShape' /\ Backlog' = Backlog + 1
  BY <1>1, QueueAppend
<1>3. /\ QueuedCells' \in Seq(Cells) /\ Len(QueuedCells') = Backlog'
      /\ \A i \in 1..Backlog' : QueuedCells'[i] = queue'[i]
  BY <1>2, NextQueuedCellsType
<1>4. /\ Append(QueuedCells, c) \in Seq(Cells)
      /\ Len(Append(QueuedCells, c)) = Backlog + 1
      /\ \A i \in 1..Backlog : Append(QueuedCells, c)[i] = queue[i]
      /\ Append(QueuedCells, c)[Backlog + 1] = c
  BY QueuedCellsType, AppendProperties
<1>5. /\ Backlog = Len(queue) /\ Backlog \in Nat
      /\ \A i \in 1..Len(queue) : queue'[i] = queue[i]
      /\ queue'[Len(queue) + 1] = c
  BY OpenQueue, QueuedCellsType, AppendProperties DEF TypeOK, WorkerTypes
<1>6. \A i \in 1..Len(QueuedCells') : QueuedCells'[i] = Append(QueuedCells, c)[i]
  BY <1>2, <1>3, <1>4, <1>5
<1> QED
  BY <1>2, <1>3, <1>4, <1>6, SeqEqual

\* The sentinel at the end of the queue is none of the user's business.
LEMMA QueuedCellsClose ==
  ASSUME TypeOK, TypeOK', QueueShape, ~closed, closed', UNCHANGED wpc,
         queue' = Append(queue, STOP)
  PROVE  QueuedCells' = QueuedCells
<1>1. QueueShape' /\ Backlog' = Backlog
  BY QueueAppend, BacklogType
<1>2. /\ QueuedCells' \in Seq(Cells) /\ Len(QueuedCells') = Backlog'
      /\ \A i \in 1..Backlog' : QueuedCells'[i] = queue'[i]
  BY <1>1, NextQueuedCellsType
<1>3. /\ QueuedCells \in Seq(Cells) /\ Len(QueuedCells) = Backlog
      /\ \A i \in 1..Backlog : QueuedCells[i] = queue[i]
  BY QueuedCellsType
<1>4. Backlog = Len(queue) /\ \A i \in 1..Len(queue) : queue'[i] = queue[i]
  BY OpenQueue, AppendProperties DEF TypeOK, WorkerTypes
<1> QED
  BY <1>1, <1>2, <1>3, <1>4, SeqEqual

\* A sequence is its first element in front of the rest.
LEMMA SplitFront ==
  ASSUME NEW S, NEW x \in S, NEW q \in Seq(S), NEW r \in Seq(S),
         Len(r) = Len(q) + 1, r[1] = x, \A i \in 1..Len(q) : r[i + 1] = q[i]
  PROVE  r = <<x>> \o q
<1> DEFINE one == <<x>>
<1>1. one \in Seq(S) /\ Len(one) = 1 /\ one[1] = x
  OBVIOUS
<1> HIDE DEF one
<1>2. /\ one \o q \in Seq(S) /\ Len(one \o q) = Len(r) /\ Len(q) \in Nat
      /\ \A i \in 1..Len(r) : (one \o q)[i] = IF i <= 1 THEN one[i] ELSE q[i - 1]
  <2>1. /\ one \o q \in Seq(S) /\ Len(one \o q) = Len(one) + Len(q)
        /\ \A i \in 1..Len(one) + Len(q) :
               (one \o q)[i] = IF i <= Len(one) THEN one[i] ELSE q[i - Len(one)]
    BY <1>1, ConcatProperties
  <2>2. Len(q) \in Nat /\ Len(r) = 1 + Len(q)
    BY LenProperties
  <2> QED
    BY <1>1, <2>1, <2>2
<1>3. ASSUME NEW i \in 1..Len(r) PROVE r[i] = (one \o q)[i]
  <2>1. CASE i = 1
    BY <1>1, <1>2, <2>1
  <2>2. CASE i # 1
    <3>1. i - 1 \in 1..Len(q) /\ i - 1 + 1 = i
      BY <1>2, <1>3, <2>2
    <3>2. r[i] = q[i - 1]
      BY <3>1
    <3> QED
      BY <1>2, <1>3, <2>2, <3>1, <3>2
  <2> QED
    BY <2>1, <2>2
<1>4. r = one \o q
  BY <1>2, <1>3, SeqEqual
<1> QED
  BY <1>4 DEF one

\* The worker takes the first one.
LEMMA QueuedCellsTail ==
  ASSUME TypeOK, TypeOK', QueueShape, QueueShape', queue # <<>>, queue' = Tail(queue),
         UNCHANGED closed
  PROVE  /\ Head(queue) = STOP => QueuedCells = <<>> /\ QueuedCells' = <<>>
         /\ Head(queue) # STOP => QueuedCells = <<Head(queue)>> \o QueuedCells'
<1>1. /\ QueuedCells \in Seq(Cells) /\ Len(QueuedCells) = Backlog
      /\ \A i \in 1..Backlog : QueuedCells[i] = queue[i]
      /\ QueuedCells' \in Seq(Cells) /\ Len(QueuedCells') = Backlog'
      /\ \A i \in 1..Backlog' : QueuedCells'[i] = queue'[i]
      /\ Backlog \in Nat /\ Backlog' \in Nat
      /\ Backlog' <= Len(queue')
  BY QueuedCellsType, NextQueuedCellsType
<1>2. /\ Head(queue) \in Cells \union {STOP} /\ Head(queue) = queue[1]
      /\ \A i \in 1..Len(queue') : queue'[i] = queue[i + 1]
  BY HeadTailProperties DEF TypeOK, WorkerTypes
<1>3. CASE Head(queue) = STOP
  BY <1>1, <1>3, QueueTail, EmptySeq
<1>4. CASE Head(queue) # STOP
  <2>1. Head(queue) \in Cells /\ Backlog' = Backlog - 1 /\ Backlog >= 1
    BY <1>1, <1>2, <1>4, QueueTail
  <2>2. QueuedCells[1] = Head(queue)
    BY <1>1, <1>2, <2>1
  <2>3. \A i \in 1..Len(QueuedCells') : QueuedCells[i + 1] = QueuedCells'[i]
    BY <1>1, <1>2, <2>1, LenProperties DEF TypeOK, WorkerTypes
  <2>4. Len(QueuedCells) = Len(QueuedCells') + 1
    BY <1>1, <2>1
  <2> QED
    BY <1>1, <1>4, <2>1, <2>2, <2>3, <2>4, SplitFront
<1> QED
  BY <1>3, <1>4

\* The head and the tail of a sequence that was given a first element.
LEMMA PushedFront ==
  ASSUME NEW S, NEW x \in S, NEW q \in Seq(S)
  PROVE  /\ <<x>> \o q # <<>> /\ <<x>> \o q \in Seq(S)
         /\ Head(<<x>> \o q) = x /\ Tail(<<x>> \o q) = q
<1>1. <<x>> \in Seq(S) /\ Len(<<x>>) = 1 /\ <<x>>[1] = x
  OBVIOUS
<1>2. /\ <<x>> \o q \in Seq(S) /\ Len(<<x>> \o q) = 1 + Len(q) /\ Len(q) \in Nat
      /\ \A i \in 1..1 + Len(q) : (<<x>> \o q)[i] = IF i <= 1 THEN x ELSE q[i - 1]
  BY <1>1, ConcatProperties, LenProperties
<1> DEFINE s == <<x>> \o q
<1> HIDE DEF s
<1>3. /\ s \in Seq(S) /\ Len(s) = 1 + Len(q) /\ Len(q) \in Nat
      /\ \A i \in 1..1 + Len(q) : s[i] = IF i <= 1 THEN x ELSE q[i - 1]
  BY <1>2 DEF s
<1>4. s # <<>> /\ Head(s) = x
  BY <1>3, EmptySeq
<1>5. /\ Tail(s) \in Seq(S) /\ Len(Tail(s)) = Len(q)
      /\ \A i \in 1..Len(q) : Tail(s)[i] = q[i]
  BY <1>3, <1>4, HeadTailProperties
<1>6. Tail(s) = q
  BY <1>5, SeqEqual
<1> QED
  BY <1>3, <1>4, <1>6 DEF s

\* The narration as its user hears it is a sequence of pairs, and it grows by
\* the pair of the event that is published.
LEMMA ToldGrows ==
  ASSUME NEW R, NEW T, \A r \in R : NarratedPair(r) \in T,
         NEW n \in Seq(R), NEW e \in R
  PROVE  [i \in DOMAIN Append(n, e) |-> NarratedPair(Append(n, e)[i])]
           = Append([i \in DOMAIN n |-> NarratedPair(n[i])], NarratedPair(e))
<1> DEFINE m == Append(n, e)
           told == [i \in DOMAIN n |-> NarratedPair(n[i])]
           after == [i \in DOMAIN m |-> NarratedPair(m[i])]
           p == NarratedPair(e)
<1>1. /\ Len(n) \in Nat /\ DOMAIN n = 1..Len(n) /\ \A i \in 1..Len(n) : n[i] \in R
  BY LenProperties, ElementOfSeq
<1>2. /\ m \in Seq(R) /\ Len(m) = Len(n) + 1
      /\ \A i \in 1..Len(n) : m[i] = n[i]
      /\ m[Len(n) + 1] = e
  BY AppendProperties
<1>3. DOMAIN m = 1..Len(n) + 1 /\ \A i \in 1..Len(n) + 1 : m[i] \in R
  BY <1>2, LenProperties, ElementOfSeq
<1> HIDE DEF m
<1>4. told \in [1..Len(n) -> T] /\ after \in [1..Len(n) + 1 -> T] /\ p \in T
  BY <1>1, <1>3
<1>5. /\ \A i \in 1..Len(n) : after[i] = told[i]
      /\ after[Len(n) + 1] = p
  BY <1>1, <1>2, <1>3
<1> HIDE DEF told, after, p
<1>6. told \in Seq(T) /\ after \in Seq(T) /\ Len(told) = Len(n) /\ Len(after) = Len(n) + 1
  BY <1>1, <1>4, SeqDef, LenProperties
<1>7. /\ Append(told, p) \in Seq(T) /\ Len(Append(told, p)) = Len(n) + 1
      /\ \A i \in 1..Len(n) : Append(told, p)[i] = told[i]
      /\ Append(told, p)[Len(n) + 1] = p
  BY <1>4, <1>6, AppendProperties
<1>8. \A i \in 1..Len(after) : after[i] = Append(told, p)[i]
  BY <1>1, <1>5, <1>6, <1>7
<1>9. after = Append(told, p)
  BY <1>6, <1>7, <1>8, SeqEqual
<1> QED
  BY <1>9 DEF m, told, after, p

\* The cell a submission is for stays in the session until it is on the queue:
\* only the thread that submits deletes and moves cells.
Present == upc \in {"count", "put"} => ucell \in members

LEMMA PresentStep ==
  ASSUME Present, [Next]_vars
  PROVE  Present'
<1> USE DEF Present, cellVars, mainVars
<1>1. ASSUME NEW c \in Cells, Submit(c) PROVE Present'
  BY <1>1 DEF Submit
<1>2. ASSUME NEW c \in Cells, ExitInputMode(c) \/ DeleteCell(c) PROVE Present'
  BY <1>2 DEF ExitInputMode, DeleteCell
<1>3. ASSUME NEW c \in Cells, MovePop(c) PROVE Present'
  BY <1>3 DEF MovePop
<1>4. CASE MoveInsert
  BY <1>4 DEF MoveInsert
<1>5. CASE CancelMark
  BY <1>5 DEF CancelMark
<1>6. CASE ~(MoveInsert \/ CancelMark \/ \E c \in Cells : Submit(c) \/ ExitInputMode(c)
              \/ DeleteCell(c) \/ MovePop(c))
  BY <1>6
  DEF Next, Keyboard, MainThread, Worker, Command, Ended, PressCancel,
      CloseWorker, EnqueueCount, EnqueuePut, EnqueueAnnounce, CancelSignal,
      Joined, SaveSession, ExitProcess, Get, Enter, Launch, RunnerReturns,
      PostRunCheck, Record, PublishTerminal, ClearActive, FinishCount, SetIdle,
      FailBeforeLaunch, PublishSubmitted, PublishStarted, PublishErrorChunk,
      PublishDrained, ChildReady, ChildWrites, PublishChunk, ChildExits,
      ShellDies, vars
<1> QED
  BY <1>1, <1>2, <1>3, <1>4, <1>5, <1>6

\* A step that moves nothing the user can tell apart.
LEMMA Unnoticed ==
  ASSUME UNCHANGED <<members, queue, wcell, begun, granted, narrated, raises>>,
         UNCHANGED <<Moving, Serving>>,
         wpc' = "enter" <=> wpc = "enter", Executing' <=> Executing
  PROVE  UNCHANGED Queue!vars
<1>1. UNCHANGED QueuedCells
  BY DEF QueuedCells, Backlog, StopQueued
<1>2. UNCHANGED Waiting /\ UNCHANGED Running
  BY <1>1 DEF Waiting, Running
<1>3. UNCHANGED Asked /\ UNCHANGED Told
  BY DEF Asked, Told
<1> QED
  BY <1>2, <1>3 DEF Queue!vars

\* The worker's own steps move no cell, and neither end the process nor, as long
\* as it lives on, the service.
LEMMA WorkerServes ==
  ASSUME UNCHANGED <<upc, ucell>>, wpc # "dead", wpc' # "dead"
  PROVE  UNCHANGED <<Moving, Serving>>
  BY DEF Moving, Serving

\* A handler that raises in the middle of an execution takes the run with it.
LEMMA RunIsLost ==
  ASSUME Executing, wcell \in Cells, wpc' = "clear", upc # "exited",
         UNCHANGED <<members, queue, upc, ucell, narrated>>, raises' = raises + 1
  PROVE  Queue!Fault
<1>1. wpc # "dead" /\ wpc # "enter"
  BY DEF Executing
<1>2. UNCHANGED <<Moving, Serving>> /\ Serving = "open"
  BY <1>1, WorkerServes DEF Serving
<1>3. UNCHANGED Waiting /\ UNCHANGED Told
  BY <1>1 DEF Waiting, QueuedCells, Backlog, StopQueued, Told
<1>4. Running # NoCell /\ Running' = NoCell /\ Asked' = FALSE
  BY ExecutionAssumption DEF Running, Asked, Executing
<1> QED
  BY <1>2, <1>3, <1>4 DEF Queue!Fault

\* Each step of the pipeline is a step of the user's queue or goes unnoticed:
\* putting a cell on the queue accepts it, deleting a cell removes it, entering
\* the kernel begins or drops the submission, granting a cancel asks for it, the
\* terminal event ends it, and a handler that raises is a fault.
LEMMA StepOfTheQueue ==
  ASSUME IInv, IInv', Present, [Next]_vars
  PROVE  [Queue!Next]_Queue!vars
<1> USE DEF cellVars, workerVars, threadVars, kernelVars, childVars, mainVars,
            bounds, history
<1>1. /\ TypeOK /\ TypeOK' /\ Control /\ QueueShape /\ QueueShape' /\ CancelState
      /\ QueuedCells \in Seq(Cells) /\ QueuedCells' \in Seq(Cells)
  BY QueuedCellsType, NextQueuedCellsType DEF IInv
<1>2. ASSUME NEW c \in Cells, DeleteCell(c) PROVE [Queue!Next]_Queue!vars
  <2>1. c \in members /\ members' = members \ {c}
    BY <1>2 DEF DeleteCell
  <2>2. UNCHANGED <<Waiting, Running, Asked, Told, Moving, Serving, raises>>
        /\ Serving # "quit"
    BY <1>2
    DEF DeleteCell, Waiting, Running, Asked, Told, QueuedCells, Backlog, StopQueued,
        Executing, Moving, Serving
  <2>3. Queue!Remove(c)
    BY <2>1, <2>2 DEF Queue!Remove
  <2> QED
    BY <2>3 DEF Queue!Next
<1>3. CASE EnqueuePut
  <2>1. ucell \in members /\ ucell \in Cells /\ ~closed
    BY <1>1, <1>3 DEF EnqueuePut, Present, Control
  <2>2. QueuedCells' = Append(QueuedCells, ucell)
    BY <1>1, <1>3, <2>1, QueuedCellsAppend DEF EnqueuePut
  <2>3. ASSUME wpc = "enter" PROVE Waiting' = Append(Waiting, ucell)
    <3> DEFINE one == <<wcell>>
               more == <<ucell>>
    <3>1. one \in Seq(Cells) /\ more \in Seq(Cells)
      BY <1>1, <2>1, <2>3 DEF Control, Holding
    <3>2. Append(QueuedCells, ucell) = QueuedCells \o more
      BY <1>1, <2>1, AppendIsConcat
    <3>3. one \o QueuedCells \in Seq(Cells)
      BY <1>1, <3>1, ConcatProperties
    <3>4. Append(one \o QueuedCells, ucell) = (one \o QueuedCells) \o more
      BY <2>1, <3>3, AppendIsConcat
    <3> HIDE DEF one, more
    <3>5. (one \o QueuedCells) \o more = one \o (QueuedCells \o more)
      BY <1>1, <3>1, ConcatAssociative
    <3>6. Waiting = one \o QueuedCells /\ Waiting' = one \o QueuedCells'
      BY <1>3, <2>3 DEF Waiting, EnqueuePut, one
    <3> QED
      BY <2>2, <3>2, <3>4, <3>5, <3>6
  <2>4. ASSUME wpc # "enter" PROVE Waiting' = Append(Waiting, ucell)
    BY <1>3, <2>2, <2>4 DEF Waiting, EnqueuePut
  <2>5. Waiting' = Append(Waiting, ucell)
    BY <2>3, <2>4
  <2>6. UNCHANGED <<members, Running, Asked, Told, Moving, Serving, raises>>
        /\ Serving # "quit"
    BY <1>3 DEF EnqueuePut, Running, Asked, Told, Executing, Moving, Serving
  <2>7. Queue!Accept(ucell)
    BY <2>1, <2>5, <2>6 DEF Queue!Accept
  <2> QED
    BY <2>1, <2>7 DEF Queue!Next
<1>4. CASE CloseWorker
  <2>1. QueuedCells' = QueuedCells
    BY <1>1, <1>4, QueuedCellsClose DEF CloseWorker, Control
  <2> QED
    BY <1>4, <2>1
    DEF CloseWorker, Queue!vars, Waiting, Running, Asked, Told, Executing, Moving,
        Serving
<1>5. CASE Get
  <2>1. UNCHANGED <<members, Running, Asked, Told, Moving, Serving, raises>>
    BY <1>5 DEF Get, Running, Asked, Told, Executing, Moving, Serving
  <2>2. /\ Head(queue) = STOP => QueuedCells = <<>> /\ QueuedCells' = <<>>
        /\ Head(queue) # STOP => QueuedCells = <<Head(queue)>> \o QueuedCells'
    BY <1>1, <1>5, QueuedCellsTail DEF Get
  <2>3. UNCHANGED Waiting
    BY <1>5, <2>2 DEF Get, Waiting
  <2> QED
    BY <2>1, <2>3 DEF Queue!vars
<1>6. CASE Enter /\ upc # "exited"
  <2>0. UNCHANGED <<Moving, Serving, raises>> /\ Serving = "open"
    BY <1>6 DEF Enter, Moving, Serving
  <2>1. wcell \in Cells /\ Waiting = <<wcell>> \o QueuedCells
    BY <1>1, <1>6 DEF Enter, Control, Holding, Waiting
  <2>2. Waiting # <<>> /\ Head(Waiting) = wcell /\ Tail(Waiting) = QueuedCells
    BY <1>1, <2>1, PushedFront
  <2>3. /\ UNCHANGED <<QueuedCells, members, wcell, begun, granted, Told>>
        /\ Running = NoCell /\ ~Asked
    BY <1>6
    DEF Enter, QueuedCells, Backlog, StopQueued, Told, Running, Asked, Executing
  <2>4. Waiting' = Tail(Waiting)
    BY <1>6, <2>2, <2>3 DEF Enter, Waiting
  <2>5. CASE wcell \notin members
    <3>1. Running' = Running /\ Asked' = Asked
      BY <1>6, <2>3, <2>5 DEF Enter, Running, Asked, Executing
    <3>2. Queue!Vanish
      BY <2>0, <2>2, <2>3, <2>4, <2>5, <3>1 DEF Queue!Vanish
    <3> QED
      BY <2>0, <3>2 DEF Queue!Next, Queue!Progress
  <2>6. CASE wcell \in members
    <3>1. Running' = wcell /\ Asked' = FALSE
      BY <1>1, <1>6, <2>3, <2>6 DEF Enter, Running, Asked, Executing, CancelState
    <3>2. Queue!Begin
      BY <2>0, <2>2, <2>3, <2>4, <2>6, <3>1 DEF Queue!Begin
    <3> QED
      BY <2>0, <3>2 DEF Queue!Next, Queue!Progress
  <2> QED
    BY <2>5, <2>6
<1>7. CASE CancelMark
  <2>1. /\ UNCHANGED <<members, wpc, wcell, queue, begun, narrated, raises>>
        /\ UNCHANGED <<Moving, Serving>>
    BY <1>7 DEF CancelMark, Moving, Serving
  <2>2. UNCHANGED <<members, Waiting, Running, Told, Moving, Serving, raises>>
    BY <2>1
    DEF Waiting, Running, Told, QueuedCells, Backlog, StopQueued, Executing
  <2>3. CASE UNCHANGED granted
    BY <2>1, <2>3, Unnoticed DEF Executing
  <2>4. CASE granted' # granted
    <3>1. /\ active = ucell /\ ucell \in Cells
          /\ granted' = granted \union {<<begun, BeforeCheck>>}
      BY <1>1, <1>7, <2>4 DEF CancelMark, Control
    <3>2. wpc \in InExecute /\ wcell = ucell
      BY <1>1, <3>1, ExecutionAssumption DEF Control
    <3>3. CASE Executing
      <4>1. Running = wcell /\ wcell # NoCell
        BY <3>1, <3>2, <3>3, ExecutionAssumption DEF Running
      <4>2. Asked' = TRUE
        <5>1. BeforeCheck \in BOOLEAN
          BY DEF BeforeCheck
        <5>2. Executing' /\ \E b \in BOOLEAN : <<begun, b>> \in granted'
          BY <2>1, <3>1, <3>3, <5>1 DEF Executing
        <5> QED
          BY <2>1, <5>2 DEF Asked
      <4>3. Queue!AskCancel
        BY <2>2, <4>1, <4>2 DEF Queue!AskCancel
      <4> QED
        BY <4>3 DEF Queue!Next
    <3>4. CASE ~Executing
      <4>1. UNCHANGED Asked
        BY <2>1, <3>4 DEF Asked, Executing
      <4> QED
        BY <2>2, <4>1 DEF Queue!vars
    <3> QED
      BY <3>3, <3>4
  <2> QED
    BY <2>3, <2>4
<1>8. CASE PublishTerminal /\ upc # "exited"
  <2> DEFINE e == [run |-> begun, cell |-> wcell, outcome |-> outcome]
             R == [run : Nat, cell : Cells, outcome : Outcomes]
  <2>1. wcell \in Cells /\ wcell # NoCell /\ outcome \in Outcomes /\ begun \in Nat
    BY <1>1, <1>8, ExecutionAssumption
    DEF PublishTerminal, Control, Holding, TypeOK, ThreadTypes, BoundTypes
  <2>2. e \in R /\ narrated \in Seq(R) /\ narrated' = Append(narrated, e)
    BY <1>1, <1>8, <2>1 DEF PublishTerminal, TypeOK, HistoryTypes
  <2>3. NarratedPair(e) = <<wcell, outcome>>
    BY DEF NarratedPair
  <2>4. \A r \in R : NarratedPair(r) \in Cells \X Outcomes
    BY DEF NarratedPair
  <2> HIDE DEF e, R
  <2>5. Told' = Append(Told, <<wcell, outcome>>)
    <3>1. [i \in DOMAIN Append(narrated, e) |-> NarratedPair(Append(narrated, e)[i])]
            = Append([i \in DOMAIN narrated |-> NarratedPair(narrated[i])], NarratedPair(e))
      BY <2>2, <2>4, ToldGrows
    <3> QED
      BY <2>2, <2>3, <3>1 DEF Told
  <2>6. Running = wcell /\ Running' = NoCell /\ Asked' = FALSE
    BY <1>8 DEF PublishTerminal, Running, Asked, Executing
  <2>7. outcome = "cancelled" => Asked
    BY <1>1, <1>8 DEF PublishTerminal, CancelState, Asked, Executing
  <2>8. UNCHANGED <<members, Waiting, Moving, Serving, raises>> /\ Serving = "open"
    BY <1>8
    DEF PublishTerminal, Waiting, QueuedCells, Backlog, StopQueued, Moving, Serving
  <2>9. Queue!End(outcome) /\ outcome \in Queue!Outcomes
    BY <2>1, <2>5, <2>6, <2>7, <2>8 DEF Queue!End, Queue!Outcomes, Outcomes
  <2> QED
    BY <2>8, <2>9 DEF Queue!Next, Queue!Progress
<1>9. ASSUME NEW bad \in BOOLEAN, upc # "exited",
             \/ PublishSubmitted(bad) \/ PublishStarted(bad) \/ PublishErrorChunk(bad)
             \/ PublishChunk(bad) /\ runner = "shell"
      PROVE  [Queue!Next]_Queue!vars
  <2>1. /\ UNCHANGED <<members, queue, wcell, begun, granted, narrated, upc, ucell>>
        /\ Executing /\ wpc # "enter" /\ wpc # "dead"
        /\ raises' = IF bad THEN raises + 1 ELSE raises
        /\ wpc' # "dead" /\ wpc' # "enter"
        /\ IF bad THEN wpc' = "clear" ELSE Executing'
    BY <1>9
    DEF PublishSubmitted, PublishStarted, PublishErrorChunk, PublishChunk, Raised,
        Executing
  <2>2. CASE ~bad
    BY <2>1, <2>2, Unnoticed, WorkerServes
  <2>3. CASE bad
    <3>1. wcell \in Cells
      BY <1>1, <2>1 DEF Control, Holding, Executing
    <3> QED
      BY <1>9, <2>1, <2>3, <3>1, RunIsLost DEF Queue!Next
  <2> QED
    BY <2>2, <2>3
<1>10. ASSUME NEW bad \in BOOLEAN, upc # "exited",
              \/ PublishDrained(bad)
              \/ PublishChunk(bad) /\ runner # "shell"
       PROVE  [Queue!Next]_Queue!vars
  <2>1. /\ UNCHANGED <<members, queue, wcell, begun, granted, narrated, upc, ucell>>
        /\ wpc # "enter" /\ wpc' # "enter" /\ wpc # "dead"
        /\ raises' = IF bad THEN raises + 1 ELSE raises
        /\ Executing' <=> Executing
        /\ wpc' = "dead" => bad /\ ~Executing
    BY <1>10 DEF PublishDrained, PublishChunk, Raised, Executing
  <2>2. UNCHANGED <<Waiting, Running, Asked, Told, Moving>>
    BY <2>1
    DEF Waiting, Running, Asked, Told, Moving, QueuedCells, Backlog, StopQueued, Executing
  <2>3. Serving = "open" /\ Serving' = IF wpc' = "dead" THEN "dead" ELSE "open"
    BY <1>10, <2>1 DEF Serving
  <2>4. wpc' = "dead" => Running = NoCell
    BY <2>1 DEF Running
  <2>5. CASE bad
    BY <2>1, <2>2, <2>3, <2>4, <2>5 DEF Queue!Fault, Queue!Next
  <2>6. CASE ~bad
    BY <2>1, <2>6, Unnoticed, WorkerServes
  <2> QED
    BY <2>5, <2>6
<1>11. ASSUME NEW c \in Cells, MovePop(c) PROVE [Queue!Next]_Queue!vars
  <2>1. /\ c \in members /\ members' = members \ {c}
        /\ Moving = NoCell /\ Moving' = c
        /\ UNCHANGED <<Waiting, Running, Asked, Told, Serving, raises>> /\ Serving # "quit"
    BY <1>11
    DEF MovePop, Moving, Serving, Waiting, Running, Asked, Told, QueuedCells, Backlog,
        StopQueued, Executing
  <2>2. Queue!Take(c)
    BY <2>1 DEF Queue!Take
  <2> QED
    BY <2>2 DEF Queue!Next
<1>12. CASE MoveInsert
  <2>1. /\ Moving = ucell /\ ucell # NoCell /\ Moving' = NoCell
        /\ members' = members \union {ucell}
        /\ UNCHANGED <<Waiting, Running, Asked, Told, Serving, raises>>
    BY <1>1, <1>12, ExecutionAssumption
    DEF MoveInsert, Control, Moving, Serving, Waiting, Running, Asked, Told, QueuedCells,
        Backlog, StopQueued, Executing
  <2>2. Queue!PutBack
    BY <2>1 DEF Queue!PutBack
  <2> QED
    BY <2>2 DEF Queue!Next
<1>13. CASE ExitProcess
  <2>1. /\ Serving # "quit" /\ Serving' = "quit" /\ Moving = NoCell
        /\ UNCHANGED <<members, Waiting, Running, Asked, Told, Moving, raises>>
    BY <1>13
    DEF ExitProcess, Moving, Serving, Waiting, Running, Asked, Told, QueuedCells,
        Backlog, StopQueued, Executing
  <2>2. Queue!Quit
    BY <2>1 DEF Queue!Quit
  <2> QED
    BY <2>2 DEF Queue!Next
<1>14. CASE \/ UNCHANGED vars \/ PressCancel \/ CancelSignal \/ EnqueueCount
            \/ EnqueueAnnounce \/ Joined \/ SaveSession
            \/ ChildReady \/ ChildWrites \/ ChildExits \/ ShellDies
            \/ \E c \in Cells : Submit(c) \/ ExitInputMode(c)
  <2>1. /\ UNCHANGED <<members, queue, wpc, wcell, begun, granted, narrated, raises>>
        /\ UNCHANGED <<Moving, Serving>>
    BY <1>14
    DEF vars, PressCancel, CancelSignal, EnqueueCount, EnqueueAnnounce, Joined,
        SaveSession, ChildReady, ChildWrites, ChildExits, ShellDies, Submit,
        ExitInputMode, Moving, Serving
  <2> QED
    BY <2>1, Unnoticed DEF Executing
<1>15. CASE \/ Launch \/ RunnerReturns \/ PostRunCheck \/ ClearActive \/ FinishCount
            \/ SetIdle \/ FailBeforeLaunch
  <2>1. /\ UNCHANGED <<members, queue, wcell, begun, granted, narrated, raises, upc, ucell>>
        /\ wpc' # "enter" /\ wpc # "enter" /\ (Executing' <=> Executing)
        /\ wpc # "dead" /\ wpc' # "dead"
    BY <1>15
    DEF Launch, RunnerReturns, PostRunCheck, ClearActive, FinishCount, SetIdle,
        FailBeforeLaunch, CannotRun, Record, Executing
  <2> QED
    BY <2>1, Unnoticed, WorkerServes
<1>16. ASSUME Worker PROVE [Queue!Next]_Queue!vars
  <2>1. upc # "exited"
    BY <1>16 DEF Worker
  <2>2. ASSUME NEW bad \in BOOLEAN,
               PublishSubmitted(bad) \/ PublishStarted(bad) \/ PublishErrorChunk(bad)
        PROVE  [Queue!Next]_Queue!vars
    BY <1>9, <2>1, <2>2
  <2>3. ASSUME NEW bad \in BOOLEAN, PublishDrained(bad) PROVE [Queue!Next]_Queue!vars
    BY <1>10, <2>1, <2>3
  <2> QED
    BY <1>5, <1>6, <1>8, <1>15, <1>16, <2>1, <2>2, <2>3 DEF Worker
<1>17. ASSUME Command PROVE [Queue!Next]_Queue!vars
  <2>1. upc # "exited"
    BY <1>17 DEF Command
  <2>2. ASSUME NEW bad \in BOOLEAN, PublishChunk(bad) PROVE [Queue!Next]_Queue!vars
    <3>1. CASE runner = "shell"
      BY <1>9, <2>1, <2>2, <3>1
    <3>2. CASE runner # "shell"
      BY <1>10, <2>1, <2>2, <3>2
    <3> QED
      BY <3>1, <3>2
  <2> QED
    BY <1>14, <1>17, <2>2 DEF Command
<1>18. ASSUME Keyboard \/ MainThread PROVE [Queue!Next]_Queue!vars
  BY <1>2, <1>3, <1>7, <1>11, <1>12, <1>13, <1>14, <1>18 DEF Keyboard, MainThread
<1> QED
  BY <1>4, <1>14, <1>16, <1>17, <1>18 DEF Next, Ended

\* The pipeline implements the user's queue, as far as safety goes: submissions
\* are begun in the order they were accepted, one at a time, each at most once,
\* and each is narrated at most once, as cancelled only if that was asked for
\* while it ran.  A submission is dropped only when its cell is deleted or on the
\* move, and goes without its end only for a handler that raised, one handler for
\* one submission.  It holds for any number of cells, submissions, cancels, moves,
\* output lines and raising handlers, with either runner, and even when close
\* does not wait for the worker.
THEOREM ImplementsQueueSafely == Spec => Queue!Spec
<1>1. Init => Queue!Init /\ Present
  <2> SUFFICES ASSUME Init PROVE Queue!Init /\ Present
    OBVIOUS
  <2>1. Backlog = 0
    BY EmptySeq DEF Init, Backlog, StopQueued
  <2>2. QueuedCells = <<>>
    BY <2>1, SubSeqEmpty DEF QueuedCells
  <2>3. Told = <<>>
    BY DEF Init, Told
  <2> QED
    BY <2>2, <2>3
    DEF Init, Queue!Init, Waiting, Running, Asked, Executing, Moving, Serving, Present
<1>2. Present /\ [Next]_vars => Present'
  BY PresentStep
<1>3. IInv /\ IInv' /\ Present /\ [Next]_vars => [Queue!Next]_Queue!vars
  BY StepOfTheQueue
<1> QED
  BY <1>1, <1>2, <1>3, Invariance, PTL DEF Spec, Queue!Spec
=============================================================================
