------------------------------ MODULE Execution ------------------------------
(***************************************************************************)
(* The asynchronous execution pipeline: the keyboard (main) thread that    *)
(* submits cells, presses Ctrl+C and finally closes the application; the   *)
(* ExecutionWorker thread with its queue, in-flight counter and idle event;*)
(* the ExecutionKernel with its cancel coordination; and the commands given *)
(* to the runner.  All of them meet in the EventBus, whose lock is held for *)
(* a whole dispatch.                                                       *)
(*                                                                         *)
(* The runner is a ShellBackend, one shell for the whole session, or a     *)
(* ProcessRunner, one process for each command; which, is decided at the   *)
(* start.  What a command writes waits in `pipe` until it is collected,    *)
(* and so does the end of its output.  One pipe stands for the two streams *)
(* (module ShellBackend tells them apart).  A handler of OUTPUT_CHUNK or   *)
(* ERROR_CHUNK that raises leaves the shell's execution in the middle of   *)
(* its command: `torn` remembers those runs.                               *)
(*                                                                         *)
(* Atomicity.  A publish on the worker side is one step, enabled while the *)
(* bus is free.  The only dispatch that spans several steps is the main    *)
(* thread's ACTION_INVOKED("cancel_command"), because its handler calls    *)
(* into the kernel and the runner while the bus lock is held: `bus` is     *)
(* "main" for as long as that lasts.  Code between two accesses to shared  *)
(* state is merged into one step.                                          *)
(***************************************************************************)
EXTENDS Naturals, Sequences

CONSTANTS
  Cells,           \* identifiers of the notebook's command cells
  NoCell,          \* kernel._active_cell_id is None
  STOP,            \* _STOP_SENTINEL
  Deletable,       \* the cells the user may delete
  Movable,         \* the cells the user may move
  MaxSubmits,      \* bound on submissions
  MaxCancels,      \* bound on Ctrl+C presses
  MaxEdits,        \* bound on edits of a cell's command
  MaxLines,        \* bound on the output lines of one run
  MaxRaises        \* bound on bus handlers that raise under worker or pump

ASSUME ExecutionAssumption ==
  /\ NoCell \notin Cells
  /\ STOP \notin Cells
  /\ NoCell # STOP
  /\ Deletable \subseteq Cells
  /\ Movable \subseteq Cells
  /\ MaxSubmits \in Nat
  /\ MaxCancels \in Nat
  /\ MaxEdits \in Nat
  /\ MaxLines \in Nat
  /\ MaxRaises \in Nat

Statuses == {"pending", "running", "completed", "failed", "cancelled"}
Outcomes == {"completed", "failed", "cancelled", "unlaunched"}

VARIABLES
  members,    \* session: cells present
  status,     \* cell.status
  version,    \* which edit of its command a cell holds
  shown,      \* which edit the recorded output belongs to; 0 for no output
  queue,      \* ExecutionWorker._queue
  inflight,   \* ExecutionWorker._inflight
  idle,       \* ExecutionWorker._idle
  closed,     \* ExecutionWorker._closed
  wpc,        \* where the worker thread is
  wcell,      \* the cell it is working on
  reqVersion, \* the edit its ExecutionRequest was built from
  outcome,    \* the terminal event it is about to publish
  active,     \* ExecutionKernel._active_cell_id
  cancelled,  \* ExecutionKernel._cancelled_cells
  runner,     \* "shell" or "process"
  jobs,       \* the runs whose command the runner has and that has not ended
  child,      \* the state of the first of them; "gone" once the shell is dead
              \* and nothing holds its pipes any more
  pipe,       \* [run, end]: lines and ends of output not collected yet
  written,    \* output lines the first of the jobs has written
  torn,       \* the runs during which a handler of a chunk raised
  upc,        \* where the main thread is
  ucell,      \* the cell it is submitting or cancelling
  bus,        \* "main" while the main thread is inside a dispatch
  accepted,   \* submissions put on the queue so far
  begun,      \* submissions taken off it so far: the number of the current run
  cancels,    \* Ctrl+C presses so far
  edits,      \* edits so far
  raises,     \* handler exceptions so far
  granted,    \* <<run, before the post-run check?>> of each cancel() that returned True
  hits,       \* the runs whose command received a cancel signal
  narrated    \* [run, cell, outcome] of each terminal event, in order

cellVars   == <<members, status, version, shown>>
workerVars == <<queue, inflight, idle, closed>>
threadVars == <<wpc, wcell, reqVersion, outcome>>
kernelVars == <<active, cancelled>>
childVars  == <<runner, jobs, child, pipe, written, torn>>
mainVars   == <<upc, ucell, bus>>
bounds     == <<accepted, begun, cancels, edits, raises>>
history    == <<granted, hits, narrated>>
vars == <<cellVars, workerVars, threadVars, kernelVars, childVars, mainVars,
          bounds, history>>

WorkerPCs == {"get", "enter", "submit", "start", "launch", "run", "check",
              "errchunk", "publish", "clear", "count", "drained", "setidle",
              "stopped", "dead"}
MainPCs == {"loop", "moving", "count", "put", "announce", "cancel", "signal", "join",
            "save", "teardown", "exited"}

Init ==
  /\ members = Cells
  /\ status = [c \in Cells |-> "pending"]
  /\ version = [c \in Cells |-> 1]
  /\ shown = [c \in Cells |-> 0]
  /\ queue = <<>> /\ inflight = 0 /\ idle = TRUE /\ closed = FALSE
  /\ wpc = "get" /\ wcell = NoCell /\ reqVersion = 0 /\ outcome = "failed"
  /\ active = NoCell /\ cancelled = {}
  /\ runner \in {"shell", "process"}
  /\ jobs = <<>> /\ child = "none" /\ pipe = <<>> /\ written = 0 /\ torn = {}
  /\ upc = "loop" /\ ucell = NoCell /\ bus = "free"
  /\ accepted = 0 /\ begun = 0 /\ cancels = 0 /\ edits = 0 /\ raises = 0
  /\ granted = {} /\ hits = {} /\ narrated = <<>>

-----------------------------------------------------------------------------
(* The main thread. *)

\* Cell.update_command: the output is cleared and the cell is pending again.
UpdateCommand(c) ==
  /\ edits < MaxEdits
  /\ edits' = edits + 1
  /\ version' = [version EXCEPT ![c] = @ + 1]
  /\ shown' = [shown EXCEPT ![c] = 0]
  /\ status' = [status EXCEPT ![c] = "pending"]

\* Leaving INPUT mode commits the edited buffer to the cell.
ExitInputMode(c) ==
  /\ upc = "loop" /\ c \in members
  /\ UpdateCommand(c)
  /\ UNCHANGED <<members, workerVars, threadVars, kernelVars, childVars,
                 mainVars, accepted, begun, cancels, raises, history>>

DeleteCell(c) ==
  /\ upc = "loop" /\ c \in members \intersect Deletable
  /\ members' = members \ {c}
  /\ UNCHANGED <<status, version, shown, workerVars, threadVars, kernelVars,
                 childVars, mainVars, bounds, history>>

\* Session.move_cell pops the cell and inserts it elsewhere, with no lock: in
\* between, another thread does not find it.
MovePop(c) ==
  /\ upc = "loop" /\ c \in members \intersect Movable
  /\ members' = members \ {c}
  /\ upc' = "moving" /\ ucell' = c
  /\ UNCHANGED <<status, version, shown, workerVars, threadVars, kernelVars,
                 childVars, bus, bounds, history>>

MoveInsert ==
  /\ upc = "moving"
  /\ members' = members \union {ucell}
  /\ upc' = "loop"
  /\ UNCHANGED <<status, version, shown, workerVars, threadVars, kernelVars,
                 childVars, ucell, bus, bounds, history>>

\* Enter in INPUT mode; the buffer may differ from the command it replaces.
Submit(c) ==
  /\ upc = "loop" /\ c \in members /\ accepted < MaxSubmits
  /\ \/ UpdateCommand(c)
     \/ UNCHANGED <<status, version, shown, edits>>
  /\ upc' = "count" /\ ucell' = c
  /\ UNCHANGED <<members, workerVars, threadVars, kernelVars, childVars, bus,
                 accepted, begun, cancels, raises, history>>

EnqueueCount ==
  /\ upc = "count" /\ ~closed
  /\ inflight' = inflight + 1
  /\ idle' = FALSE
  /\ upc' = "put"
  /\ UNCHANGED <<cellVars, queue, closed, threadVars, kernelVars, childVars,
                 ucell, bus, bounds, history>>

EnqueuePut ==
  /\ upc = "put"
  /\ queue' = Append(queue, ucell)
  /\ accepted' = accepted + 1
  /\ upc' = "announce"
  /\ UNCHANGED <<cellVars, inflight, idle, closed, threadVars, kernelVars,
                 childVars, ucell, bus, begun, cancels, edits, raises, history>>

\* COMMAND_QUEUED is published once the worker can already see the cell.
EnqueueAnnounce ==
  /\ upc = "announce"
  /\ upc' = "loop"
  /\ UNCHANGED <<cellVars, workerVars, threadVars, kernelVars, childVars,
                 ucell, bus, bounds, history>>

\* Mutant: the bus lock is not held while handlers run.
PressCancelUnlocked ==
  /\ upc = "loop" /\ cancels < MaxCancels
  /\ cancels' = cancels + 1
  /\ IF active = NoCell
       THEN UNCHANGED <<upc, ucell>>
       ELSE upc' = "cancel" /\ ucell' = active
  /\ UNCHANGED <<bus, cellVars, workerVars, threadVars, kernelVars, childVars,
                 accepted, begun, edits, raises, history>>

\* Ctrl+C: the dispatch of ACTION_INVOKED takes the bus and reads the active
\* cell; with nothing running it only publishes a HELP_REQUESTED hint.
PressCancel ==
  /\ upc = "loop" /\ cancels < MaxCancels
  /\ cancels' = cancels + 1
  /\ IF active = NoCell
       THEN UNCHANGED <<upc, ucell, bus>>
       ELSE upc' = "cancel" /\ ucell' = active /\ bus' = "main"
  /\ UNCHANGED <<cellVars, workerVars, threadVars, kernelVars, childVars,
                 accepted, begun, edits, raises, history>>

\* The kernel is executing and has not yet looked at its cancel markers.
BeforeCheck == wpc \in {"submit", "start", "launch", "run", "check"}

\* kernel.cancel, the part under its lock.
CancelMark ==
  /\ upc = "cancel"
  /\ IF active # ucell
       THEN /\ upc' = "loop" /\ bus' = "free"
            /\ UNCHANGED <<cancelled, granted>>
       ELSE /\ cancelled' = cancelled \union {ucell}
            /\ granted' = granted \union
                 {<<begun, BeforeCheck>>}
            /\ upc' = "signal"
            /\ UNCHANGED bus
  /\ UNCHANGED <<cellVars, workerVars, threadVars, active, childVars, ucell,
                 bounds, hits, narrated>>

\* runner.cancel: the signal reaches whatever command is in the foreground.
CancelSignal ==
  /\ upc = "signal"
  /\ hits' = IF child = "alive" THEN hits \union {Head(jobs)} ELSE hits
  /\ upc' = "loop" /\ bus' = "free"
  /\ UNCHANGED <<cellVars, workerVars, threadVars, kernelVars, childVars,
                 ucell, bounds, granted, narrated>>

\* Mutant: the sentinel jumps the queue.
CloseWorkerNow ==
  /\ upc = "loop"
  /\ closed' = TRUE
  /\ queue' = <<STOP>> \o queue
  /\ upc' = "join"
  /\ UNCHANGED <<cellVars, inflight, idle, threadVars, kernelVars, childVars,
                 ucell, bus, bounds, history>>

\* The loop ends (:quit or EOF) and Application.close calls worker.close.
CloseWorker ==
  /\ upc = "loop"
  /\ closed' = TRUE
  /\ queue' = Append(queue, STOP)
  /\ upc' = "join"
  /\ UNCHANGED <<cellVars, inflight, idle, threadVars, kernelVars, childVars,
                 ucell, bus, bounds, history>>

\* The join returns when the thread has ended, or after five seconds: nothing
\* that is left to be done then keeps close waiting.
Joined ==
  /\ upc = "join"
  /\ upc' = "save"
  /\ UNCHANGED <<cellVars, workerVars, threadVars, kernelVars, childVars,
                 ucell, bus, bounds, history>>

SaveSession ==
  /\ upc = "save"
  /\ upc' = "teardown"
  /\ UNCHANGED <<cellVars, workerVars, threadVars, kernelVars, childVars,
                 ucell, bus, bounds, history>>

\* The runner is closed and the process ends, the daemon worker with it.
ExitProcess ==
  /\ upc = "teardown"
  /\ upc' = "exited"
  /\ UNCHANGED <<cellVars, workerVars, threadVars, kernelVars, childVars,
                 ucell, bus, bounds, history>>

-----------------------------------------------------------------------------
(* The worker thread and, inside it, ExecutionKernel.execute. *)

\* A handler raised while the worker was publishing (`bad`), or none did.
Raised(bad) ==
  /\ bad => raises < MaxRaises
  /\ raises' = IF bad THEN raises + 1 ELSE raises

\* _run: block on the queue; the sentinel ends the thread.
Get ==
  /\ wpc = "get" /\ queue # <<>>
  /\ queue' = Tail(queue)
  /\ IF Head(queue) = STOP
       THEN wpc' = "stopped" /\ UNCHANGED <<wcell, begun>>
       ELSE wpc' = "enter" /\ wcell' = Head(queue) /\ begun' = begun + 1
  /\ UNCHANGED <<cellVars, inflight, idle, closed, reqVersion, outcome,
                 kernelVars, childVars, mainVars, accepted, cancels, edits,
                 raises, history>>

\* Mutant: the marker of an earlier run is not dropped.
EnterKeepingMarker ==
  /\ wpc = "enter"
  /\ IF wcell \notin members
       THEN wpc' = "count" /\ UNCHANGED <<reqVersion, active>>
       ELSE wpc' = "submit" /\ reqVersion' = version[wcell] /\ active' = wcell
  /\ UNCHANGED <<cancelled, cellVars, workerVars, wcell, outcome, childVars,
                 mainVars, bounds, history>>

\* get_cell fails on a deleted cell and the error is swallowed; otherwise the
\* request captures the command and the kernel claims the active slot,
\* dropping a marker an earlier run of the same cell left behind.
Enter ==
  /\ wpc = "enter"
  /\ IF wcell \notin members
       THEN wpc' = "count" /\ UNCHANGED <<reqVersion, kernelVars>>
       ELSE /\ wpc' = "submit"
            /\ reqVersion' = version[wcell]
            /\ active' = wcell
            /\ cancelled' = cancelled \ {wcell}
  /\ UNCHANGED <<cellVars, workerVars, wcell, outcome, childVars, mainVars,
                 bounds, history>>

\* Mutant: the leftover marker is dropped after COMMAND_SUBMITTED.
PublishSubmittedDroppingMarker(bad) ==
  /\ wpc = "submit" /\ bus = "free"
  /\ Raised(bad)
  /\ wpc' = IF bad THEN "clear" ELSE "start"
  /\ status' = IF bad THEN status ELSE [status EXCEPT ![wcell] = "running"]
  /\ cancelled' = cancelled \ {wcell}
  /\ UNCHANGED <<members, version, shown, workerVars, wcell, reqVersion,
                 outcome, active, childVars, mainVars, accepted, begun,
                 cancels, edits, history>>

\* Mutant: an exception out of execute skips _finish_one.
PublishSubmittedUncounted(bad) ==
  /\ wpc = "submit" /\ bus = "free"
  /\ Raised(bad)
  /\ wpc' = IF bad THEN "get" ELSE "start"
  /\ status' = IF bad THEN status ELSE [status EXCEPT ![wcell] = "running"]
  /\ active' = IF bad THEN NoCell ELSE active
  /\ UNCHANGED <<members, version, shown, workerVars, wcell, reqVersion,
                 outcome, cancelled, childVars, mainVars, accepted, begun,
                 cancels, edits, history>>

\* COMMAND_SUBMITTED, then cell.mark_running.
PublishSubmitted(bad) ==
  /\ wpc = "submit" /\ bus = "free"
  /\ Raised(bad)
  /\ wpc' = IF bad THEN "clear" ELSE "start"
  /\ status' = IF bad THEN status ELSE [status EXCEPT ![wcell] = "running"]
  /\ UNCHANGED <<members, version, shown, workerVars, wcell, reqVersion,
                 outcome, kernelVars, childVars, mainVars, accepted, begun,
                 cancels, edits, history>>

PublishStarted(bad) ==
  /\ wpc = "start" /\ bus = "free"
  /\ Raised(bad)
  /\ wpc' = IF bad THEN "clear" ELSE "launch"
  /\ UNCHANGED <<cellVars, workerVars, wcell, reqVersion, outcome, kernelVars,
                 childVars, mainVars, accepted, begun, cancels, edits, history>>

\* The command is given to the runner.  A shell that is still busy with one
\* reads it once that one has ended.
Launch ==
  /\ wpc = "launch" /\ child # "gone"
  /\ wpc' = "run"
  /\ jobs' = Append(jobs, begun)
  /\ IF jobs = <<>> THEN child' = "fresh" /\ written' = 0
                    ELSE UNCHANGED <<child, written>>
  /\ UNCHANGED <<cellVars, workerVars, wcell, reqVersion, outcome, kernelVars,
                 runner, pipe, torn, mainVars, bounds, history>>

\* The final status and the output are recorded on the cell, and o is what the
\* kernel will publish.
Record(s, o) ==
  /\ status' = [status EXCEPT ![wcell] = s]
  /\ shown' = [shown EXCEPT ![wcell] = reqVersion]
  /\ outcome' = o
  /\ UNCHANGED <<members, version>>

\* No command's end is on its way.
NoEnd == \A i \in DOMAIN pipe : ~pipe[i].end

\* runner.run can raise: the command cannot be launched, or the shell is gone
\* before the end of the output has come.
CannotRun == wpc = "launch" \/ (wpc = "run" /\ child = "gone" /\ NoEnd)

\* Mutant: the failure is recorded on the cell but never published.
FailSilently ==
  /\ CannotRun
  /\ Record("failed", "unlaunched")
  /\ wpc' = "clear"
  /\ UNCHANGED <<workerVars, wcell, reqVersion, kernelVars, childVars, mainVars,
                 bounds, history>>

\* _fail_before_launch leaves the cancel marker alone.
FailBeforeLaunch ==
  /\ CannotRun
  /\ Record("failed", "unlaunched")
  /\ wpc' = "errchunk"
  /\ UNCHANGED <<workerVars, wcell, reqVersion, kernelVars, childVars, mainVars,
                 bounds, history>>

PublishErrorChunk(bad) ==
  /\ wpc = "errchunk" /\ bus = "free"
  /\ Raised(bad)
  /\ wpc' = IF bad THEN "clear" ELSE "publish"
  /\ UNCHANGED <<cellVars, workerVars, wcell, reqVersion, outcome, kernelVars,
                 childVars, mainVars, accepted, begun, cancels, edits, history>>

\* Mutant: the pumps are not joined.
RunnerReturnsEarly ==
  /\ wpc = "run" /\ jobs = <<>>
  /\ wpc' = "check"
  /\ UNCHANGED <<cellVars, workerVars, wcell, reqVersion, outcome, kernelVars,
                 childVars, mainVars, bounds, history>>

\* The output has come to an end: the pumps were joined, the collectors have
\* met their sentinels.  No collector asks whose sentinel it is.
RunnerReturns ==
  /\ wpc = "run" /\ pipe # <<>> /\ Head(pipe).end
  /\ pipe' = Tail(pipe)
  /\ wpc' = "check"
  /\ UNCHANGED <<cellVars, workerVars, wcell, reqVersion, outcome, kernelVars,
                 runner, jobs, child, written, torn, mainVars, bounds, history>>

\* The post-run check consumes the cancel marker and settles the cell.
PostRunCheck ==
  /\ wpc = "check"
  /\ IF wcell \in cancelled
       THEN Record("cancelled", "cancelled")
       ELSE \E s \in {"completed", "failed"} : Record(s, s)
  /\ cancelled' = cancelled \ {wcell}
  /\ wpc' = "publish"
  /\ UNCHANGED <<workerVars, wcell, reqVersion, active, childVars, mainVars,
                 bounds, history>>

\* COMMAND_COMPLETED, _FAILED or _CANCELLED.  Every handler is called even if
\* one raises, and a raise is swallowed in _run, so it changes nothing here.
PublishTerminal ==
  /\ wpc = "publish" /\ bus = "free"
  /\ narrated' = Append(narrated,
                        [run |-> begun, cell |-> wcell, outcome |-> outcome])
  /\ wpc' = "clear"
  /\ UNCHANGED <<cellVars, workerVars, wcell, reqVersion, outcome, kernelVars,
                 childVars, mainVars, bounds, granted, hits>>

\* The finally clause of execute.
ClearActive ==
  /\ wpc = "clear"
  /\ active' = IF active = wcell THEN NoCell ELSE active
  /\ wpc' = "count"
  /\ UNCHANGED <<cellVars, workerVars, wcell, reqVersion, outcome, cancelled,
                 childVars, mainVars, bounds, history>>

\* _finish_one, the part under its lock.
FinishCount ==
  /\ wpc = "count"
  /\ inflight' = inflight - 1
  /\ wpc' = IF inflight = 1 THEN "drained" ELSE "get"
  /\ UNCHANGED <<cellVars, queue, idle, closed, wcell, reqVersion, outcome,
                 kernelVars, childVars, mainVars, bounds, history>>

\* Mutant: the idle event is not set after the publish.
PublishDrainedOnly(bad) ==
  /\ wpc = "drained" /\ bus = "free"
  /\ Raised(bad)
  /\ wpc' = IF bad THEN "dead" ELSE "get"
  /\ UNCHANGED <<cellVars, workerVars, wcell, reqVersion, outcome, kernelVars,
                 childVars, mainVars, accepted, begun, cancels, edits, history>>

\* QUEUE_DRAINED.  This publish is in _run's finally clause, outside the try
\* that swallows exceptions: a handler that raises ends the thread.
PublishDrained(bad) ==
  /\ wpc = "drained" /\ bus = "free"
  /\ Raised(bad)
  /\ wpc' = IF bad THEN "dead" ELSE "setidle"
  /\ UNCHANGED <<cellVars, workerVars, wcell, reqVersion, outcome, kernelVars,
                 childVars, mainVars, accepted, begun, cancels, edits, history>>

SetIdle ==
  /\ wpc = "setidle"
  /\ idle' = TRUE
  /\ wpc' = "get"
  /\ UNCHANGED <<cellVars, queue, inflight, closed, wcell, reqVersion, outcome,
                 kernelVars, childVars, mainVars, bounds, history>>

-----------------------------------------------------------------------------
(* The commands and the threads that read their output. *)

\* ProcessRunner has registered the process; the shell has read the command.
ChildReady ==
  /\ child = "fresh"
  /\ child' = "alive"
  /\ UNCHANGED <<cellVars, workerVars, threadVars, kernelVars, runner, jobs, pipe,
                 written, torn, mainVars, bounds, history>>

ChildWrites ==
  /\ child = "alive" /\ written < MaxLines
  /\ written' = written + 1
  /\ pipe' = Append(pipe, [run |-> Head(jobs), end |-> FALSE])
  /\ UNCHANGED <<cellVars, workerVars, threadVars, kernelVars, runner, jobs, child,
                 torn, mainVars, bounds, history>>

\* The end of the output follows: the shell's sentinels, or end of file.  The
\* shell goes on to the command it was given meanwhile, if it was given one.
ChildExits ==
  /\ child = "alive"
  /\ pipe' = Append(pipe, [run |-> Head(jobs), end |-> TRUE])
  /\ jobs' = Tail(jobs)
  /\ child' = IF Tail(jobs) = <<>> THEN "none" ELSE "fresh"
  /\ written' = 0
  /\ UNCHANGED <<cellVars, workerVars, threadVars, kernelVars, runner, torn,
                 mainVars, bounds, history>>

\* The shell has died and whatever else held its pipes has ended too; until
\* then the collectors wait as for a command that runs on.
ShellDies ==
  /\ runner = "shell" /\ child # "gone"
  /\ child' = "gone"
  /\ jobs' = <<>>
  /\ UNCHANGED <<cellVars, workerVars, threadVars, kernelVars, runner, pipe,
                 written, torn, mainVars, bounds, history>>

\* OUTPUT_CHUNK or ERROR_CHUNK.  With the shell the worker itself collects: a
\* handler that raises takes it out of execute, though the command goes on.
\* With a process the handler is called by a pump thread, which dies of it; the
\* lines left to that pump are lost, and leave the pipe without being published.
PublishChunk(bad) ==
  /\ wpc = "run" /\ pipe # <<>> /\ ~Head(pipe).end
  /\ bus = "free" \/ (begun \in torn /\ ~bad)
  /\ Raised(bad)
  /\ pipe' = Tail(pipe)
  /\ torn' = IF bad THEN torn \union {begun} ELSE torn
  /\ wpc' = IF bad /\ runner = "shell" THEN "clear" ELSE wpc
  /\ UNCHANGED <<cellVars, workerVars, wcell, reqVersion, outcome, kernelVars, runner,
                 jobs, child, written, mainVars, accepted, begun, cancels, edits, history>>

-----------------------------------------------------------------------------
Keyboard ==
  \E c \in Cells : Submit(c) \/ ExitInputMode(c) \/ DeleteCell(c) \/ MovePop(c)

MainThread ==
  \/ MoveInsert
  \/ EnqueueCount \/ EnqueuePut \/ EnqueueAnnounce
  \/ CancelMark \/ CancelSignal
  \/ Joined \/ SaveSession \/ ExitProcess

Worker ==
  /\ upc # "exited"
  /\ \/ Get \/ Enter \/ Launch \/ RunnerReturns \/ PostRunCheck
     \/ PublishTerminal \/ ClearActive \/ FinishCount \/ SetIdle
     \/ FailBeforeLaunch
     \/ \E bad \in BOOLEAN : \/ PublishSubmitted(bad) \/ PublishStarted(bad)
                             \/ PublishErrorChunk(bad) \/ PublishDrained(bad)

Command ==
  /\ upc # "exited"
  /\ \/ ChildReady \/ ChildWrites \/ ChildExits \/ ShellDies
     \/ \E bad \in BOOLEAN : PublishChunk(bad)

\* The application has ended.
Ended == upc = "exited" /\ UNCHANGED vars

Next == Keyboard \/ PressCancel \/ CloseWorker \/ MainThread \/ Worker \/ Command \/ Ended

Spec == Init /\ [][Next]_vars

\* Threads are scheduled, commands end and let go of their pipes; nobody has to
\* press a key, and no shell has to die.
Fairness ==
  /\ WF_vars(MainThread)
  /\ WF_vars(Worker)
  /\ WF_vars(upc # "exited" /\ (ChildReady \/ ChildExits))
  /\ WF_vars(upc # "exited" /\ \E bad \in BOOLEAN : PublishChunk(bad))

FairSpec == Spec /\ Fairness

-----------------------------------------------------------------------------
(* Types and safety. *)

CellTypes ==
  /\ members \subseteq Cells
  /\ status \in [Cells -> Statuses]
  /\ version \in [Cells -> Nat \ {0}]
  /\ shown \in [Cells -> Nat]

WorkerTypes ==
  /\ queue \in Seq(Cells \union {STOP})
  /\ inflight \in Nat
  /\ idle \in BOOLEAN
  /\ closed \in BOOLEAN

ThreadTypes ==
  /\ wpc \in WorkerPCs
  /\ wcell \in Cells \union {NoCell}
  /\ reqVersion \in Nat
  /\ outcome \in Outcomes

KernelTypes ==
  /\ active \in Cells \union {NoCell}
  /\ cancelled \subseteq Cells

ChildTypes ==
  /\ runner \in {"shell", "process"}
  /\ jobs \in Seq(Nat)
  /\ child \in {"none", "fresh", "alive", "gone"}
  /\ pipe \in Seq([run : Nat, end : BOOLEAN])
  /\ written \in Nat
  /\ torn \subseteq Nat

MainTypes ==
  /\ upc \in MainPCs
  /\ ucell \in Cells \union {NoCell}
  /\ bus \in {"free", "main"}

BoundTypes ==
  /\ accepted \in Nat
  /\ begun \in Nat
  /\ cancels \in Nat
  /\ edits \in Nat
  /\ raises \in Nat

HistoryTypes ==
  /\ granted \subseteq Nat \X BOOLEAN
  /\ hits \subseteq Nat
  /\ narrated \in Seq([run : Nat, cell : Cells, outcome : Outcomes])

\* Every variable has its type; in particular the in-flight counter never goes
\* below zero.
TypeOK ==
  /\ CellTypes /\ WorkerTypes /\ ThreadTypes /\ KernelTypes
  /\ ChildTypes /\ MainTypes /\ BoundTypes /\ HistoryTypes

StopQueued == queue # <<>> /\ queue[Len(queue)] = STOP
Backlog == IF StopQueued THEN Len(queue) - 1 ELSE Len(queue)
\* The worker has taken a cell and has not counted it off yet.
Holding == wpc \notin {"get", "drained", "setidle", "stopped", "dead"}

\* ExecutionWorker._inflight "counts pending + in-flight cells": at every
\* moment, across the three threads that touch it, it is the number of queued
\* cells, plus the one being run, plus the one counted but not yet put.
InflightExact ==
  inflight = Backlog + (IF Holding THEN 1 ELSE 0) + (IF upc = "put" THEN 1 ELSE 0)

\* A run whose output no longer comes to itself: the shell was left in the middle
\* of this command, or of an earlier one.
Astray(r) == runner = "shell" /\ \E t \in torn : t <= r

\* A cancel signal only ever reaches the command the user was cancelling: the
\* shell backend signals whatever is in the foreground, long after kernel.cancel
\* looked at the active cell, and no other run may have launched by then.  From
\* the first command on that a raising handler of its output has left running,
\* this is no longer so.
CancelHitsItsTarget == \A r \in hits : <<r, TRUE>> \in granted \/ Astray(r)

\* A run is narrated as cancelled only if Ctrl+C was accepted during that very
\* run: a marker left by a late cancel never cancels a later run of the cell.
CancelledWasAsked ==
  \A i \in DOMAIN narrated :
    narrated[i].outcome = "cancelled" => <<narrated[i].run, TRUE>> \in granted

\* A cancel accepted before the post-run check is never forgotten: if the end of
\* its run is narrated at all (no handler raised before it), it is narrated as
\* cancelled, unless the command could not be launched.
EarlyCancelIsNarrated ==
  \A i \in DOMAIN narrated :
    <<narrated[i].run, TRUE>> \in granted
      => narrated[i].outcome \in {"cancelled", "unlaunched"}

\* No output line of a command is still unpublished when the kernel goes on to
\* settle the cell and narrate its end: a line in the pipe belongs to the run
\* that is collecting it.  The exceptions: a shell left in the middle of that
\* command or of an earlier one, and what a dead shell's command had written
\* without coming to its end.
OutputBeforeTerminal ==
  \A i \in DOMAIN pipe :
    ~pipe[i].end => \/ wpc = "run" /\ pipe[i].run = begun
                    \/ Astray(pipe[i].run)
                    \/ child = "gone" /\ NoEnd

\* Until a handler raises, a cell reads RUNNING only while the worker is inside
\* its execution: no exit path of execute strands it.
RunningIsLive ==
  raises = 0 =>
    \A c \in Cells :
      status[c] = "running" => wcell = c /\ wpc \in {"start", "launch", "run", "check"}

\* A worker that ends because it was closed has begun every submission ever
\* accepted: the sentinel overtakes none, and nothing follows it.
DrainedWhenStopped == wpc = "stopped" => queue = <<>> /\ begun = accepted

-----------------------------------------------------------------------------
(* Liveness. *)

\* wait_until_drained cannot block for good on an empty worker: once the
\* count is zero the idle event is set, unless new work arrives first, the
\* process ends or a handler of QUEUE_DRAINED has ended the worker.
IdleReached == (inflight = 0) ~> (idle \/ inflight > 0 \/ wpc = "dead" \/ upc = "exited")

-----------------------------------------------------------------------------
(* Execution implements ExecutionQueue. *)

Executing == wpc \in {"submit", "start", "launch", "run", "check", "errchunk", "publish"}
QueuedCells == SubSeq(queue, 1, Backlog)
NarratedPair(n) == <<n.cell, n.outcome>>

\* The queue as its user sees it: a cell the worker has taken still waits until
\* the kernel claims it.
Waiting == IF wpc = "enter" THEN <<wcell>> \o QueuedCells ELSE QueuedCells
Running == IF Executing THEN wcell ELSE NoCell
Asked == Executing /\ \E b \in BOOLEAN : <<begun, b>> \in granted
Told == [i \in DOMAIN narrated |-> NarratedPair(narrated[i])]
Moving == IF upc = "moving" THEN ucell ELSE NoCell
Serving == IF upc = "exited" THEN "quit" ELSE IF wpc = "dead" THEN "dead" ELSE "open"

Queue == INSTANCE ExecutionQueue WITH
  moving <- Moving, pending <- Waiting, running <- Running, asked <- Asked,
  narrated <- Told, faults <- raises, served <- Serving

\* Everything accepted is begun in order, one at a time, and narrated exactly
\* once; what can come in between is a cell that is deleted or on the move when
\* its turn comes, a handler that raises, and the end of the process.
ImplementsQueue == Queue!FairSpec

=============================================================================
