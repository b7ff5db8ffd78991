---------------------------- MODULE ShellBackend ----------------------------
(***************************************************************************)
(* The persistent shell: every command goes through the standard input of  *)
(* one long-lived bash, framed by two printf lines that write a sentinel   *)
(* to each of its output streams.  A pump thread per stream turns lines    *)
(* into items of a queue; the worker collects the items of stdout up to    *)
(* the first sentinel, then those of stderr.                               *)
(*                                                                         *)
(* A line is a record: which run wrote it, its number in that run and      *)
(* stream, and whether it is empty.  Output that lacks its newline stays   *)
(* in `part` until more is written to the stream.                          *)
(*                                                                         *)
(* The shell's streams are inherited: by the command it runs, and by any   *)
(* process a command leaves in the background.  They come to their end     *)
(* when the last of these has gone, which nothing in the repository brings *)
(* about.  Lines such a process writes are told apart from those of runs   *)
(* (run 0).  What closing the handles does to a pump that is reading them  *)
(* is left out.                                                            *)
(***************************************************************************)
EXTENDS Naturals, Sequences

CONSTANTS
  NoLine,            \* no line is held back or unterminated
  MaxRuns,           \* bound on the commands submitted
  MaxLines,          \* bound on the lines of one run
  MaxLate,           \* bound on the lines background jobs write
  MaxSignals,        \* bound on cancels and timeouts
  MaxRaises,         \* bound on line handlers that raise
  MaxMishaps,        \* bound on these three together
  StderrMayBeOpen,   \* may stderr end without a newline?
  MayReadStdin,      \* may a command read the shell's own standard input?
  MayDie             \* may the shell exit or be killed by a command?

ASSUME ShellAssumption ==
  /\ {MaxRuns, MaxLines, MaxLate, MaxSignals, MaxRaises, MaxMishaps} \subseteq Nat
  /\ {StderrMayBeOpen, MayReadStdin, MayDie} \subseteq BOOLEAN
  /\ NoLine \notin [what : {"text", "blank", "glued"}, run : Nat, n : Nat]

Streams == {"out", "err"}

VARIABLES
  stdin,    \* lines written to the shell and not read yet
  shell,    \* "ready" to read a line, "busy" with a command, or "dead"
  trapped,  \* has `trap : INT` been executed?
  job,      \* the run whose command the shell executes or executed last
  dollar,   \* $?, as the run whose exit code it is; 0 for that of a printf
  held,     \* streams that a process which outlived the shell holds open
  lineno,   \* lines the job has begun on each stream
  part,     \* the unterminated last line of each stream
  pipe,     \* complete lines in each pipe
  pend,     \* the line each pump holds back
  sink,     \* what each pump has handed over
  ended,    \* streams whose pump has seen end of file
  wpc,      \* the worker: "idle", or collecting "out" or "err"
  run,      \* the run it is in, or was in last
  code,     \* the run whose exit code it collected
  got,      \* the lines handed to the handlers in this run
  wrote,    \* the lines this run's command has begun
  result,   \* how the last run ended
  closing,  \* close has been called
  late, signals, raises, \* bounded counts
  swallowed \* history: has a sentinel of this run been lost on its way?

ioVars     == <<lineno, part, pipe, wrote, late>>
shellVars  == <<stdin, shell, trapped, job, dollar, held, swallowed>>
pumpVars   == <<pend, ended>>
workerVars == <<wpc, run, code, got, result, raises>>
otherVars  == <<closing, signals>>
vars == <<ioVars, shellVars, pumpVars, sink, workerVars, otherVars>>

Item(w, r) == [what |-> w, run |-> r]
Raw(w, r, n) == [what |-> w, run |-> r, n |-> n]
\* The newline that precedes the stdout sentinel, when it makes a line.
Framing == Raw("blank", 0, 0)

Init ==
  /\ stdin = <<Item("trap", 0)>>
  /\ shell = "ready" /\ trapped = FALSE /\ job = 0 /\ dollar = 0
  /\ held = {} /\ swallowed = FALSE
  /\ lineno = [s \in Streams |-> 0] /\ part = [s \in Streams |-> NoLine]
  /\ pipe = [s \in Streams |-> <<>>] /\ wrote = [s \in Streams |-> <<>>]
  /\ late = 0
  /\ pend = [s \in Streams |-> NoLine] /\ sink = [s \in Streams |-> <<>>]
  /\ ended = {}
  /\ wpc = "idle" /\ run = 0 /\ code = 0 /\ got = [s \in Streams |-> <<>>]
  /\ result = "none" /\ raises = 0
  /\ closing = FALSE /\ signals = 0

Mishap == late + signals + raises < MaxMishaps

-----------------------------------------------------------------------------
(* The worker: run, _run_locked and _collect. *)

\* Mutant: the stderr sentinel is printed first.
FramedErrFirst(r) == <<Item("cmd", r), Item("err", r), Item("out", r)>>

\* The command and the two printf lines that follow it on the shell's input.
Framed(r) == <<Item("cmd", r), Item("out", r), Item("err", r)>>

\* run: a dead shell is refused; otherwise the command and both printf lines
\* are written at once.
Run ==
  /\ wpc = "idle" /\ run < MaxRuns
  /\ run' = run + 1
  /\ got' = [s \in Streams |-> <<>>] /\ wrote' = [s \in Streams |-> <<>>]
  /\ swallowed' = FALSE
  /\ IF shell = "dead"
       THEN result' = "error" /\ UNCHANGED <<wpc, stdin>>
       ELSE result' = "none" /\ wpc' = "out" /\ stdin' = stdin \o Framed(run')
  /\ UNCHANGED <<lineno, part, pipe, late, shell, trapped, job, dollar, held, pumpVars,
                 sink, code, raises, otherVars>>

\* A line is appended to the buffer and handed to the handler, which may raise:
\* the exception leaves run with everything else still on its way.
CollectLine(s) ==
  /\ wpc = s /\ sink[s] # <<>> /\ Head(sink[s]).what \in {"text", "blank", "glued"}
  /\ sink' = [sink EXCEPT ![s] = Tail(@)]
  /\ \/ got' = [got EXCEPT ![s] = Append(@, Head(sink[s]))]
        /\ UNCHANGED <<wpc, result, raises>>
     \/ raises < MaxRaises /\ Mishap /\ raises' = raises + 1
        /\ wpc' = "idle" /\ result' = "raised" /\ UNCHANGED got
  /\ UNCHANGED <<ioVars, shellVars, pumpVars, run, code, otherVars>>

\* Mutant: stderr is not collected.
CollectSentinelOfStdoutOnly ==
  /\ wpc = "out" /\ sink["out"] # <<>> /\ Head(sink["out"]).what = "mark"
  /\ sink' = [sink EXCEPT !["out"] = Tail(@)]
  /\ code' = Head(sink["out"]).run
  /\ wpc' = "idle" /\ result' = "done"
  /\ UNCHANGED <<ioVars, shellVars, pumpVars, run, got, raises, otherVars>>

\* The sentinel of stdout carries the exit code; which run's sentinel it is
\* nobody asks.  Then stderr is collected, up to its own.
CollectSentinel ==
  \/ /\ wpc = "out" /\ sink["out"] # <<>> /\ Head(sink["out"]).what = "mark"
     /\ sink' = [sink EXCEPT !["out"] = Tail(@)]
     /\ code' = Head(sink["out"]).run
     /\ wpc' = "err"
     /\ UNCHANGED <<ioVars, shellVars, pumpVars, run, got, result, raises, otherVars>>
  \/ /\ wpc = "err" /\ sink["err"] # <<>> /\ Head(sink["err"]).what = "mark"
     /\ sink' = [sink EXCEPT !["err"] = Tail(@)]
     /\ wpc' = "idle" /\ result' = "done"
     /\ UNCHANGED <<ioVars, shellVars, pumpVars, run, code, got, raises, otherVars>>

\* End of file: ShellBackendError.
CollectEof(s) ==
  /\ wpc = s /\ sink[s] # <<>> /\ Head(sink[s]).what = "eof"
  /\ sink' = [sink EXCEPT ![s] = Tail(@)]
  /\ wpc' = "idle" /\ result' = "error"
  /\ UNCHANGED <<ioVars, shellVars, pumpVars, run, code, got, raises, otherVars>>

-----------------------------------------------------------------------------
(* The pump of each stream. *)

Held(s) == IF pend[s] = NoLine THEN <<>> ELSE <<pend[s]>>
HeldText(s) == IF pend[s] = NoLine \/ pend[s].what = "blank" THEN <<>> ELSE <<pend[s]>>

\* Mutant: the line held back is dropped whatever it is.
PumpDropsHeld(s) ==
  /\ pipe[s] # <<>>
  /\ pipe' = [pipe EXCEPT ![s] = Tail(@)]
  /\ LET raw == Head(pipe[s])
     IN  IF raw.what = "mark"
           THEN /\ sink' = [sink EXCEPT ![s] = Append(@, raw)]
                /\ pend' = [pend EXCEPT ![s] = NoLine]
           ELSE /\ sink' = [sink EXCEPT ![s] = @ \o Held(s)]
                /\ pend' = [pend EXCEPT ![s] = raw]
  /\ UNCHANGED <<lineno, part, wrote, late, shellVars, ended, workerVars, otherVars>>

\* A line is held back until the next one shows whether it is the newline in
\* front of the sentinel.
Pump(s) ==
  /\ pipe[s] # <<>>
  /\ pipe' = [pipe EXCEPT ![s] = Tail(@)]
  /\ LET raw == Head(pipe[s])
     IN  IF raw.what = "mark"
           THEN /\ sink' = [sink EXCEPT ![s] = @ \o HeldText(s) \o <<raw>>]
                /\ pend' = [pend EXCEPT ![s] = NoLine]
           ELSE /\ sink' = [sink EXCEPT ![s] = @ \o Held(s)]
                /\ pend' = [pend EXCEPT ![s] = raw]
  /\ UNCHANGED <<lineno, part, wrote, late, shellVars, ended, workerVars, otherVars>>

\* End of file, once nobody has the stream open: an unterminated line still
\* counts as one.
PumpEnds(s) ==
  /\ shell = "dead" /\ s \notin held /\ pipe[s] = <<>> /\ s \notin ended
  /\ ended' = ended \union {s}
  /\ sink' = [sink EXCEPT ![s] =
       @ \o Held(s) \o (IF part[s] = NoLine THEN <<>> ELSE <<part[s]>>)
         \o <<Raw("eof", 0, 0)>>]
  /\ pend' = [pend EXCEPT ![s] = NoLine]
  /\ part' = [part EXCEPT ![s] = NoLine]
  /\ UNCHANGED <<lineno, pipe, wrote, late, shellVars, workerVars, otherVars>>

-----------------------------------------------------------------------------
(* The shell and the commands it runs: outside the repository. *)

Into(s, rest) == pipe' = [pipe EXCEPT ![s] = @ \o rest]

ShellTraps ==
  /\ Head(stdin).what = "trap"
  /\ trapped' = TRUE
  /\ UNCHANGED <<ioVars, shell, job, dollar, held, swallowed>>

ShellBegins ==
  /\ Head(stdin).what = "cmd"
  /\ shell' = "busy" /\ job' = Head(stdin).run
  /\ lineno' = [s \in Streams |-> 0]
  /\ UNCHANGED <<part, pipe, wrote, late, trapped, dollar, held, swallowed>>


\* printf "\n<sentinel>:%d\n" "$?": its newline ends an unterminated line, or
\* makes an empty one.
ShellPrintsOut ==
  /\ Head(stdin).what = "out"
  /\ Into("out", <<IF part["out"] = NoLine THEN Framing ELSE part["out"],
                   Raw("mark", dollar, 0)>>)
  /\ part' = [part EXCEPT !["out"] = NoLine]
  /\ dollar' = 0
  /\ UNCHANGED <<lineno, wrote, late, shell, trapped, job, held, swallowed>>

\* printf "<sentinel>\n" >&2: an unterminated line swallows the sentinel.
ShellPrintsErr ==
  /\ Head(stdin).what = "err"
  /\ IF part["err"] = NoLine
       THEN Into("err", <<Raw("mark", 0, 0)>>)
       ELSE Into("err", <<[part["err"] EXCEPT !.what = "glued"]>>)
  /\ part' = [part EXCEPT !["err"] = NoLine]
  /\ swallowed' = (swallowed \/ part["err"] # NoLine)
  /\ dollar' = 0
  /\ UNCHANGED <<lineno, wrote, late, shell, trapped, job, held>>

\* The shell is gone, and whatever a command has started may outlive it: its
\* background jobs, or the very command in the foreground.
ShellGone ==
  /\ shell' = "dead"
  /\ held' \in SUBSET (IF job > 0 THEN Streams ELSE {})

ShellExits ==
  /\ Head(stdin).what = "exit"
  /\ ShellGone
  /\ UNCHANGED <<ioVars, trapped, job, dollar, swallowed>>

ShellReads ==
  /\ shell = "ready" /\ stdin # <<>>
  /\ stdin' = Tail(stdin)
  /\ ShellTraps \/ ShellBegins \/ ShellPrintsOut \/ ShellPrintsErr \/ ShellExits
  /\ UNCHANGED <<pumpVars, sink, workerVars, otherVars>>

\* A whole line, or one that lacks its newline.
CommandWrites(s) ==
  /\ shell = "busy" /\ part[s] = NoLine /\ lineno["out"] + lineno["err"] < MaxLines
  /\ lineno' = [lineno EXCEPT ![s] = @ + 1]
  /\ \E w \in {"text", "blank"} :
       LET raw == Raw(w, job, lineno'[s])
       IN  /\ wrote' = IF job = run THEN [wrote EXCEPT ![s] = Append(@, raw)] ELSE wrote
           /\ \/ Into(s, <<raw>>) /\ UNCHANGED part
              \/ /\ w = "text" /\ (s = "err" => StderrMayBeOpen)
                 /\ part' = [part EXCEPT ![s] = raw]
                 /\ UNCHANGED pipe
  /\ UNCHANGED <<late, shellVars, pumpVars, sink, workerVars, otherVars>>

CommandEndsLine(s) ==
  /\ shell = "busy" /\ part[s] # NoLine
  /\ Into(s, <<part[s]>>)
  /\ part' = [part EXCEPT ![s] = NoLine]
  /\ UNCHANGED <<lineno, wrote, late, shellVars, pumpVars, sink, workerVars, otherVars>>

\* The command inherits the shell's standard input.
CommandReadsStdin ==
  /\ MayReadStdin /\ shell = "busy" /\ stdin # <<>>
  /\ stdin' = Tail(stdin)
  /\ swallowed' = (swallowed \/ Head(stdin).what \in {"out", "err"})
  /\ UNCHANGED <<ioVars, shell, trapped, job, dollar, held, pumpVars, sink,
                 workerVars, otherVars>>

CommandEnds ==
  /\ shell = "busy"
  /\ shell' = "ready" /\ dollar' = job
  /\ UNCHANGED <<ioVars, stdin, trapped, job, held, swallowed, pumpVars, sink,
                 workerVars, otherVars>>

CommandKillsShell ==
  /\ MayDie /\ shell = "busy"
  /\ ShellGone
  /\ UNCHANGED <<ioVars, stdin, trapped, job, dollar, swallowed, pumpVars, sink,
                 workerVars, otherVars>>

\* A job left in the background, or a command that outlived the shell, writes
\* whenever it likes.
BackgroundWrites(s) ==
  /\ job > 0 /\ (shell = "dead" => s \in held)
  /\ late < MaxLate /\ Mishap /\ part[s] = NoLine
  /\ late' = late + 1
  /\ Into(s, <<Raw("text", 0, late')>>)
  /\ UNCHANGED <<lineno, part, wrote, shellVars, pumpVars, sink, workerVars, otherVars>>

\* What outlived the shell ends, or closes a stream, if it ever does.
HolderLetsGo ==
  /\ \E s \in held : held' = held \ {s}
  /\ UNCHANGED <<ioVars, stdin, shell, trapped, job, dollar, swallowed, pumpVars, sink,
                 workerVars, otherVars>>

-----------------------------------------------------------------------------
(* cancel (from Ctrl+C or a timeout) and close. *)

\* killpg(SIGINT): the command may end, with the shell surviving it; a shell
\* that has not executed its trap yet does not survive.
Signal ==
  /\ wpc # "idle" /\ shell # "dead" /\ signals < MaxSignals /\ Mishap
  /\ signals' = signals + 1
  /\ \/ shell = "busy" /\ shell' = "ready" /\ dollar' = job /\ UNCHANGED held
     \/ trapped /\ UNCHANGED <<shell, dollar, held>>
     \/ ~trapped /\ ShellGone /\ UNCHANGED dollar
  /\ UNCHANGED <<ioVars, stdin, trapped, job, swallowed, pumpVars, sink, workerVars,
                 closing>>

\* close writes `exit`, perhaps while a command runs (the worker's join gave up).
Close ==
  /\ ~closing /\ closing' = TRUE
  /\ stdin' = IF shell = "dead" THEN stdin ELSE Append(stdin, Item("exit", 0))
  /\ UNCHANGED <<ioVars, shell, trapped, job, dollar, held, swallowed, pumpVars, sink,
                 workerVars, signals>>

\* The shell did not exit within two seconds.  It is killed alone, not its group.
Kill ==
  /\ closing /\ shell # "dead"
  /\ ShellGone
  /\ UNCHANGED <<ioVars, stdin, trapped, job, dollar, swallowed, pumpVars, sink,
                 workerVars, otherVars>>

-----------------------------------------------------------------------------
Worker == CollectSentinel \/ \E s \in Streams : CollectLine(s) \/ CollectEof(s)
Pumps(s) == Pump(s) \/ PumpEnds(s)
CommandActs ==
  \/ CommandReadsStdin \/ CommandKillsShell \/ HolderLetsGo
  \/ \E s \in Streams : CommandWrites(s) \/ CommandEndsLine(s) \/ BackgroundWrites(s)

Next ==
  \/ Run \/ Worker \/ \E s \in Streams : Pumps(s)
  \/ ShellReads \/ CommandEnds \/ CommandActs
  \/ Signal \/ Close \/ Kill

Spec == Init /\ [][Next]_vars

\* The threads are scheduled, the shell reads its input, a command it waits for
\* ends; what outlives the shell need not.
Fairness ==
  /\ WF_vars(Worker) /\ \A s \in Streams : WF_vars(Pumps(s))
  /\ WF_vars(ShellReads) /\ WF_vars(CommandEnds)
  /\ WF_vars(Kill)

FairSpec == Spec /\ Fairness
-----------------------------------------------------------------------------
\* The elements of q that are in S, in their order.
KeptOf(q, S) ==
  LET Kept[i \in 0..Len(q)] ==
        IF i = 0 THEN <<>>
        ELSE IF q[i] \in S THEN Append(Kept[i - 1], q[i]) ELSE Kept[i - 1]
  IN  Kept

\* What a command wrote, and what of it is text.
OwnLines == [what : {"text", "blank", "glued"}, run : Nat \ {0}, n : Nat]
TextLines == [what : {"text"}, run : Nat \ {0}, n : Nat]

Own(q) == KeptOf(q, OwnLines)[Len(q)]
Texts(q) == KeptOf(q, TextLines)[Len(q)]

\* The exit code run returns is that of its own command: although _collect
\* compares no token, the sentinels of two runs are never confused, whatever is
\* signalled, dies or loses a sentinel, unless a line handler raised and left
\* those of its run behind.
OwnResult == result = "done" /\ raises = 0 => code = run

\* What run hands to the handlers is what its command wrote: all of stdout in
\* order, and every line of text of stderr, unless a handler raised before.
OutputIsOwn ==
  result = "done" /\ raises = 0 =>
    /\ Own(got["out"]) = wrote["out"]
    /\ Texts(got["err"]) = Texts(wrote["err"])

\* "The next command starts cleanly": a run that returned left nothing behind,
\* unless a background job wrote or an earlier handler raised.
CleanStart ==
  wpc = "idle" /\ result = "done" /\ shell # "dead" /\ ~closing /\ late = 0 /\ raises = 0 =>
    /\ stdin = <<>> /\ shell = "ready"
    /\ \A s \in Streams : /\ pipe[s] = <<>> /\ sink[s] = <<>>
                          /\ pend[s] = NoLine /\ part[s] = NoLine


=============================================================================
