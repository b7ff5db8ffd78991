------------------------- MODULE ShellBackendProofs -------------------------
(***************************************************************************)
(* Proofs about ShellBackend, for any number of runs, lines, signals and   *)
(* mishaps: the exit code a run returns is that of its own command, its    *)
(* output what that command wrote, and a run that returned left the shell  *)
(* and both channels as it found them.                                     *)
(***************************************************************************)
EXTENDS ShellBackend, FiniteSetTheorems, SequenceTheorems, WellFoundedInduction, TLAPS

Items == [what : {"trap", "cmd", "out", "err", "exit"}, run : Nat]
LinesOf(kinds) == [what : kinds, run : Nat, n : Nat]
Begun  == LinesOf({"text"})
Ended  == LinesOf({"text", "blank", "glued"})
Piped  == LinesOf({"text", "blank", "glued", "mark"})
Sunk   == LinesOf({"text", "blank", "glued", "mark", "eof"})

TypeOK ==
  /\ stdin \in Seq(Items) /\ shell \in {"ready", "busy", "dead"}
  /\ trapped \in BOOLEAN /\ closing \in BOOLEAN /\ swallowed \in BOOLEAN
  /\ job \in Nat /\ dollar \in Nat /\ run \in Nat /\ code \in Nat
  /\ late \in Nat /\ signals \in Nat /\ raises \in Nat
  /\ lineno \in [Streams -> Nat]
  /\ part \in [Streams -> Begun \cup {NoLine}]
  /\ pend \in [Streams -> Ended \cup {NoLine}]
  /\ pipe \in [Streams -> Seq(Piped)] /\ sink \in [Streams -> Seq(Sunk)]
  /\ got \in [Streams -> Seq(Ended)] /\ wrote \in [Streams -> Seq(Ended)]
  /\ ended \subseteq Streams /\ held \subseteq Streams
  /\ wpc \in {"idle", "out", "err"}
  /\ result \in {"none", "done", "error", "raised"}

\* What is still on the input of the shell, in the order it is read.
Has(w) == \E i \in 1..Len(stdin) : stdin[i].what = w

Rank(w) == CASE w = "trap" -> 0 [] w = "cmd" -> 1 [] w = "out" -> 2 [] w = "err" -> 3
             [] w = "exit" -> 4

InOrder ==
  \A i, j \in 1..Len(stdin) :
    i < j /\ stdin[i].what # "exit" /\ stdin[j].what # "exit" =>
      Rank(stdin[i].what) < Rank(stdin[j].what)

\* The sentinels on their way from the shell to the worker.
Marks(q) == {i \in 1..Len(q) : q[i].what = "mark"}
AtMostOne(q) == \A i, j \in Marks(q) : i = j
NoMark(s) == Marks(sink[s]) = {} /\ Marks(pipe[s]) = {}
OneMark(s) ==
  /\ AtMostOne(sink[s]) /\ AtMostOne(pipe[s])
  /\ Marks(sink[s]) = {} \/ Marks(pipe[s]) = {}
OwnMarks(s) ==
  /\ \A i \in Marks(sink[s]) : sink[s][i].run = run
  /\ \A i \in Marks(pipe[s]) : pipe[s][i].run = run
NoMarks == NoMark("out") /\ NoMark("err")

\* No handler has raised, and the shell may still read what a run writes to it.
Live == raises = 0 /\ (wpc = "idle" => shell # "dead")

\* The lines of a run are read in turn, and a sentinel is on its way only when
\* what asked for it has been read.
InputInv ==
  /\ InOrder
  /\ \A i \in 1..Len(stdin) : stdin[i].what = "cmd" => stdin[i].run = run
  /\ Has("trap") => run = 0 \/ Has("cmd")
  /\ Has("cmd") => wpc = "out" /\ shell # "busy" /\ NoMarks
  /\ Has("out") => wpc = "out" /\ NoMarks
  /\ Has("out") /\ ~Has("cmd") => job = run /\ (shell = "ready" => dollar = run)
  /\ Has("err") => wpc # "idle" /\ NoMark("err")

\* While a command runs, and when none is wanted, nothing marks its end.
QuietInv ==
  /\ shell = "busy" => wpc = "out" /\ job = run /\ NoMarks
  /\ wpc = "idle" => NoMarks
  /\ wpc = "err" => NoMark("out")

MarkInv == OneMark("out") /\ OneMark("err") /\ OwnMarks("out")

LiveInv == Live => InputInv /\ QuietInv /\ MarkInv

\* End of file means that the shell is gone.
EofInv == shell # "dead" => \A s \in Streams : sink[s] \in Seq(Piped)

\* A run that collected both sentinels has the exit code of its own command.
CodeInv ==
  /\ wpc = "err" /\ raises = 0 => code = run
  /\ wpc # "idle" => run > 0 /\ result = "none"
  /\ result = "done" => run > 0 /\ (raises = 0 => code = run)

ExitInv == Has("exit") => closing

\* Nothing is behind a sentinel ...
Last(s) ==
  /\ \A i \in Marks(sink[s]) :
       i = Len(sink[s]) /\ pend[s] = NoLine /\ pipe[s] = <<>> /\ part[s] = NoLine
  /\ \A i \in Marks(pipe[s]) : i = Len(pipe[s]) /\ part[s] = NoLine

Settled(s) == pipe[s] = <<>> /\ sink[s] = <<>> /\ pend[s] = NoLine /\ part[s] = NoLine

\* ... and when it has been collected nothing is left.
CleanInv ==
  (late = 0 /\ raises = 0 /\ shell # "dead") =>
    /\ Last("out") /\ Last("err")
    /\ wpc = "err" => Settled("out")
    /\ wpc = "idle" => Settled("out") /\ Settled("err")

IInv == TypeOK /\ LiveInv /\ EofInv /\ CodeInv /\ ExitInv /\ CleanInv
-----------------------------------------------------------------------------
(* Types. *)

LEMMA RawTypes ==
  ASSUME NEW r \in Nat, NEW n \in Nat
  PROVE  /\ Raw("text", r, n) \in Begun /\ Raw("text", r, n) \in Ended
         /\ Raw("blank", r, n) \in Ended /\ Raw("mark", r, n) \in Piped
         /\ Raw("eof", 0, 0) \in Sunk /\ Framing \in Piped
BY DEF Raw, Framing, Begun, Ended, Piped, Sunk, LinesOf

\* What is begun can be ended, what is ended be piped, what is piped be sunk.
LEMMA KindsGrow ==
  /\ Begun \subseteq Ended /\ Ended \subseteq Piped /\ Piped \subseteq Sunk
  /\ NoLine \notin Ended
  /\ \A l \in Begun : [l EXCEPT !.what = "glued"] \in Ended
  /\ \A l \in Piped : l.what # "mark" => l \in Ended
  /\ \A l \in Sunk : l.what \in {"text", "blank", "glued"} => l \in Ended
  /\ Sunk \subseteq LinesOf({"text", "blank", "glued", "mark", "eof"})
BY ShellAssumption DEF Begun, Ended, Piped, Sunk, LinesOf

LEMMA ItemTypes ==
  ASSUME NEW w \in {"trap", "cmd", "out", "err", "exit"}, NEW r \in Nat
  PROVE  Item(w, r) \in Items
BY DEF Item, Items

\* What a pump held back, once handed over.
LEMMA HeldTypes ==
  ASSUME TypeOK, NEW s \in Streams
  PROVE  Held(s) \in Seq(Sunk) /\ HeldText(s) \in Seq(Sunk)
BY KindsGrow DEF TypeOK, Held, HeldText

LEMMA RunTypes == TypeOK /\ Run => TypeOK'
<1> SUFFICES ASSUME TypeOK, Run PROVE TypeOK'
  OBVIOUS
<1>1. Framed(run') \in Seq(Items)
  BY ItemTypes DEF Run, Framed, TypeOK
<1>2. stdin' \in Seq(Items)
  <2>1. stdin \o Framed(run') \in Seq(Items)
    BY <1>1, ConcatProperties DEF TypeOK
  <2>2. stdin' = stdin \/ stdin' = stdin \o Framed(run')
    BY DEF Run
  <2> QED
    BY <2>1, <2>2 DEF TypeOK
<1>3. UNCHANGED <<lineno, part, pipe, late, shell, trapped, job, dollar, held, pend, ended, sink, code,
                  raises, closing, signals>>
  BY DEF Run, pumpVars, otherVars
<1>4. /\ got' = [s \in Streams |-> <<>>] /\ wrote' = [s \in Streams |-> <<>>]
      /\ run' = run + 1 /\ swallowed' = FALSE
      /\ result' \in {"none", "error"} /\ wpc' \in {wpc, "out"}
  BY DEF Run
<1>5. got' \in [Streams -> Seq(Ended)] /\ wrote' \in [Streams -> Seq(Ended)]
  <2>1. [s \in Streams |-> <<>>] \in [Streams -> Seq(Ended)]
    BY EmptySeq
  <2> QED
    BY <1>4, <2>1
<1>6. run' \in Nat
  BY <1>4 DEF TypeOK
<1>7. swallowed' \in BOOLEAN
  BY <1>4
<1> QED
  BY <1>2, <1>3, <1>4, <1>5, <1>6, <1>7 DEF TypeOK

LEMMA WorkerTypes ==
  ASSUME TypeOK, NEW s \in Streams, CollectLine(s) \/ CollectEof(s) \/ CollectSentinel
  PROVE  TypeOK'
<1>1. CASE CollectLine(s)
  <2>1. Head(sink[s]) \in Ended /\ Tail(sink[s]) \in Seq(Sunk)
    BY <1>1, KindsGrow, HeadTailProperties DEF CollectLine, TypeOK
  <2>2. sink' \in [Streams -> Seq(Sunk)]
    BY <1>1, <2>1 DEF CollectLine, TypeOK
  <2>5. got' \in [Streams -> Seq(Ended)]
    <3>1. Append(got[s], Head(sink[s])) \in Seq(Ended)
      BY <2>1, AppendProperties DEF TypeOK
    <3>2. got' = [got EXCEPT ![s] = Append(got[s], Head(sink[s]))] \/ got' = got
      BY <1>1 DEF CollectLine
    <3> QED
      BY <3>1, <3>2 DEF TypeOK
  <2>3. UNCHANGED <<lineno, part, pipe, wrote, late, stdin, shell, trapped, job, dollar, held, swallowed,
                    pend, ended, run, code, closing, signals>>
    BY <1>1 DEF CollectLine, ioVars, shellVars, pumpVars, otherVars
  <2>4. raises' \in Nat /\ wpc' \in {wpc, "idle"} /\ result' \in {result, "raised"}
    BY <1>1 DEF CollectLine, TypeOK
  <2> QED
    BY <2>2, <2>3, <2>4, <2>5 DEF TypeOK
<1>2. CASE CollectEof(s)
  <2>1. sink' \in [Streams -> Seq(Sunk)]
    BY <1>2, HeadTailProperties DEF CollectEof, TypeOK
  <2> QED
    BY <1>2, <2>1 DEF CollectEof, TypeOK, ioVars, shellVars, pumpVars, otherVars
<1>3. CASE CollectSentinel
  <2>1. \E t \in Streams : /\ sink[t] # <<>> /\ sink' = [sink EXCEPT ![t] = Tail(@)]
                           /\ code' \in {code, Head(sink[t]).run}
    BY <1>3 DEF CollectSentinel, Streams
  <2>2. PICK t \in Streams : /\ sink[t] # <<>> /\ sink' = [sink EXCEPT ![t] = Tail(@)]
                            /\ code' \in {code, Head(sink[t]).run}
    BY <2>1
  <2>3. Head(sink[t]) \in Sunk /\ Tail(sink[t]) \in Seq(Sunk)
    BY <2>2, HeadTailProperties DEF TypeOK
  <2>4. code' \in Nat
    BY <2>2, <2>3 DEF TypeOK, Sunk, LinesOf
  <2>5. sink' \in [Streams -> Seq(Sunk)]
    BY <2>2, <2>3 DEF TypeOK
  <2>6. /\ UNCHANGED <<lineno, part, pipe, wrote, late, stdin, shell, trapped, job, dollar, held,
                       swallowed, pend, ended, run, got, raises, closing, signals>>
        /\ wpc' \in {"idle", "err"} /\ result' \in {result, "done"}
    BY <1>3 DEF CollectSentinel, ioVars, shellVars, pumpVars, otherVars
  <2> QED
    BY <2>4, <2>5, <2>6 DEF TypeOK
<1> QED
  BY <1>1, <1>2, <1>3

LEMMA PumpTypes ==
  ASSUME TypeOK, NEW s \in Streams, Pump(s) \/ PumpEnds(s)
  PROVE  TypeOK'
<1>1. CASE Pump(s)
  <2>1. Head(pipe[s]) \in Piped /\ Tail(pipe[s]) \in Seq(Piped)
    BY <1>1, HeadTailProperties DEF Pump, TypeOK
  <2>2. pipe' \in [Streams -> Seq(Piped)] /\ pend' \in [Streams -> Ended \cup {NoLine}]
    BY <1>1, <2>1, KindsGrow DEF Pump, TypeOK
  <2>3. <<Head(pipe[s])>> \in Seq(Sunk)
    BY <2>1, KindsGrow
  <2>4. /\ sink[s] \o HeldText(s) \o <<Head(pipe[s])>> \in Seq(Sunk)
        /\ sink[s] \o Held(s) \in Seq(Sunk)
    BY <2>3, HeldTypes, ConcatProperties DEF TypeOK
  <2>5. sink' \in [Streams -> Seq(Sunk)]
    BY <1>1, <2>4 DEF Pump, TypeOK
  <2>6. UNCHANGED <<lineno, part, wrote, late, stdin, shell, trapped, job, dollar, held, swallowed, ended,
                    wpc, run, code, got, result, raises, closing, signals>>
    BY <1>1 DEF Pump, shellVars, workerVars, otherVars
  <2> QED
    BY <2>2, <2>5, <2>6 DEF TypeOK
<1>2. CASE PumpEnds(s)
  <2> DEFINE rest == IF part[s] = NoLine THEN <<>> ELSE <<part[s]>>
  <2>1. rest \in Seq(Sunk) /\ <<Raw("eof", 0, 0)>> \in Seq(Sunk)
    BY KindsGrow, RawTypes DEF TypeOK
  <2>2. sink[s] \o Held(s) \o rest \o <<Raw("eof", 0, 0)>> \in Seq(Sunk)
    <3> HIDE DEF rest
    <3> QED
      BY <2>1, HeldTypes, ConcatProperties DEF TypeOK
  <2>3. sink' = [sink EXCEPT ![s] = sink[s] \o Held(s) \o rest \o <<Raw("eof", 0, 0)>>]
    BY <1>2 DEF PumpEnds
  <2>4. sink' \in [Streams -> Seq(Sunk)]
    <3> HIDE DEF rest
    <3> QED
      BY <2>2, <2>3 DEF TypeOK
  <2>5. /\ pend' = [pend EXCEPT ![s] = NoLine] /\ part' = [part EXCEPT ![s] = NoLine]
        /\ ended' = ended \cup {s}
        /\ UNCHANGED <<lineno, pipe, wrote, late, stdin, shell, trapped, job, dollar, held, swallowed,
                       wpc, run, code, got, result, raises, closing, signals>>
    BY <1>2 DEF PumpEnds, shellVars, workerVars, otherVars
  <2> HIDE DEF rest
  <2> QED
    BY <2>4, <2>5 DEF TypeOK
<1> QED
  BY <1>1, <1>2

LEMMA IntoTypes ==
  ASSUME TypeOK, NEW s \in Streams, NEW rest \in Seq(Piped), Into(s, rest)
  PROVE  pipe' \in [Streams -> Seq(Piped)]
<1>1. pipe[s] \o rest \in Seq(Piped)
  BY ConcatProperties DEF TypeOK
<1> QED
  BY <1>1 DEF Into, TypeOK

LEMMA ReadTypes == TypeOK /\ ShellReads => TypeOK'
<1> SUFFICES ASSUME TypeOK, ShellReads PROVE TypeOK'
  OBVIOUS
<1>1. /\ Head(stdin) \in Items /\ stdin' = Tail(stdin) /\ stdin' \in Seq(Items)
  BY HeadTailProperties DEF ShellReads, TypeOK
<1>2. UNCHANGED <<pend, ended, sink, wpc, run, code, got, result, raises, closing, signals>>
  BY DEF ShellReads, pumpVars, workerVars, otherVars
<1>3. /\ part["out"] = NoLine \/ part["out"] \in Piped
      /\ part["err"] = NoLine \/ [part["err"] EXCEPT !.what = "glued"] \in Piped
      /\ Framing \in Piped /\ Raw("mark", dollar, 0) \in Piped /\ Raw("mark", 0, 0) \in Piped
      /\ "out" \in Streams /\ "err" \in Streams
  BY KindsGrow, RawTypes DEF TypeOK, Streams
<1>4. CASE ShellTraps
  BY <1>1, <1>2, <1>4 DEF ShellTraps, TypeOK, ioVars
<1>5. CASE ShellBegins
  <2>1. Head(stdin).run \in Nat
    BY <1>1 DEF Items
  <2> QED
    BY <1>1, <1>2, <1>5, <2>1 DEF ShellBegins, TypeOK
<1>6. CASE ShellPrintsOut
  <2>1. <<IF part["out"] = NoLine THEN Framing ELSE part["out"], Raw("mark", dollar, 0)>>
          \in Seq(Piped)
    BY <1>3
  <2>2. pipe' \in [Streams -> Seq(Piped)]
    BY <1>3, <1>6, <2>1, IntoTypes DEF ShellPrintsOut
  <2>3. part' \in [Streams -> Begun \cup {NoLine}]
    BY <1>6 DEF ShellPrintsOut, TypeOK
  <2> QED
    BY <1>1, <1>2, <1>6, <2>2, <2>3 DEF ShellPrintsOut, TypeOK
<1>7. CASE ShellPrintsErr
  <2>1. pipe' \in [Streams -> Seq(Piped)]
    <3>1. <<Raw("mark", 0, 0)>> \in Seq(Piped)
      BY <1>3
    <3>2. part["err"] # NoLine => <<[part["err"] EXCEPT !.what = "glued"]>> \in Seq(Piped)
      BY <1>3
    <3> QED
      BY <1>3, <1>7, <3>1, <3>2, IntoTypes DEF ShellPrintsErr
  <2>2. part' \in [Streams -> Begun \cup {NoLine}]
    BY <1>7 DEF ShellPrintsErr, TypeOK
  <2>3. swallowed' \in BOOLEAN
    BY <1>7 DEF ShellPrintsErr, TypeOK
  <2> QED
    BY <1>1, <1>2, <1>7, <2>1, <2>2, <2>3 DEF ShellPrintsErr, TypeOK
<1>8. CASE ShellExits
  BY <1>1, <1>2, <1>8 DEF ShellExits, ShellGone, TypeOK, ioVars
<1> QED
  BY <1>4, <1>5, <1>6, <1>7, <1>8 DEF ShellReads

LEMMA CommandTypes ==
  ASSUME TypeOK, NEW s \in Streams,
         CommandWrites(s) \/ CommandEndsLine(s) \/ BackgroundWrites(s)
  PROVE  TypeOK'
<1>1. CASE CommandWrites(s)
  <2>1. lineno' \in [Streams -> Nat] /\ lineno'[s] \in Nat
    <3>1. lineno[s] + 1 \in Nat
      BY DEF TypeOK
    <3>2. lineno' = [lineno EXCEPT ![s] = lineno[s] + 1]
      BY <1>1 DEF CommandWrites
    <3> QED
      BY <3>1, <3>2 DEF TypeOK
  <2>2. PICK w \in {"text", "blank"} :
          /\ wrote' = IF job = run THEN [wrote EXCEPT ![s] = Append(@, Raw(w, job, lineno'[s]))]
                      ELSE wrote
          /\ \/ Into(s, <<Raw(w, job, lineno'[s])>>) /\ UNCHANGED part
             \/ /\ w = "text"
                /\ part' = [part EXCEPT ![s] = Raw(w, job, lineno'[s])] /\ UNCHANGED pipe
    BY <1>1 DEF CommandWrites
  <2> DEFINE raw == Raw(w, job, lineno'[s])
  <2>3. raw \in Ended /\ raw \in Piped /\ (w = "text" => raw \in Begun)
    BY <2>1, RawTypes, KindsGrow DEF TypeOK
  <2> HIDE DEF raw
  <2>4. wrote' \in [Streams -> Seq(Ended)]
    <3>1. Append(wrote[s], raw) \in Seq(Ended)
      BY <2>3, AppendProperties DEF TypeOK
    <3> QED
      BY <2>2, <3>1 DEF TypeOK, raw
  <2>5. pipe' \in [Streams -> Seq(Piped)]
    <3>1. <<raw>> \in Seq(Piped)
      BY <2>3
    <3>2. Into(s, <<raw>>) \/ UNCHANGED pipe
      BY <2>2 DEF raw
    <3> QED
      BY <3>1, <3>2, IntoTypes DEF TypeOK
  <2>6. part' \in [Streams -> Begun \cup {NoLine}]
    BY <2>2, <2>3 DEF TypeOK, raw
  <2>7. UNCHANGED <<late, stdin, shell, trapped, job, dollar, held, swallowed, pend, ended, sink, wpc,
                    run, code, got, result, raises, closing, signals>>
    BY <1>1 DEF CommandWrites, shellVars, pumpVars, workerVars, otherVars
  <2> QED
    BY <2>1, <2>4, <2>5, <2>6, <2>7 DEF TypeOK
<1>2. CASE CommandEndsLine(s)
  <2>1. part[s] \in Piped
    BY <1>2, KindsGrow DEF CommandEndsLine, TypeOK
  <2>2. <<part[s]>> \in Seq(Piped)
    BY <2>1
  <2>3. pipe' \in [Streams -> Seq(Piped)]
    BY <1>2, <2>2, IntoTypes DEF CommandEndsLine
  <2>4. part' \in [Streams -> Begun \cup {NoLine}]
    BY <1>2 DEF CommandEndsLine, TypeOK
  <2> QED
    BY <1>2, <2>3, <2>4
    DEF CommandEndsLine, TypeOK, shellVars, pumpVars, workerVars, otherVars
<1>3. CASE BackgroundWrites(s)
  <2>1. late' \in Nat /\ late' = late + 1
    BY <1>3 DEF BackgroundWrites, TypeOK
  <2>2. <<Raw("text", 0, late')>> \in Seq(Piped)
    BY <2>1, RawTypes, KindsGrow
  <2>3. pipe' \in [Streams -> Seq(Piped)]
    BY <1>3, <2>2, IntoTypes DEF BackgroundWrites
  <2> QED
    BY <1>3, <2>1, <2>3
    DEF BackgroundWrites, TypeOK, shellVars, pumpVars, workerVars, otherVars
<1> QED
  BY <1>1, <1>2, <1>3

LEMMA OtherTypes ==
  ASSUME TypeOK,
         \/ CommandReadsStdin \/ CommandEnds \/ CommandKillsShell \/ Signal \/ Close \/ Kill
         \/ HolderLetsGo
  PROVE  TypeOK'
<1>1. CASE CommandReadsStdin
  <2>1. stdin' \in Seq(Items)
    BY <1>1, HeadTailProperties DEF CommandReadsStdin, TypeOK
  <2>2. swallowed' \in BOOLEAN
    BY <1>1 DEF CommandReadsStdin, TypeOK
  <2> QED
    BY <1>1, <2>1, <2>2
    DEF CommandReadsStdin, TypeOK, ioVars, pumpVars, workerVars, otherVars
<1>2. CASE CommandEnds
  BY <1>2 DEF CommandEnds, TypeOK, ioVars, pumpVars, workerVars, otherVars
<1>3. CASE CommandKillsShell
  BY <1>3 DEF CommandKillsShell, ShellGone, TypeOK, ioVars, pumpVars, workerVars, otherVars
<1>4. CASE Signal
  BY <1>4 DEF Signal, ShellGone, TypeOK, ioVars, pumpVars, workerVars
<1>5. CASE Close
  <2>1. Append(stdin, Item("exit", 0)) \in Seq(Items)
    BY ItemTypes, AppendProperties DEF TypeOK
  <2>2. stdin' \in Seq(Items)
    BY <1>5, <2>1 DEF Close, TypeOK
  <2> QED
    BY <1>5, <2>2 DEF Close, TypeOK, ioVars, pumpVars, workerVars
<1>6. CASE Kill
  BY <1>6 DEF Kill, ShellGone, TypeOK, ioVars, pumpVars, workerVars, otherVars
<1>7. CASE HolderLetsGo
  BY <1>7 DEF HolderLetsGo, TypeOK, ioVars, pumpVars, workerVars, otherVars
<1> QED
  BY <1>1, <1>2, <1>3, <1>4, <1>5, <1>6, <1>7

\* The actions of Next, one by one.
LEMMA Actions ==
  ASSUME Next
  PROVE  \/ Run \/ CollectSentinel \/ ShellReads
         \/ \E s \in Streams : \/ CollectLine(s) \/ CollectEof(s) \/ Pump(s) \/ PumpEnds(s)
                              \/ CommandWrites(s) \/ CommandEndsLine(s) \/ BackgroundWrites(s)
         \/ CommandReadsStdin \/ CommandEnds \/ CommandKillsShell \/ Signal \/ Close \/ Kill
         \/ HolderLetsGo
BY DEF Next, Worker, Pumps, CommandActs

LEMMA TypesStay == TypeOK /\ [Next]_vars => TypeOK'
<1> SUFFICES ASSUME TypeOK, [Next]_vars PROVE TypeOK'
  OBVIOUS
<1>1. CASE UNCHANGED vars
  BY <1>1 DEF TypeOK, vars, ioVars, shellVars, pumpVars, workerVars, otherVars
<1>2. CASE Next
  <2>1. "out" \in Streams
    BY DEF Streams
  <2> QED
    BY <1>2, <2>1, Actions, RunTypes, WorkerTypes, PumpTypes, ReadTypes, CommandTypes, OtherTypes
<1> QED
  BY <1>1, <1>2
-----------------------------------------------------------------------------
(* The input of the shell. *)

\* A line has been read, by the shell or by a command.
LEMMA LineRead ==
  ASSUME TypeOK, InputInv, stdin # <<>>, stdin' = Tail(stdin), run' = run
  PROVE  /\ Has(Head(stdin).what)
         /\ \A w : Has(w)' => Has(w)
         /\ \A w : Has(w) => Has(w)' \/ Head(stdin).what = w
         /\ InOrder'
         /\ (\A i \in 1..Len(stdin) : stdin[i].what = "cmd" => stdin[i].run = run)'
         /\ \A w : Has(w)' /\ w # "exit" /\ Head(stdin).what # "exit" =>
                 Rank(Head(stdin).what) < Rank(w)
<1>1. /\ Len(stdin) \in Nat /\ Len(stdin) > 0 /\ Len(stdin') = Len(stdin) - 1
      /\ Head(stdin) = stdin[1]
      /\ \A i \in 1..Len(stdin') : stdin'[i] = stdin[i + 1]
  BY DEF TypeOK
<1>2. \A i \in 1..Len(stdin') : i + 1 \in 1..Len(stdin) /\ 1 < i + 1
  BY <1>1
<1>3. \A w : Has(w)' => \E i \in 1..Len(stdin) : i > 1 /\ stdin[i].what = w
  BY <1>1, <1>2 DEF Has
<1>4. \A w : Has(w) => Has(w)' \/ Head(stdin).what = w
  <2>1. ASSUME NEW i \in 1..Len(stdin), i # 1
        PROVE  i - 1 \in 1..Len(stdin') /\ stdin'[i - 1] = stdin[i]
    BY <1>1, <2>1
  <2> QED
    BY <1>1, <2>1 DEF Has
<1>5. InOrder'
  BY <1>1, <1>2 DEF InOrder, InputInv
<1>6. \A w : Has(w)' /\ w # "exit" /\ Head(stdin).what # "exit" =>
                 Rank(Head(stdin).what) < Rank(w)
  <2>1. 1 \in 1..Len(stdin)
    BY <1>1
  <2> QED
    BY <1>1, <1>3, <2>1 DEF InOrder, InputInv
<1>7. Has(Head(stdin).what)
  <2>1. 1 \in 1..Len(stdin)
    BY <1>1
  <2> QED
    BY <1>1, <2>1 DEF Has
<1>8. (\A i \in 1..Len(stdin) : stdin[i].what = "cmd" => stdin[i].run = run)'
  <2>1. ASSUME NEW i \in 1..Len(stdin'), stdin'[i].what = "cmd" PROVE stdin'[i].run = run'
    <3>1. i + 1 \in 1..Len(stdin) /\ stdin'[i] = stdin[i + 1]
      BY <1>1, <1>2
    <3> QED
      BY <2>1, <3>1 DEF InputInv
  <2> QED
    BY <2>1
<1>9. \A w : Has(w)' => Has(w)
  BY <1>3 DEF Has
<1> QED
  BY <1>4, <1>5, <1>6, <1>7, <1>8, <1>9

\* A run has written its command and the two lines behind it.
LEMMA RunWritten ==
  ASSUME TypeOK, InOrder, ~Has("cmd"), ~Has("out"), ~Has("err"),
         run' \in Nat, stdin' = stdin \o Framed(run')
  PROVE  /\ \A w : Has(w)' <=> Has(w) \/ w \in {"cmd", "out", "err"}
         /\ InOrder'
         /\ (\A i \in 1..Len(stdin) : stdin[i].what = "cmd" => stdin[i].run = run)'
<1> DEFINE n == Len(stdin)
<1>1. n \in Nat /\ stdin \in Seq(Items)
  BY DEF TypeOK
<1>2. /\ Len(stdin') = n + 3
      /\ \A i \in 1..n : stdin'[i] = stdin[i]
      /\ stdin'[n + 1] = Item("cmd", run') /\ stdin'[n + 2] = Item("out", run')
      /\ stdin'[n + 3] = Item("err", run')
  <2>1. Framed(run') \in Seq(Items) /\ Len(Framed(run')) = 3
    BY ItemTypes DEF Framed
  <2> QED
    BY <1>1, <2>1 DEF Framed
<1>3. \A i \in 1..n : stdin'[i].what = stdin[i].what /\ stdin[i].what \in {"trap", "exit"}
  <2>1. \A i \in 1..n : stdin[i] \in Items
    BY <1>1
  <2> QED
    BY <1>2, <2>1 DEF Has, Items
<1> HIDE DEF n
<1>4. \A i \in 1..Len(stdin') : i \in 1..n \/ i = n + 1 \/ i = n + 2 \/ i = n + 3
  BY <1>1, <1>2
<1>5. /\ stdin'[n + 1].what = "cmd" /\ stdin'[n + 2].what = "out" /\ stdin'[n + 3].what = "err"
      /\ stdin'[n + 1].run = run'
  BY <1>2 DEF Item
<1>6. n + 1 \in 1..Len(stdin') /\ n + 2 \in 1..Len(stdin') /\ n + 3 \in 1..Len(stdin')
      /\ \A i \in 1..n : i \in 1..Len(stdin')
  <2>1. n \in Nat /\ Len(stdin') = n + 3
    BY <1>1, <1>2
  <2> HIDE DEF n
  <2> QED
    BY <2>1
<1>7. \A w : Has(w)' <=> Has(w) \/ w \in {"cmd", "out", "err"}
  <2>1. ASSUME NEW w PROVE Has(w) => Has(w)'
    BY <1>3, <1>6 DEF Has, n
  <2>2. Has("cmd")' /\ Has("out")' /\ Has("err")'
    BY <1>5, <1>6 DEF Has
  <2>3. ASSUME NEW w, Has(w)' PROVE Has(w) \/ w \in {"cmd", "out", "err"}
    <3>1. PICK i \in 1..Len(stdin') : stdin'[i].what = w
      BY <2>3 DEF Has
    <3> QED
      BY <1>3, <1>4, <1>5, <3>1 DEF Has, n
  <2> QED
    BY <2>1, <2>2, <2>3
<1>8. InOrder'
  <2> SUFFICES ASSUME NEW i \in 1..Len(stdin'), NEW j \in 1..Len(stdin'), i < j,
                      stdin'[i].what # "exit", stdin'[j].what # "exit"
               PROVE  Rank(stdin'[i].what) < Rank(stdin'[j].what)
    BY DEF InOrder
  <2>1. CASE i \in 1..n /\ j \in 1..n
    BY <1>3, <2>1 DEF InOrder, n
  <2>2. CASE i \in 1..n /\ j \notin 1..n
    BY <1>3, <1>4, <1>5, <2>2 DEF Rank
  <2>3. CASE i \notin 1..n
    <3>1. n \in Nat
      BY <1>1
    <3>3. i = n + 1 \/ i = n + 2 \/ i = n + 3
      BY <1>4, <2>3
    <3>4. j \notin 1..n
      BY <3>1, <3>3
    <3>5. j = n + 1 \/ j = n + 2 \/ j = n + 3
      BY <1>4, <3>4
    <3>2. (i = n + 1 /\ j \in {n + 2, n + 3}) \/ (i = n + 2 /\ j = n + 3)
      BY <3>1, <3>3, <3>5
    <3> QED
      BY <1>5, <3>2 DEF Rank
  <2> QED
    BY <2>1, <2>2, <2>3
<1> QED
  BY <1>3, <1>4, <1>5, <1>7, <1>8

\* close has written its line.
LEMMA ExitWritten ==
  ASSUME TypeOK, InOrder, stdin' = Append(stdin, Item("exit", 0))
  PROVE  /\ \A w : Has(w)' <=> Has(w) \/ w = "exit"
         /\ InOrder'
         /\ \A i \in 1..Len(stdin') : stdin'[i].what = "cmd" =>
              i \in 1..Len(stdin) /\ stdin'[i] = stdin[i]
<1>1. /\ Len(stdin) \in Nat /\ Len(stdin') = Len(stdin) + 1
      /\ \A i \in 1..Len(stdin) : stdin'[i] = stdin[i]
      /\ stdin'[Len(stdin')] = Item("exit", 0)
  BY DEF TypeOK
<1>2. \A i \in 1..Len(stdin') : i \in 1..Len(stdin) \/ i = Len(stdin')
  BY <1>1
<1>3. stdin'[Len(stdin')].what = "exit" /\ Len(stdin') \in 1..Len(stdin')
      /\ 1..Len(stdin) \subseteq 1..Len(stdin')
  BY <1>1 DEF Item
<1> QED
  BY <1>1, <1>2, <1>3 DEF Has, InOrder
-----------------------------------------------------------------------------
(* The sentinels on their way. *)

LEMMA CatAt ==
  ASSUME NEW S, NEW q \in Seq(S), NEW r \in Seq(S)
  PROVE  /\ Len(q) \in Nat /\ Len(r) \in Nat /\ Len(q \o r) = Len(q) + Len(r)
         /\ \A i \in 1..Len(q) : (q \o r)[i] = q[i]
         /\ \A i \in 1..Len(q \o r) : i > Len(q) => (q \o r)[i] = r[i - Len(q)]
OBVIOUS

LEMMA MarksOfTail ==
  ASSUME NEW q \in Seq(Sunk), q # <<>>
  PROVE  /\ \A i \in Marks(Tail(q)) : i + 1 \in Marks(q) /\ Tail(q)[i] = q[i + 1]
         /\ Marks(q) = {} => Marks(Tail(q)) = {}
         /\ AtMostOne(q) => AtMostOne(Tail(q))
         /\ Head(q).what = "mark" => 1 \in Marks(q)
         /\ Head(q).what = "mark" /\ AtMostOne(q) => Marks(Tail(q)) = {}
<1>1. /\ Len(q) \in Nat /\ Len(q) > 0 /\ Len(Tail(q)) = Len(q) - 1 /\ Head(q) = q[1]
      /\ \A i \in 1..Len(Tail(q)) : Tail(q)[i] = q[i + 1]
  OBVIOUS
<1>2. \A i \in Marks(Tail(q)) : i \in Nat /\ i > 0 /\ i + 1 \in Marks(q) /\ Tail(q)[i] = q[i + 1]
  BY <1>1 DEF Marks
<1>3. AtMostOne(q) => AtMostOne(Tail(q))
  <2> SUFFICES ASSUME AtMostOne(q), NEW i \in Marks(Tail(q)), NEW j \in Marks(Tail(q))
               PROVE  i = j
    BY DEF AtMostOne
  <2>1. i + 1 = j + 1 /\ i \in Nat /\ j \in Nat
    BY <1>2 DEF AtMostOne
  <2> QED
    BY <2>1
<1>4. Head(q).what = "mark" => 1 \in Marks(q)
  BY <1>1 DEF Marks
<1>5. Head(q).what = "mark" /\ AtMostOne(q) => Marks(Tail(q)) = {}
  <2> SUFFICES ASSUME Head(q).what = "mark", AtMostOne(q), NEW i \in Marks(Tail(q)) PROVE FALSE
    OBVIOUS
  <2>1. i + 1 = 1 /\ i \in Nat /\ i > 0
    BY <1>2, <1>4 DEF AtMostOne
  <2> QED
    BY <2>1
<1> QED
  BY <1>2, <1>3, <1>4, <1>5

LEMMA MarksOfCat ==
  ASSUME NEW q \in Seq(Sunk), NEW r \in Seq(Sunk)
  PROVE  /\ \A i \in Marks(q \o r) :
              \/ i \in Marks(q) /\ (q \o r)[i] = q[i]
              \/ i - Len(q) \in Marks(r) /\ (q \o r)[i] = r[i - Len(q)]
         /\ Marks(q) = {} /\ Marks(r) = {} => Marks(q \o r) = {}
         /\ Marks(r) = {} /\ AtMostOne(q) => AtMostOne(q \o r)
         /\ Marks(q) = {} /\ AtMostOne(r) => AtMostOne(q \o r)
<1>1. /\ Len(q) \in Nat /\ Len(r) \in Nat /\ Len(q \o r) = Len(q) + Len(r)
      /\ \A i \in 1..Len(q) : (q \o r)[i] = q[i]
      /\ \A i \in 1..Len(q \o r) : i > Len(q) => (q \o r)[i] = r[i - Len(q)]
  OBVIOUS
<1>2. ASSUME NEW i \in Marks(q \o r)
      PROVE  /\ i \in Nat
             /\ \/ i \in Marks(q) /\ (q \o r)[i] = q[i]
                \/ i - Len(q) \in Marks(r) /\ (q \o r)[i] = r[i - Len(q)]
  <2>1. i \in 1..Len(q \o r) /\ (q \o r)[i].what = "mark"
    BY DEF Marks
  <2>2. CASE i <= Len(q)
    <3>1. i \in 1..Len(q)
      BY <1>1, <2>1, <2>2
    <3> QED
      BY <1>1, <2>1, <3>1 DEF Marks
  <2>3. CASE i > Len(q)
    <3>1. i - Len(q) \in 1..Len(r)
      BY <1>1, <2>1, <2>3
    <3> QED
      BY <1>1, <2>1, <2>3, <3>1 DEF Marks
  <2> QED
    BY <1>1, <2>1, <2>2, <2>3
<1>3. Marks(r) = {} /\ AtMostOne(q) => AtMostOne(q \o r)
  BY <1>2 DEF AtMostOne
<1>4. Marks(q) = {} /\ AtMostOne(r) => AtMostOne(q \o r)
  <2> SUFFICES ASSUME Marks(q) = {}, AtMostOne(r), NEW i \in Marks(q \o r), NEW j \in Marks(q \o r)
               PROVE  i = j
    BY DEF AtMostOne
  <2>1. i - Len(q) = j - Len(q) /\ i \in Nat /\ j \in Nat
    BY <1>2 DEF AtMostOne
  <2> QED
    BY <1>1, <2>1
<1> QED
  BY <1>2, <1>3, <1>4

LEMMA CatUnmarked ==
  ASSUME NEW q \in Seq(Sunk), NEW r \in Seq(Sunk), Marks(r) = {}
  PROVE  /\ q \o r \in Seq(Sunk)
         /\ Marks(q) = {} => Marks(q \o r) = {}
         /\ AtMostOne(q) => AtMostOne(q \o r)
         /\ \A i \in Marks(q \o r) : i \in Marks(q) /\ (q \o r)[i] = q[i]
BY MarksOfCat, ConcatProperties

LEMMA MarksOfOne ==
  /\ Marks(<<>>) = {}
  /\ \A l : AtMostOne(<<l>>) /\ (l.what # "mark" => Marks(<<l>>) = {})
           /\ (\A i \in Marks(<<l>>) : <<l>>[i] = l)
BY DEF Marks, AtMostOne

\* What a pump holds back is no sentinel.
LEMMA MarksOfHeld ==
  ASSUME TypeOK, NEW s \in Streams
  PROVE  Marks(Held(s)) = {} /\ Marks(HeldText(s)) = {}
<1>1. pend[s] # NoLine => pend[s].what # "mark"
  BY DEF TypeOK, Ended, LinesOf
<1> QED
  BY <1>1, MarksOfOne DEF Held, HeldText

\* A step that leaves the sentinels of a stream as they are, but for where.
Quiet(s) ==
  /\ NoMark(s) => NoMark(s)'
  /\ OneMark(s) => OneMark(s)'
  /\ OwnMarks(s) => OwnMarks(s)'

LEMMA QuietSame ==
  ASSUME NEW s \in Streams, UNCHANGED <<sink[s], pipe[s], run>>
  PROVE  Quiet(s)
BY DEF Quiet, NoMark, OneMark, OwnMarks, AtMostOne, Marks

\* Something that is no sentinel is written, ...
LEMMA QuietWrite ==
  ASSUME TypeOK, NEW s \in Streams, NEW rest \in Seq(Piped), Marks(rest) = {}, Into(s, rest),
         UNCHANGED <<sink, run>>
  PROVE  Quiet("out") /\ Quiet("err")
<1>1. /\ pipe'[s] = pipe[s] \o rest
      /\ \A t \in Streams : t # s => pipe'[t] = pipe[t]
  BY DEF Into, TypeOK
<1>2. pipe[s] \in Seq(Sunk) /\ rest \in Seq(Sunk)
  BY KindsGrow, SeqMonotonic DEF TypeOK
<1>3. Quiet(s)
  <2> DEFINE after == pipe[s] \o rest
  <2>1. /\ Marks(pipe[s]) = {} => Marks(after) = {}
        /\ AtMostOne(pipe[s]) => AtMostOne(after)
        /\ \A i \in Marks(after) : i \in Marks(pipe[s]) /\ after[i] = pipe[s][i]
    BY <1>2, CatUnmarked
  <2>2. pipe'[s] = after
    BY <1>1
  <2> HIDE DEF after
  <2> QED
    BY <2>1, <2>2 DEF Quiet, NoMark, OneMark, OwnMarks, Marks, AtMostOne
<1> QED
  BY <1>1, <1>3, QuietSame DEF Streams

\* ... collected ...
LEMMA QuietCollect ==
  ASSUME TypeOK, NEW s \in Streams, sink[s] # <<>>, sink' = [sink EXCEPT ![s] = Tail(@)],
         UNCHANGED <<pipe, run>>
  PROVE  Quiet("out") /\ Quiet("err")
<1>1. /\ sink'[s] = Tail(sink[s])
      /\ \A t \in Streams : t # s => sink'[t] = sink[t]
      /\ sink[s] \in Seq(Sunk)
  BY DEF TypeOK
<1>2. Quiet(s)
  <2> DEFINE after == Tail(sink[s])
  <2>1. /\ Marks(sink[s]) = {} => Marks(after) = {}
        /\ AtMostOne(sink[s]) => AtMostOne(after)
        /\ \A i \in Marks(after) : i + 1 \in Marks(sink[s]) /\ after[i] = sink[s][i + 1]
    BY <1>1, MarksOfTail
  <2>2. sink'[s] = after
    BY <1>1
  <2> HIDE DEF after
  <2> QED
    BY <2>1, <2>2 DEF Quiet, NoMark, OneMark, OwnMarks, Marks, AtMostOne
<1> QED
  BY <1>1, <1>2, QuietSame DEF Streams

\* ... or pumped, be it a sentinel or not.
LEMMA QuietPump ==
  ASSUME TypeOK, NEW s \in Streams, Pump(s)
  PROVE  Quiet("out") /\ Quiet("err")
<1>1. /\ pipe[s] # <<>> /\ pipe'[s] = Tail(pipe[s]) /\ run' = run
      /\ \A t \in Streams : t # s => pipe'[t] = pipe[t] /\ sink'[t] = sink[t]
      /\ pipe[s] \in Seq(Sunk) /\ sink[s] \in Seq(Sunk) /\ Head(pipe[s]) \in Sunk
  BY KindsGrow, SeqMonotonic, HeadTailProperties DEF Pump, TypeOK, workerVars
<1> DEFINE rest == Tail(pipe[s])
<1>2. /\ Marks(pipe[s]) = {} => Marks(rest) = {}
      /\ AtMostOne(pipe[s]) => AtMostOne(rest)
      /\ \A i \in Marks(rest) : i + 1 \in Marks(pipe[s]) /\ rest[i] = pipe[s][i + 1]
      /\ Head(pipe[s]).what = "mark" => 1 \in Marks(pipe[s])
      /\ Head(pipe[s]).what = "mark" /\ AtMostOne(pipe[s]) => Marks(rest) = {}
  BY <1>1, MarksOfTail
<1>3. /\ Held(s) \in Seq(Sunk) /\ Marks(Held(s)) = {}
      /\ HeldText(s) \in Seq(Sunk) /\ Marks(HeldText(s)) = {}
  BY HeldTypes, MarksOfHeld
<1>4. pipe'[s] = rest
  BY <1>1
<1> HIDE DEF rest
<1>5. Quiet(s)
  <2>1. CASE Head(pipe[s]).what # "mark"
    <3> DEFINE after == sink[s] \o Held(s)
    <3>1. sink'[s] = after
      BY <2>1 DEF Pump, TypeOK
    <3>2. /\ Marks(sink[s]) = {} => Marks(after) = {}
          /\ AtMostOne(sink[s]) => AtMostOne(after)
          /\ \A i \in Marks(after) : i \in Marks(sink[s]) /\ after[i] = sink[s][i]
      BY <1>1, <1>3, CatUnmarked
    <3> HIDE DEF after
    <3>3. NoMark(s) => NoMark(s)'
      BY <1>2, <1>4, <3>1, <3>2 DEF NoMark
    <3>4. OneMark(s) => OneMark(s)'
      BY <1>2, <1>4, <3>1, <3>2 DEF OneMark, AtMostOne, Marks
    <3>5. OwnMarks(s) => OwnMarks(s)'
      <4> SUFFICES ASSUME OwnMarks(s) PROVE OwnMarks(s)'
        OBVIOUS
      <4>1. \A i \in Marks(rest) : rest[i].run = run
        BY <1>2 DEF OwnMarks
      <4>2. \A i \in Marks(after) : after[i].run = run
        BY <3>2 DEF OwnMarks
      <4> QED
        BY <1>1, <1>4, <3>1, <4>1, <4>2 DEF OwnMarks
    <3> QED
      BY <3>3, <3>4, <3>5 DEF Quiet
  <2>2. CASE Head(pipe[s]).what = "mark"
    <3> DEFINE raw == Head(pipe[s])
               front == sink[s] \o HeldText(s)
               after == front \o <<raw>>
    <3>1. sink'[s] = after
      BY <2>2 DEF Pump, TypeOK
    <3>2. /\ front \in Seq(Sunk)
          /\ Marks(sink[s]) = {} => Marks(front) = {}
          /\ \A i \in Marks(front) : i \in Marks(sink[s]) /\ front[i] = sink[s][i]
      BY <1>1, <1>3, CatUnmarked
    <3>3. 1 \in Marks(pipe[s]) /\ pipe[s][1] = raw
      BY <1>1, <1>2, <2>2
    <3> HIDE DEF front
    <3>4. /\ \A i \in Marks(after) :
               \/ i \in Marks(front) /\ after[i] = front[i]
               \/ i - Len(front) \in Marks(<<raw>>) /\ after[i] = <<raw>>[i - Len(front)]
          /\ Marks(front) = {} /\ AtMostOne(<<raw>>) => AtMostOne(after)
      <4> DEFINE one == <<raw>>
      <4>1. one \in Seq(Sunk)
        BY <1>1
      <4> HIDE DEF one
      <4>2. /\ \A i \in Marks(front \o one) :
                  \/ i \in Marks(front) /\ (front \o one)[i] = front[i]
                  \/ i - Len(front) \in Marks(one) /\ (front \o one)[i] = one[i - Len(front)]
            /\ Marks(front) = {} /\ AtMostOne(one) => AtMostOne(front \o one)
        BY <3>2, <4>1, MarksOfCat
      <4> QED
        BY <4>2 DEF one
    <3>5. AtMostOne(<<raw>>) /\ \A i \in Marks(<<raw>>) : <<raw>>[i] = raw
      BY MarksOfOne
    <3> HIDE DEF raw, after
    <3>6. NoMark(s) => NoMark(s)'
      BY <3>3 DEF NoMark
    <3>7. OneMark(s) => OneMark(s)'
      <4> SUFFICES ASSUME OneMark(s) PROVE OneMark(s)'
        OBVIOUS
      <4>1. Marks(rest) = {} /\ AtMostOne(rest)
        BY <1>2, <2>2 DEF OneMark
      <4>2. AtMostOne(after)
        BY <3>2, <3>3, <3>4, <3>5 DEF OneMark
      <4> QED
        BY <1>4, <3>1, <4>1, <4>2 DEF OneMark, AtMostOne, Marks
    <3>8. OwnMarks(s) => OwnMarks(s)'
      <4> SUFFICES ASSUME OwnMarks(s) PROVE OwnMarks(s)'
        OBVIOUS
      <4>1. \A i \in Marks(rest) : rest[i].run = run
        BY <1>2 DEF OwnMarks
      <4>2. raw.run = run
        BY <3>3 DEF OwnMarks
      <4>3. \A i \in Marks(after) : after[i].run = run
        BY <3>2, <3>4, <3>5, <4>2 DEF OwnMarks
      <4> QED
        BY <1>1, <1>4, <3>1, <4>1, <4>3 DEF OwnMarks
    <3> QED
      BY <3>6, <3>7, <3>8 DEF Quiet
  <2> QED
    BY <2>1, <2>2
<1> QED
  BY <1>1, <1>4, <1>5, QuietSame DEF Streams

LEMMA QuietPumpEnds ==
  ASSUME TypeOK, NEW s \in Streams, PumpEnds(s)
  PROVE  Quiet("out") /\ Quiet("err")
<1> DEFINE rest == IF part[s] = NoLine THEN <<>> ELSE <<part[s]>>
           eof == <<Raw("eof", 0, 0)>>
           front == sink[s] \o Held(s)
<1>1. /\ sink'[s] = front \o rest \o eof /\ run' = run
      /\ \A t \in Streams : t # s => sink'[t] = sink[t]
      /\ pipe' = pipe
  BY DEF PumpEnds, TypeOK, workerVars
<1>2. /\ rest \in Seq(Sunk) /\ eof \in Seq(Sunk) /\ sink[s] \in Seq(Sunk)
      /\ Held(s) \in Seq(Sunk)
  BY KindsGrow, RawTypes, HeldTypes DEF TypeOK
<1>3. Marks(rest) = {} /\ Marks(eof) = {} /\ Marks(Held(s)) = {}
  <2>1. part[s] # NoLine => part[s].what # "mark"
    BY DEF TypeOK, Begun, LinesOf
  <2> QED
    BY <2>1, MarksOfOne, MarksOfHeld DEF Raw
<1> HIDE DEF rest, eof
<1>4. /\ front \in Seq(Sunk)
      /\ Marks(sink[s]) = {} => Marks(front) = {}
      /\ AtMostOne(sink[s]) => AtMostOne(front)
      /\ \A i \in Marks(front) : i \in Marks(sink[s]) /\ front[i] = sink[s][i]
  BY <1>2, <1>3, MarksOfCat, ConcatProperties
<1> HIDE DEF front
<1>5. /\ front \o rest \in Seq(Sunk)
      /\ Marks(sink[s]) = {} => Marks(front \o rest) = {}
      /\ AtMostOne(sink[s]) => AtMostOne(front \o rest)
      /\ \A i \in Marks(front \o rest) : i \in Marks(sink[s]) /\ (front \o rest)[i] = sink[s][i]
  BY <1>2, <1>3, <1>4, MarksOfCat, ConcatProperties
<1>6. /\ Marks(sink[s]) = {} => Marks(sink'[s]) = {}
      /\ AtMostOne(sink[s]) => AtMostOne(sink'[s])
      /\ \A i \in Marks(sink'[s]) : i \in Marks(sink[s]) /\ sink'[s][i] = sink[s][i]
  <2>1. /\ Marks(front \o rest) = {} => Marks(front \o rest \o eof) = {}
        /\ AtMostOne(front \o rest) => AtMostOne(front \o rest \o eof)
        /\ \A i \in Marks(front \o rest \o eof) :
             i \in Marks(front \o rest) /\ (front \o rest \o eof)[i] = (front \o rest)[i]
    BY <1>2, <1>3, <1>5, CatUnmarked
  <2> QED
    BY <1>1, <1>5, <2>1
<1>7. Quiet(s)
  BY <1>1, <1>6 DEF Quiet, NoMark, OneMark, OwnMarks, AtMostOne
<1> QED
  BY <1>1, <1>7, QuietSame DEF Streams
-----------------------------------------------------------------------------
(* While no handler has raised: what is on its way belongs to the run. *)

\* A dead shell stays dead, and the worker is refused for ever.
LEMMA LiveBefore == TypeOK /\ Next /\ Live' => Live
<1> SUFFICES ASSUME TypeOK, Next, Live' PROVE Live
  OBVIOUS
<1>1. raises \in Nat
  BY DEF TypeOK
<1>2. CASE Run
  BY <1>2 DEF Run, Live
<1>3. CASE CollectSentinel
  BY <1>3 DEF CollectSentinel, Live, shellVars
<1>4. CASE ShellReads
  BY <1>4 DEF ShellReads, Live, workerVars
<1>5. ASSUME NEW s \in Streams, CollectLine(s) PROVE Live
  BY <1>1, <1>5 DEF CollectLine, Live, shellVars, Streams
<1>6. ASSUME NEW s \in Streams, CollectEof(s) PROVE Live
  BY <1>6 DEF CollectEof, Live, shellVars, Streams
<1>7. ASSUME NEW s \in Streams, Pump(s) \/ PumpEnds(s) PROVE Live
  BY <1>7 DEF Pump, PumpEnds, Live, shellVars, workerVars
<1>8. ASSUME NEW s \in Streams, CommandWrites(s) \/ CommandEndsLine(s) \/ BackgroundWrites(s)
      PROVE  Live
  BY <1>8 DEF CommandWrites, CommandEndsLine, BackgroundWrites, Live, shellVars, workerVars
<1>9. CASE CommandReadsStdin \/ CommandEnds \/ CommandKillsShell \/ Signal \/ Close \/ Kill
         \/ HolderLetsGo
  BY <1>9 DEF CommandReadsStdin, CommandEnds, CommandKillsShell, Signal, Close, Kill,
     HolderLetsGo, ShellGone, Live,
     shellVars, workerVars
<1> QED
  BY <1>2, <1>3, <1>4, <1>5, <1>6, <1>7, <1>8, <1>9, Actions

CalmInv == InputInv /\ QuietInv /\ MarkInv

\* A step of the pumps, of a handler or of what writes to a stream.
LEMMA QuietStep ==
  ASSUME CalmInv, Quiet("out"), Quiet("err"), UNCHANGED <<stdin, shell, job, dollar, wpc, run>>
  PROVE  CalmInv'
<1>1. NoMarks => NoMarks'
  BY DEF Quiet, NoMarks
<1>2. MarkInv'
  BY DEF CalmInv, MarkInv, Quiet
<1>3. QuietInv'
  BY <1>1 DEF CalmInv, QuietInv, Quiet
<1>4. InputInv'
  <2>1. \A w : Has(w)' <=> Has(w)
    BY DEF Has
  <2> QED
    BY <1>1, <2>1 DEF CalmInv, InputInv, InOrder, Quiet
<1> QED
  BY <1>2, <1>3, <1>4 DEF CalmInv

\* A step of the shell that writes nothing.
LEMMA SilentStep ==
  ASSUME UNCHANGED <<sink, pipe, run>>
  PROVE  /\ NoMark("out")' <=> NoMark("out")
         /\ NoMark("err")' <=> NoMark("err")
         /\ NoMarks' <=> NoMarks
         /\ MarkInv => MarkInv'
BY DEF NoMark, NoMarks, MarkInv, OneMark, OwnMarks, AtMostOne, Marks

LEMMA RunCalm == TypeOK /\ CalmInv /\ Live' /\ Run => CalmInv'
<1> SUFFICES ASSUME TypeOK, CalmInv, Live', Run PROVE CalmInv'
  OBVIOUS
<1>1. /\ wpc = "idle" /\ shell # "dead" /\ run' = run + 1
      /\ wpc' = "out" /\ stdin' = stdin \o Framed(run')
      /\ UNCHANGED <<shell, sink, pipe>>
  BY DEF Run, Live, pumpVars
<1>2. NoMarks /\ ~Has("cmd") /\ ~Has("out") /\ ~Has("err") /\ shell # "busy"
  BY <1>1 DEF CalmInv, QuietInv, InputInv
<1>3. NoMarks'
  BY <1>1, <1>2 DEF NoMarks, NoMark, Marks
<1>4. MarkInv'
  BY <1>3 DEF NoMarks, NoMark, MarkInv, OneMark, OwnMarks, AtMostOne
<1>5. QuietInv'
  BY <1>1, <1>2, <1>3 DEF QuietInv
<1>6. InputInv'
  <2>1. run' \in Nat
    BY <1>1 DEF TypeOK
  <2>2. InOrder
    BY DEF CalmInv, InputInv
  <2>3. /\ \A w : Has(w)' <=> Has(w) \/ w \in {"cmd", "out", "err"}
        /\ InOrder'
        /\ (\A i \in 1..Len(stdin) : stdin[i].what = "cmd" => stdin[i].run = run)'
    BY <1>1, <1>2, <2>1, <2>2, RunWritten
  <2> QED
    BY <1>1, <1>2, <1>3, <2>3 DEF InputInv, NoMarks
<1> QED
  BY <1>4, <1>5, <1>6 DEF CalmInv

LEMMA CollectCalm ==
  ASSUME TypeOK, CalmInv, EofInv, Live', NEW s \in Streams, CollectLine(s) \/ CollectEof(s)
  PROVE  CalmInv'
<1>1. CASE CollectLine(s)
  <2>1. /\ sink[s] # <<>> /\ sink' = [sink EXCEPT ![s] = Tail(@)]
        /\ UNCHANGED <<pipe, stdin, shell, job, dollar, run>>
    BY <1>1 DEF CollectLine, ioVars, shellVars
  <2>2. wpc' = wpc
    BY <1>1 DEF CollectLine, Live, TypeOK
  <2>3. Quiet("out") /\ Quiet("err")
    BY <2>1, QuietCollect
  <2> QED
    BY <2>1, <2>2, <2>3, QuietStep
<1>2. CASE CollectEof(s)
  <2>1. shell # "dead" => Head(sink[s]) \in Piped
    BY <1>2, HeadTailProperties DEF CollectEof, EofInv
  <2>2. shell = "dead"
    BY <1>2, <2>1 DEF CollectEof, Piped, LinesOf
  <2> QED
    BY <1>2, <2>2 DEF CollectEof, Live, shellVars
<1> QED
  BY <1>1, <1>2

\* The sentinel is the only one: none is left of its stream.
LEMMA SentinelTaken ==
  ASSUME TypeOK, NEW s \in Streams, OneMark(s), sink[s] # <<>>, Head(sink[s]).what = "mark",
         sink' = [sink EXCEPT ![s] = Tail(@)], UNCHANGED pipe
  PROVE  /\ NoMark(s)'
         /\ \A t \in Streams : t # s => (NoMark(t)' <=> NoMark(t))
         /\ 1 \in Marks(sink[s])
<1>1. sink[s] \in Seq(Sunk)
  BY DEF TypeOK
<1>2. /\ 1 \in Marks(sink[s])
      /\ AtMostOne(sink[s]) => Marks(Tail(sink[s])) = {}
  BY <1>1, MarksOfTail
<1>3. sink'[s] = Tail(sink[s]) /\ \A t \in Streams : t # s => sink'[t] = sink[t]
  BY DEF TypeOK
<1>4. NoMark(s)'
  BY <1>2, <1>3 DEF NoMark, OneMark
<1> QED
  BY <1>2, <1>3, <1>4 DEF NoMark

LEMMA SentinelCalm ==
  ASSUME TypeOK, CalmInv, Live', CollectSentinel
  PROVE  CalmInv' /\ (wpc = "out" => code' = run)
<1>1. /\ UNCHANGED <<stdin, shell, job, dollar, run, pipe>>
      /\ "out" \in Streams /\ "err" \in Streams
  BY DEF CollectSentinel, ioVars, shellVars, Streams
<1>2. \A w : Has(w)' <=> Has(w)
  BY <1>1 DEF Has
<1>3. InOrder' /\ (\A i \in 1..Len(stdin) : stdin[i].what = "cmd" => stdin[i].run = run)'
  BY <1>1 DEF CalmInv, InputInv, InOrder
<1>4. CASE wpc = "out"
  <2>1. /\ wpc' = "err" /\ code' = Head(sink["out"]).run /\ sink["out"] # <<>>
        /\ Head(sink["out"]).what = "mark" /\ sink' = [sink EXCEPT !["out"] = Tail(@)]
    BY <1>4 DEF CollectSentinel
  <2>2. NoMark("out")' /\ (NoMark("err")' <=> NoMark("err")) /\ 1 \in Marks(sink["out"])
    BY <1>1, <2>1, SentinelTaken DEF CalmInv, MarkInv
  <2>3. ~NoMark("out")
    BY <2>2 DEF NoMark
  <2>4. code' = run
    <3>1. sink["out"][1] = Head(sink["out"])
      BY <1>1, <2>1 DEF TypeOK
    <3> QED
      BY <2>1, <2>2, <3>1 DEF CalmInv, MarkInv, OwnMarks
  <2>5. ~Has("cmd") /\ ~Has("out") /\ shell # "busy"
    BY <2>3 DEF CalmInv, InputInv, QuietInv, NoMarks
  <2>6. MarkInv'
    <3>1. sink'["err"] = sink["err"] /\ pipe' = pipe
      BY <1>1, <2>1 DEF TypeOK
    <3> QED
      BY <2>2, <3>1 DEF CalmInv, MarkInv, OneMark, OwnMarks, NoMark, AtMostOne, Marks
  <2>7. QuietInv'
    BY <1>1, <2>1, <2>2, <2>5 DEF QuietInv
  <2>8. InputInv'
    BY <1>1, <1>2, <1>3, <2>1, <2>2, <2>5 DEF CalmInv, InputInv
  <2> QED
    BY <2>4, <2>6, <2>7, <2>8 DEF CalmInv
<1>5. CASE wpc = "err"
  <2>1. /\ wpc' = "idle" /\ sink["err"] # <<>>
        /\ Head(sink["err"]).what = "mark" /\ sink' = [sink EXCEPT !["err"] = Tail(@)]
    BY <1>5 DEF CollectSentinel
  <2>2. NoMark("err")' /\ (NoMark("out")' <=> NoMark("out")) /\ 1 \in Marks(sink["err"])
    BY <1>1, <2>1, SentinelTaken DEF CalmInv, MarkInv
  <2>3. NoMark("out") /\ ~NoMark("err")
    BY <1>5, <2>2 DEF NoMark, CalmInv, QuietInv
  <2>4. NoMarks'
    BY <2>2, <2>3 DEF NoMarks
  <2>5. ~Has("cmd") /\ ~Has("out") /\ ~Has("err") /\ shell # "busy"
    BY <2>3 DEF CalmInv, InputInv, QuietInv, NoMarks
  <2>6. MarkInv'
    BY <2>4 DEF NoMarks, NoMark, MarkInv, OneMark, OwnMarks, AtMostOne
  <2>7. QuietInv'
    BY <1>1, <2>1, <2>4, <2>5 DEF QuietInv
  <2>8. InputInv'
    BY <1>1, <1>2, <1>3, <2>5 DEF CalmInv, InputInv
  <2> QED
    BY <1>5, <2>6, <2>7, <2>8 DEF CalmInv
<1> QED
  BY <1>4, <1>5 DEF CollectSentinel

\* One line is printed to a stream without a sentinel on its way: at most one is.
LEMMA PrintMarks ==
  ASSUME TypeOK, NEW s \in Streams, NoMark(s), NEW a \in Piped, a.what # "mark", NEW b \in Piped,
         UNCHANGED sink, Into(s, <<a, b>>) \/ Into(s, <<b>>)
  PROVE  /\ OneMark(s)' /\ (b.run = run' => OwnMarks(s)')
         /\ b.what # "mark" => NoMark(s)'
         /\ \A t \in Streams : t # s => pipe'[t] = pipe[t]
<1> DEFINE one == <<b>>
           two == <<a, b>>
<1>1. /\ Marks(sink[s]) = {} /\ Marks(pipe[s]) = {} /\ sink'[s] = sink[s]
      /\ pipe'[s] = pipe[s] \o one \/ pipe'[s] = pipe[s] \o two
      /\ \A t \in Streams : t # s => pipe'[t] = pipe[t]
  BY DEF NoMark, Into, TypeOK
<1>2. pipe[s] \in Seq(Sunk) /\ one \in Seq(Sunk) /\ two \in Seq(Sunk)
  BY KindsGrow, SeqMonotonic DEF TypeOK
<1>3. /\ AtMostOne(one) /\ (b.what # "mark" => Marks(one) = {})
      /\ \A i \in Marks(one) : one[i] = b
  BY MarksOfOne
<1>4. /\ AtMostOne(two) /\ (b.what # "mark" => Marks(two) = {})
      /\ \A i \in Marks(two) : two[i] = b
  BY DEF Marks, AtMostOne
<1> HIDE DEF one, two
<1>5. ASSUME NEW r \in Seq(Sunk), AtMostOne(r), \A i \in Marks(r) : r[i] = b,
             b.what # "mark" => Marks(r) = {}
      PROVE  /\ AtMostOne(pipe[s] \o r) /\ (b.what # "mark" => Marks(pipe[s] \o r) = {})
             /\ \A i \in Marks(pipe[s] \o r) : (pipe[s] \o r)[i] = b
  <2>1. /\ \A i \in Marks(pipe[s] \o r) :
              \/ i \in Marks(pipe[s]) /\ (pipe[s] \o r)[i] = pipe[s][i]
              \/ i - Len(pipe[s]) \in Marks(r) /\ (pipe[s] \o r)[i] = r[i - Len(pipe[s])]
        /\ Marks(pipe[s]) = {} /\ Marks(r) = {} => Marks(pipe[s] \o r) = {}
        /\ Marks(pipe[s]) = {} /\ AtMostOne(r) => AtMostOne(pipe[s] \o r)
    BY <1>2, MarksOfCat
  <2> QED
    BY <1>1, <1>5, <2>1
<1>6. /\ AtMostOne(pipe'[s]) /\ (b.what # "mark" => Marks(pipe'[s]) = {})
      /\ \A i \in Marks(pipe'[s]) : pipe'[s][i] = b
  BY <1>1, <1>2, <1>3, <1>4, <1>5
<1>7. OneMark(s)' /\ (b.what # "mark" => NoMark(s)')
  BY <1>1, <1>6 DEF OneMark, NoMark, AtMostOne, Marks
<1>8. b.run = run' => OwnMarks(s)'
  BY <1>1, <1>6 DEF OwnMarks
<1> QED
  BY <1>1, <1>7, <1>8

LEMMA ReadCalm == TypeOK /\ CalmInv /\ Live' /\ ShellReads => CalmInv'
<1> SUFFICES ASSUME TypeOK, CalmInv, Live', ShellReads PROVE CalmInv'
  OBVIOUS
<1>1. /\ shell = "ready" /\ stdin # <<>> /\ stdin' = Tail(stdin)
      /\ UNCHANGED <<sink, run, wpc>>
  BY DEF ShellReads, workerVars
<1>2. /\ Has(Head(stdin).what)
      /\ \A w : Has(w)' => Has(w)
      /\ \A w : Has(w) => Has(w)' \/ Head(stdin).what = w
      /\ InOrder'
      /\ (\A i \in 1..Len(stdin) : stdin[i].what = "cmd" => stdin[i].run = run)'
      /\ \A w : Has(w)' /\ w # "exit" /\ Head(stdin).what # "exit" =>
           Rank(Head(stdin).what) < Rank(w)
  BY <1>1, LineRead DEF CalmInv
<1>3. CASE ShellTraps
  <2>1. Head(stdin).what = "trap" /\ UNCHANGED <<shell, job, dollar, pipe>>
    BY <1>3 DEF ShellTraps, ioVars
  <2>2. ~Has("trap")'
    BY <1>2, <2>1 DEF Rank
  <2>3. (Has("cmd")' <=> Has("cmd")) /\ (NoMarks' <=> NoMarks) /\ MarkInv'
        /\ (NoMark("err")' <=> NoMark("err")) /\ (NoMark("out")' <=> NoMark("out"))
    BY <1>1, <1>2, <2>1, SilentStep DEF CalmInv
  <2>4. InputInv'
    BY <1>1, <1>2, <2>1, <2>2, <2>3 DEF CalmInv, InputInv
  <2> QED
    BY <1>1, <2>1, <2>3, <2>4 DEF CalmInv, QuietInv
<1>4. CASE ShellBegins
  <2>1. Head(stdin).what = "cmd" /\ shell' = "busy" /\ job' = Head(stdin).run /\ pipe' = pipe
    BY <1>4 DEF ShellBegins
  <2>2. ~Has("trap")' /\ ~Has("cmd")' /\ wpc = "out" /\ NoMarks
    BY <1>2, <2>1 DEF Rank, CalmInv, InputInv
  <2>3. job' = run
    <3>1. Head(stdin) = stdin[1] /\ 1 \in 1..Len(stdin)
      BY <1>1 DEF TypeOK
    <3> QED
      BY <2>1, <3>1 DEF CalmInv, InputInv
  <2>4. NoMarks' /\ MarkInv' /\ NoMark("err")' /\ NoMark("out")'
    BY <1>1, <2>1, <2>2, SilentStep DEF CalmInv, NoMarks
  <2>5. InputInv'
    BY <1>1, <1>2, <2>1, <2>2, <2>3, <2>4 DEF CalmInv, InputInv
  <2> QED
    BY <1>1, <2>2, <2>3, <2>4, <2>5 DEF CalmInv, QuietInv
<1>5. CASE ShellPrintsOut
  <2>1. /\ Head(stdin).what = "out"
        /\ Into("out", <<IF part["out"] = NoLine THEN Framing ELSE part["out"],
                         Raw("mark", dollar, 0)>>)
        /\ UNCHANGED <<shell, job>>
    BY <1>5 DEF ShellPrintsOut
  <2>2. ~Has("trap")' /\ ~Has("cmd")' /\ ~Has("out")' /\ wpc = "out" /\ NoMarks
    BY <1>2, <2>1 DEF Rank, CalmInv, InputInv
  <2>3. dollar = run
    BY <1>1, <1>2, <2>1, <2>2 DEF CalmInv, InputInv
  <2>4. OneMark("out")' /\ OwnMarks("out")' /\ pipe'["err"] = pipe["err"]
    <3> DEFINE a == IF part["out"] = NoLine THEN Framing ELSE part["out"]
               b == Raw("mark", dollar, 0)
    <3>1. /\ a \in Piped /\ b \in Piped /\ a.what # "mark" /\ b.run = run'
          /\ "out" \in Streams /\ "err" \in Streams
      BY <1>1, <2>3, KindsGrow, RawTypes
      DEF TypeOK, Streams, Framing, Raw, Begun, LinesOf
    <3>2. Into("out", <<a, b>>) /\ NoMark("out") /\ UNCHANGED sink
      BY <1>1, <2>1, <2>2 DEF NoMarks
    <3> HIDE DEF a, b
    <3> QED
      BY <3>1, <3>2, PrintMarks
  <2>5. NoMark("err")'
    BY <1>1, <2>2, <2>4 DEF NoMarks, NoMark, Marks
  <2>6. MarkInv'
    BY <2>4, <2>5 DEF MarkInv, OneMark, NoMark, AtMostOne
  <2>7. InputInv'
    BY <1>1, <1>2, <2>1, <2>2, <2>5 DEF CalmInv, InputInv
  <2> QED
    BY <1>1, <2>1, <2>2, <2>6, <2>7 DEF CalmInv, QuietInv
<1>6. CASE ShellPrintsErr
  <2>1. /\ Head(stdin).what = "err" /\ UNCHANGED <<shell, job>>
        /\ \/ Into("err", <<Raw("mark", 0, 0)>>)
           \/ /\ part["err"] # NoLine
              /\ Into("err", <<[part["err"] EXCEPT !.what = "glued"]>>)
    BY <1>6 DEF ShellPrintsErr
  <2>2. /\ ~Has("trap")' /\ ~Has("cmd")' /\ ~Has("out")' /\ ~Has("err")'
        /\ wpc # "idle" /\ NoMark("err")
    BY <1>2, <2>1 DEF Rank, CalmInv, InputInv
  <2>3. OneMark("err")' /\ pipe'["out"] = pipe["out"]
    <3>1. /\ Raw("mark", 0, 0) \in Piped /\ Framing \in Piped /\ Framing.what # "mark"
          /\ part["err"] # NoLine => [part["err"] EXCEPT !.what = "glued"] \in Piped
          /\ "out" \in Streams /\ "err" \in Streams
      BY KindsGrow, RawTypes DEF TypeOK, Streams, Framing, Raw
    <3>2. PICK b \in Piped : Into("err", <<b>>)
      BY <2>1, <3>1
    <3> QED
      BY <1>1, <2>2, <3>1, <3>2, PrintMarks
  <2>4. NoMark("out")' <=> NoMark("out")
    BY <1>1, <2>3 DEF NoMark, Marks
  <2>5. MarkInv'
    BY <1>1, <2>3 DEF CalmInv, MarkInv, OneMark, OwnMarks, AtMostOne, Marks
  <2>6. InputInv'
    BY <1>1, <1>2, <2>1, <2>2 DEF InputInv
  <2> QED
    BY <1>1, <2>1, <2>2, <2>4, <2>5, <2>6 DEF CalmInv, QuietInv
<1>7. CASE ShellExits
  <2>1. Head(stdin).what = "exit" /\ shell' = "dead" /\ UNCHANGED <<job, dollar, pipe>>
    BY <1>7 DEF ShellExits, ShellGone, ioVars
  <2>2. wpc # "idle"
    BY <1>1, <2>1 DEF Live
  <2>3. (Has("cmd")' <=> Has("cmd")) /\ (NoMarks' <=> NoMarks) /\ MarkInv'
        /\ (NoMark("err")' <=> NoMark("err")) /\ (NoMark("out")' <=> NoMark("out"))
    BY <1>1, <1>2, <2>1, SilentStep DEF CalmInv
  <2>4. InputInv'
    BY <1>1, <1>2, <2>1, <2>3 DEF CalmInv, InputInv
  <2> QED
    BY <1>1, <2>1, <2>2, <2>3, <2>4 DEF CalmInv, QuietInv
<1> QED
  BY <1>3, <1>4, <1>5, <1>6, <1>7 DEF ShellReads

LEMMA CommandCalm ==
  ASSUME TypeOK, CalmInv, NEW s \in Streams,
         CommandWrites(s) \/ CommandEndsLine(s) \/ BackgroundWrites(s)
  PROVE  CalmInv'
<1>1. UNCHANGED <<stdin, shell, job, dollar, wpc, run, sink>>
  BY DEF CommandWrites, CommandEndsLine, BackgroundWrites, shellVars, workerVars
<1>2. \/ pipe' = pipe
      \/ \E l \in Piped : l.what # "mark" /\ Into(s, <<l>>)
  <2>1. CASE CommandWrites(s)
    <3>1. PICK w \in {"text", "blank"} :
            \/ Into(s, <<Raw(w, job, lineno'[s])>>)
            \/ UNCHANGED pipe
      BY <2>1 DEF CommandWrites
    <3>2. lineno'[s] \in Nat
      BY CommandTypes DEF TypeOK
    <3>3. Raw(w, job, lineno'[s]) \in Piped /\ Raw(w, job, lineno'[s]).what # "mark"
      BY <3>2, RawTypes, KindsGrow DEF TypeOK, Raw
    <3> QED
      BY <3>1, <3>3
  <2>2. CASE CommandEndsLine(s)
    <3>1. part[s] \in Piped /\ part[s].what # "mark"
      BY <2>2, KindsGrow DEF CommandEndsLine, TypeOK, Begun, LinesOf
    <3> QED
      BY <2>2, <3>1 DEF CommandEndsLine
  <2>3. CASE BackgroundWrites(s)
    <3>1. late' \in Nat
      BY CommandTypes DEF TypeOK
    <3>2. Raw("text", 0, late') \in Piped /\ Raw("text", 0, late').what # "mark"
      BY <3>1, RawTypes, KindsGrow DEF Raw
    <3> QED
      BY <2>3, <3>2 DEF BackgroundWrites
  <2> QED
    BY <2>1, <2>2, <2>3
<1>3. Quiet("out") /\ Quiet("err")
  <2>1. CASE pipe' = pipe
    BY <1>1, <2>1, QuietSame DEF Streams
  <2>2. ASSUME NEW l \in Piped, l.what # "mark", Into(s, <<l>>) PROVE Quiet("out") /\ Quiet("err")
    <3>1. Marks(<<l>>) = {} /\ <<l>> \in Seq(Piped)
      BY <2>2, MarksOfOne
    <3> QED
      BY <1>1, <2>2, <3>1, QuietWrite
  <2> QED
    BY <1>2, <2>1, <2>2
<1> QED
  BY <1>1, <1>3, QuietStep

LEMMA OtherCalm ==
  ASSUME TypeOK, CalmInv, Live',
         \/ CommandReadsStdin \/ CommandEnds \/ CommandKillsShell \/ Signal \/ Close \/ Kill
         \/ HolderLetsGo
  PROVE  CalmInv'
<1>1. UNCHANGED <<sink, pipe, run, wpc, job>>
  BY DEF CommandReadsStdin, CommandEnds, CommandKillsShell, Signal, Close, Kill,
     HolderLetsGo, ShellGone, ioVars, workerVars
<1>2. /\ NoMark("out")' <=> NoMark("out")
      /\ NoMark("err")' <=> NoMark("err")
      /\ NoMarks' <=> NoMarks
      /\ MarkInv'
  BY <1>1, SilentStep DEF CalmInv
<1>3. CASE CommandReadsStdin
  <2>1. shell = "busy" /\ stdin # <<>> /\ stdin' = Tail(stdin) /\ UNCHANGED <<shell, dollar>>
    BY <1>3 DEF CommandReadsStdin
  <2>2. /\ \A w : Has(w)' => Has(w)
        /\ InOrder'
        /\ (\A i \in 1..Len(stdin) : stdin[i].what = "cmd" => stdin[i].run = run)'
    BY <1>1, <2>1, LineRead DEF CalmInv
  <2>3. wpc = "out" /\ job = run /\ NoMarks
    BY <2>1 DEF CalmInv, QuietInv
  <2>4. ~Has("cmd")
    BY <2>1 DEF CalmInv, InputInv
  <2>5. InputInv'
    BY <1>1, <1>2, <2>1, <2>2, <2>3, <2>4 DEF CalmInv, InputInv, NoMarks
  <2> QED
    BY <1>1, <1>2, <2>1, <2>5 DEF CalmInv, QuietInv
<1>4. CASE CommandEnds \/ CommandKillsShell \/ Signal \/ Kill \/ HolderLetsGo
  <2>1. /\ stdin' = stdin
        /\ \/ shell = "busy" /\ shell' = "ready" /\ dollar' = job
           \/ UNCHANGED <<shell, dollar>>
           \/ shell' = "dead" /\ dollar' = dollar
    BY <1>4 DEF CommandEnds, CommandKillsShell, Signal, Kill, HolderLetsGo, ShellGone
  <2>2. \A w : Has(w)' <=> Has(w)
    BY <2>1 DEF Has
  <2>3. InOrder' /\ (\A i \in 1..Len(stdin) : stdin[i].what = "cmd" => stdin[i].run = run)'
    BY <1>1, <2>1 DEF CalmInv, InputInv, InOrder
  <2>4. shell = "busy" => job = run
    BY DEF CalmInv, QuietInv
  <2>5. shell' = "dead" => wpc # "idle"
    BY <1>1 DEF Live
  <2>6. InputInv'
    BY <1>1, <1>2, <2>1, <2>2, <2>3, <2>4, <2>5 DEF CalmInv, InputInv
  <2> QED
    BY <1>1, <1>2, <2>1, <2>6 DEF CalmInv, QuietInv
<1>5. CASE Close
  <2>1. UNCHANGED <<shell, dollar>>
    BY <1>5 DEF Close
  <2>2. CASE stdin' = stdin
    <3>1. \A w : Has(w)' <=> Has(w)
      BY <2>2 DEF Has
    <3>2. InOrder' /\ (\A i \in 1..Len(stdin) : stdin[i].what = "cmd" => stdin[i].run = run)'
      BY <1>1, <2>2 DEF CalmInv, InputInv, InOrder
    <3> QED
      BY <1>1, <1>2, <2>1, <3>1, <3>2 DEF CalmInv, QuietInv, InputInv
  <2>3. CASE stdin' = Append(stdin, Item("exit", 0))
    <3>1. InOrder
      BY DEF CalmInv, InputInv
    <3>2. /\ \A w : Has(w)' <=> Has(w) \/ w = "exit"
          /\ InOrder'
          /\ \A i \in 1..Len(stdin') : stdin'[i].what = "cmd" =>
               i \in 1..Len(stdin) /\ stdin'[i] = stdin[i]
      BY <2>3, <3>1, ExitWritten
    <3> QED
      BY <1>1, <1>2, <2>1, <3>2 DEF CalmInv, QuietInv, InputInv
  <2> QED
    BY <1>5, <2>2, <2>3 DEF Close
<1> QED
  BY <1>3, <1>4, <1>5
-----------------------------------------------------------------------------
(* The other parts of the invariant. *)

LEMMA EofStays == TypeOK /\ EofInv /\ Next => EofInv'
<1> SUFFICES ASSUME TypeOK, EofInv, Next, shell' # "dead", NEW t \in Streams
             PROVE  sink'[t] \in Seq(Piped)
  BY DEF EofInv
<1>1. ASSUME UNCHANGED sink, shell # "dead" PROVE sink'[t] \in Seq(Piped)
  BY <1>1 DEF EofInv
<1>2. CASE Run
  BY <1>1, <1>2 DEF Run
<1>3. CASE CollectSentinel
  <2>1. shell # "dead"
    BY <1>3 DEF CollectSentinel, shellVars
  <2>2. PICK s \in Streams : sink[s] # <<>> /\ sink' = [sink EXCEPT ![s] = Tail(@)]
    BY <1>3 DEF CollectSentinel, Streams
  <2> QED
    BY <2>1, <2>2, HeadTailProperties DEF EofInv, TypeOK
<1>4. CASE ShellReads
  BY <1>1, <1>4 DEF ShellReads
<1>5. ASSUME NEW s \in Streams, CollectLine(s) \/ CollectEof(s) PROVE sink'[t] \in Seq(Piped)
  <2>1. shell # "dead" /\ sink[s] # <<>> /\ sink' = [sink EXCEPT ![s] = Tail(@)]
    BY <1>5 DEF CollectLine, CollectEof, shellVars
  <2> QED
    BY <2>1, HeadTailProperties DEF EofInv, TypeOK
<1>6. ASSUME NEW s \in Streams, Pump(s) PROVE sink'[t] \in Seq(Piped)
  <2>1. shell # "dead" /\ sink[s] \in Seq(Piped)
    BY <1>6 DEF Pump, shellVars, EofInv
  <2>2. <<Head(pipe[s])>> \in Seq(Piped)
    BY <1>6, HeadTailProperties DEF Pump, TypeOK
  <2>3. Held(s) \in Seq(Piped) /\ HeldText(s) \in Seq(Piped)
    BY KindsGrow DEF Held, HeldText, TypeOK
  <2>4. sink[s] \o Held(s) \in Seq(Piped) /\ sink[s] \o HeldText(s) \o <<Head(pipe[s])>> \in Seq(Piped)
    BY <2>1, <2>2, <2>3, ConcatProperties
  <2>5. \/ sink' = [sink EXCEPT ![s] = sink[s] \o Held(s)]
        \/ sink' = [sink EXCEPT ![s] = sink[s] \o HeldText(s) \o <<Head(pipe[s])>>]
    BY <1>6 DEF Pump
  <2>6. sink' \in [Streams -> Seq(Piped)] \/ sink'[t] = sink[t] \/ sink'[t] \in Seq(Piped)
    BY <2>4, <2>5 DEF TypeOK
  <2> QED
    BY <2>1, <2>6 DEF EofInv
<1>7. ASSUME NEW s \in Streams, PumpEnds(s) PROVE sink'[t] \in Seq(Piped)
  BY <1>7 DEF PumpEnds, shellVars
<1>8. ASSUME NEW s \in Streams, CommandWrites(s) \/ CommandEndsLine(s) \/ BackgroundWrites(s)
      PROVE  sink'[t] \in Seq(Piped)
  BY <1>1, <1>8 DEF CommandWrites, CommandEndsLine, BackgroundWrites, shellVars
<1>9. CASE CommandReadsStdin \/ CommandEnds \/ CommandKillsShell \/ Signal \/ Close \/ Kill
         \/ HolderLetsGo
  BY <1>1, <1>9
  DEF CommandReadsStdin, CommandEnds, CommandKillsShell, Signal, Close, Kill,
     HolderLetsGo, ShellGone
<1> QED
  BY <1>2, <1>3, <1>4, <1>5, <1>6, <1>7, <1>8, <1>9, Actions

LEMMA CalmStays == TypeOK /\ LiveInv /\ EofInv /\ Next => LiveInv'
<1> SUFFICES ASSUME TypeOK, LiveInv, EofInv, Next, Live' PROVE CalmInv'
  BY DEF LiveInv, CalmInv
<1>1. CalmInv
  BY LiveBefore DEF LiveInv, CalmInv
<1>2. ASSUME NEW s \in Streams, Pump(s) \/ PumpEnds(s) PROVE CalmInv'
  <2>1. Quiet("out") /\ Quiet("err")
    BY <1>2, QuietPump, QuietPumpEnds
  <2>2. UNCHANGED <<stdin, shell, job, dollar, wpc, run>>
    BY <1>2 DEF Pump, PumpEnds, shellVars, workerVars
  <2> QED
    BY <1>1, <2>1, <2>2, QuietStep
<1> QED
  BY <1>1, <1>2, Actions, RunCalm, SentinelCalm, ReadCalm, CollectCalm, CommandCalm, OtherCalm

LEMMA CodeStays == TypeOK /\ LiveInv /\ CodeInv /\ Next => CodeInv'
<1> SUFFICES ASSUME TypeOK, LiveInv, CodeInv, Next PROVE CodeInv'
  OBVIOUS
<1>1. CASE Run
  BY <1>1 DEF Run, TypeOK, CodeInv
<1>2. CASE CollectSentinel
  <2>1. run > 0 /\ UNCHANGED <<run, raises>>
    BY <1>2 DEF CollectSentinel, CodeInv
  <2>2. CASE wpc = "out"
    <3>1. wpc' = "err" /\ result' = result /\ code' = Head(sink["out"]).run
          /\ sink["out"] # <<>> /\ Head(sink["out"]).what = "mark"
      BY <1>2, <2>2 DEF CollectSentinel
    <3>2. raises = 0 => code' = run
      <4>1. 1 \in Marks(sink["out"]) /\ sink["out"][1] = Head(sink["out"])
        BY <3>1 DEF TypeOK, Marks, Streams
      <4> QED
        BY <2>2, <3>1, <4>1 DEF LiveInv, Live, MarkInv, OwnMarks
    <3> QED
      BY <2>1, <2>2, <3>1, <3>2 DEF CodeInv
  <2>3. CASE wpc = "err"
    BY <1>2, <2>1, <2>3 DEF CollectSentinel, CodeInv
  <2> QED
    BY <1>2, <2>2, <2>3 DEF CollectSentinel
<1>3. ASSUME NEW s \in Streams, CollectLine(s) \/ CollectEof(s) PROVE CodeInv'
  BY <1>3 DEF CollectLine, CollectEof, CodeInv, TypeOK, Streams
<1>4. CASE UNCHANGED workerVars
  BY <1>4 DEF workerVars, CodeInv
<1>5. ASSUME NEW s \in Streams,
             \/ Pump(s) \/ PumpEnds(s) \/ CommandWrites(s) \/ CommandEndsLine(s)
             \/ BackgroundWrites(s)
      PROVE  UNCHANGED workerVars
  BY <1>5 DEF Pump, PumpEnds, CommandWrites, CommandEndsLine, BackgroundWrites
<1>6. ASSUME \/ ShellReads \/ CommandReadsStdin \/ CommandEnds \/ CommandKillsShell
             \/ Signal \/ Close \/ Kill
         \/ HolderLetsGo
      PROVE  UNCHANGED workerVars
  BY <1>6 DEF ShellReads, CommandReadsStdin, CommandEnds, CommandKillsShell, Signal, Close, Kill,
     HolderLetsGo, ShellGone
<1> QED
  BY <1>1, <1>2, <1>3, <1>4, <1>5, <1>6, Actions

LEMMA ExitStays == TypeOK /\ ExitInv /\ Next => ExitInv'
<1> SUFFICES ASSUME TypeOK, ExitInv, Next, Has("exit")', ~closing' PROVE FALSE
  BY DEF ExitInv
<1>1. \/ UNCHANGED <<stdin, closing>>
      \/ stdin # <<>> /\ stdin' = Tail(stdin) /\ closing' = closing
      \/ stdin' = stdin \o Framed(run') /\ closing' = closing
  <2>1. CASE Run
    BY <2>1 DEF Run, otherVars
  <2>2. CASE CollectSentinel
    BY <2>2 DEF CollectSentinel, shellVars, otherVars
  <2>3. CASE ShellReads \/ CommandReadsStdin
    BY <2>3 DEF ShellReads, CommandReadsStdin, otherVars
  <2>4. ASSUME NEW s \in Streams,
               \/ CollectLine(s) \/ CollectEof(s) \/ Pump(s) \/ PumpEnds(s)
               \/ CommandWrites(s) \/ CommandEndsLine(s) \/ BackgroundWrites(s)
        PROVE  UNCHANGED <<stdin, closing>>
    BY <2>4 DEF CollectLine, CollectEof, Pump, PumpEnds, CommandWrites, CommandEndsLine,
       BackgroundWrites, shellVars, otherVars
  <2>5. CASE CommandEnds \/ CommandKillsShell \/ Signal \/ Kill \/ HolderLetsGo
    BY <2>5 DEF CommandEnds, CommandKillsShell, Signal, Kill, HolderLetsGo, ShellGone, otherVars
  <2>6. CASE Close
    BY <2>6 DEF Close
  <2> QED
    BY <2>1, <2>2, <2>3, <2>4, <2>5, <2>6, Actions
<1>2. CASE UNCHANGED <<stdin, closing>>
  BY <1>2 DEF ExitInv, Has
<1>3. CASE stdin # <<>> /\ stdin' = Tail(stdin) /\ closing' = closing
  <2>1. PICK i \in 1..Len(stdin') : stdin'[i].what = "exit"
    BY DEF Has
  <2>2. i + 1 \in 1..Len(stdin) /\ stdin'[i] = stdin[i + 1]
    BY <1>3 DEF TypeOK
  <2> QED
    BY <1>3, <2>1, <2>2 DEF ExitInv, Has
<1>4. CASE stdin' = stdin \o Framed(run') /\ closing' = closing
  <2>1. /\ Len(Framed(run')) = 3
        /\ \A i \in 1..3 : Framed(run')[i].what # "exit"
    BY DEF Framed, Item
  <2>2. PICK i \in 1..Len(stdin') : stdin'[i].what = "exit"
    BY DEF Has
  <2>3. run' \in Nat
    BY TypesStay DEF TypeOK
  <2>4. Framed(run') \in Seq(Items)
    BY <2>3, ItemTypes DEF Framed
  <2>5. /\ Len(stdin) \in Nat /\ Len(stdin') = Len(stdin) + 3
        /\ \A j \in 1..Len(stdin) : stdin'[j] = stdin[j]
        /\ \A j \in 1..Len(stdin') : j > Len(stdin) => stdin'[j] = Framed(run')[j - Len(stdin)]
    <3> DEFINE f == Framed(run')
    <3>1. f \in Seq(Items) /\ Len(f) = 3 /\ stdin \in Seq(Items) /\ stdin' = stdin \o f
      BY <1>4, <2>1, <2>4 DEF TypeOK
    <3> HIDE DEF f
    <3>2. /\ Len(stdin) \in Nat /\ Len(stdin \o f) = Len(stdin) + Len(f)
          /\ \A j \in 1..Len(stdin) : (stdin \o f)[j] = stdin[j]
          /\ \A j \in 1..Len(stdin \o f) : j > Len(stdin) => (stdin \o f)[j] = f[j - Len(stdin)]
      BY <3>1, CatAt
    <3> QED
      BY <3>1, <3>2 DEF f
  <2>6. i \in 1..Len(stdin) \/ (i > Len(stdin) /\ i - Len(stdin) \in 1..3)
    BY <2>5
  <2> QED
    BY <1>4, <2>1, <2>2, <2>5, <2>6 DEF ExitInv, Has
<1> QED
  BY <1>1, <1>2, <1>3, <1>4
-----------------------------------------------------------------------------
(* Nothing is left behind. *)

Clean == late = 0 /\ raises = 0 /\ shell # "dead"

\* What makes a run unclean is never undone.
LEMMA CleanBefore == TypeOK /\ Next /\ Clean' => Clean
<1> SUFFICES ASSUME TypeOK, Next, Clean' PROVE Clean
  OBVIOUS
<1>1. raises \in Nat /\ late \in Nat
  BY DEF TypeOK
<1>2. CASE Run
  BY <1>2 DEF Run, Clean
<1>3. CASE CollectSentinel
  BY <1>3 DEF CollectSentinel, Clean, shellVars, ioVars
<1>4. CASE ShellReads
  BY <1>4 DEF ShellReads, Clean, workerVars, ShellTraps, ShellBegins, ShellPrintsOut,
     ShellPrintsErr, ShellExits, ioVars
<1>5. ASSUME NEW s \in Streams, CollectLine(s) \/ CollectEof(s) PROVE Clean
  BY <1>1, <1>5 DEF CollectLine, CollectEof, Clean, shellVars, ioVars
<1>6. ASSUME NEW s \in Streams, Pump(s) \/ PumpEnds(s) PROVE Clean
  BY <1>6 DEF Pump, PumpEnds, Clean, shellVars, workerVars
<1>7. ASSUME NEW s \in Streams, CommandWrites(s) \/ CommandEndsLine(s) \/ BackgroundWrites(s)
      PROVE  Clean
  BY <1>1, <1>7 DEF CommandWrites, CommandEndsLine, BackgroundWrites, Clean, shellVars, workerVars
<1>8. CASE CommandReadsStdin \/ CommandEnds \/ CommandKillsShell \/ Signal \/ Close \/ Kill
         \/ HolderLetsGo
  BY <1>8 DEF CommandReadsStdin, CommandEnds, CommandKillsShell, Signal, Close, Kill,
     HolderLetsGo, ShellGone, Clean,
     shellVars, workerVars, ioVars
<1> QED
  BY <1>2, <1>3, <1>4, <1>5, <1>6, <1>7, <1>8, Actions

\* The two streams and what the worker owes each.
TidyInv ==
  /\ Last("out") /\ Last("err")
  /\ wpc = "err" => Settled("out")
  /\ wpc = "idle" => Settled("out") /\ Settled("err")

LEMMA TidySame ==
  ASSUME TidyInv, UNCHANGED <<part, pipe, sink, pend, wpc>>
  PROVE  TidyInv'
BY DEF TidyInv, Last, Settled, Marks

LEMMA LastSame ==
  ASSUME NEW s \in Streams, UNCHANGED <<part[s], pipe[s], sink[s], pend[s]>>
  PROVE  (Last(s) => Last(s)') /\ (Settled(s) => Settled(s)')
BY DEF Last, Settled, Marks

LEMMA TailLen ==
  ASSUME NEW S, NEW q \in Seq(S), q # <<>>
  PROVE  /\ Len(Tail(q)) = Len(q) - 1 /\ Len(q) \in Nat /\ Len(Tail(q)) \in Nat
         /\ Len(q) = 1 => Tail(q) = <<>>
<1>1. /\ Tail(q) \in Seq(S) /\ Len(Tail(q)) = Len(q) - 1 /\ Len(q) \in Nat
      /\ Len(Tail(q)) \in Nat
  BY HeadTailProperties
<1>2. Len(q) = 1 => Len(Tail(q)) = 0
  BY <1>1
<1>3. Len(Tail(q)) = 0 => Tail(q) = <<>>
  BY <1>1, EmptySeq
<1> QED
  BY <1>1, <1>2, <1>3

LEMMA CollectTidy ==
  ASSUME TypeOK, TidyInv, Clean', EofInv, NEW s \in Streams, CollectLine(s) \/ CollectEof(s)
  PROVE  TidyInv'
<1>1. wpc = s /\ sink[s] # <<>> /\ sink' = [sink EXCEPT ![s] = Tail(@)]
      /\ UNCHANGED <<part, pipe, pend, shell>> /\ sink[s] \in Seq(Sunk)
  BY DEF CollectLine, CollectEof, ioVars, pumpVars, shellVars, TypeOK
<1>2. Head(sink[s]) \in Piped
  BY <1>1, HeadTailProperties DEF EofInv, Clean
<1>3. CollectLine(s)
  BY <1>2 DEF CollectEof, Piped, LinesOf
<1>4. wpc' = wpc
  BY <1>3 DEF CollectLine, Clean, TypeOK
<1>5. /\ sink'[s] = Tail(sink[s]) /\ \A t \in Streams : t # s => sink'[t] = sink[t]
  BY <1>1 DEF TypeOK
<1>6. /\ \A i \in Marks(Tail(sink[s])) : i + 1 \in Marks(sink[s])
      /\ Len(Tail(sink[s])) = Len(sink[s]) - 1 /\ Len(sink[s]) \in Nat
      /\ \A i \in Marks(Tail(sink[s])) : i \in Nat
  <2>1. \A i \in Marks(Tail(sink[s])) : i + 1 \in Marks(sink[s])
    BY <1>1, MarksOfTail
  <2> QED
    BY <1>1, <2>1 DEF Marks
<1>7. Last(s) => Last(s)'
  <2> SUFFICES ASSUME Last(s) PROVE Last(s)'
    OBVIOUS
  <2>1. ASSUME NEW i \in Marks(sink'[s])
        PROVE  i = Len(sink'[s]) /\ pend'[s] = NoLine /\ pipe'[s] = <<>> /\ part'[s] = NoLine
    <3>1. i + 1 \in Marks(sink[s]) /\ i \in Nat
      BY <1>5, <1>6, <2>1
    <3>2. i + 1 = Len(sink[s]) /\ pend[s] = NoLine /\ pipe[s] = <<>> /\ part[s] = NoLine
      BY <3>1 DEF Last
    <3>3. i = Len(sink'[s])
      BY <1>5, <1>6, <3>1, <3>2
    <3> QED
      BY <1>1, <3>2, <3>3
  <2>2. \A i \in Marks(pipe'[s]) : i = Len(pipe'[s]) /\ part'[s] = NoLine
    BY <1>1 DEF Last
  <2> QED
    BY <2>1, <2>2 DEF Last, Marks
<1>8. \A t \in Streams : t # s => (Last(t) => Last(t)') /\ (Settled(t) => Settled(t)')
  BY <1>1, <1>5, LastSame
<1>9. s = "out" \/ s = "err"
  BY DEF Streams
<1> QED
  BY <1>1, <1>4, <1>7, <1>8, <1>9 DEF TidyInv, Streams

LEMMA SentinelTidy == TypeOK /\ TidyInv /\ CollectSentinel => TidyInv'
<1> SUFFICES ASSUME TypeOK, TidyInv, CollectSentinel PROVE TidyInv'
  OBVIOUS
<1>1. UNCHANGED <<part, pipe, pend>> /\ "out" \in Streams /\ "err" \in Streams
  BY DEF CollectSentinel, ioVars, pumpVars, Streams
<1>2. ASSUME NEW s \in Streams, Last(s), sink[s] # <<>>, Head(sink[s]).what = "mark",
             sink' = [sink EXCEPT ![s] = Tail(@)]
      PROVE  /\ Settled(s)' /\ Last(s)'
             /\ \A t \in Streams : t # s => (Last(t) => Last(t)') /\ (Settled(t) => Settled(t)')
  <2>1. /\ sink[s] \in Seq(Sunk) /\ sink'[s] = Tail(sink[s])
        /\ \A t \in Streams : t # s => sink'[t] = sink[t]
    BY <1>2 DEF TypeOK
  <2>2. 1 \in Marks(sink[s])
    BY <1>2, <2>1, MarksOfTail
  <2>3. 1 = Len(sink[s]) /\ pend[s] = NoLine /\ pipe[s] = <<>> /\ part[s] = NoLine
    BY <1>2, <2>2 DEF Last
  <2>4. Tail(sink[s]) = <<>>
    BY <1>2, <2>1, <2>3, TailLen
  <2>5. Settled(s)'
    BY <1>1, <2>1, <2>3, <2>4 DEF Settled
  <2> QED
    <3>1. Last(s)'
      BY <2>5 DEF Settled, Last, Marks
    <3>2. \A t \in Streams : t # s => (Last(t) => Last(t)') /\ (Settled(t) => Settled(t)')
      BY <1>1, <2>1, LastSame
    <3> QED
      BY <2>5, <3>1, <3>2
<1>3. CASE wpc = "out"
  BY <1>1, <1>2, <1>3 DEF CollectSentinel, TidyInv
<1>4. CASE wpc = "err"
  BY <1>1, <1>2, <1>4 DEF CollectSentinel, TidyInv
<1> QED
  BY <1>3, <1>4 DEF CollectSentinel

LEMMA PumpTidy ==
  ASSUME TypeOK, TidyInv, NEW s \in Streams, Pump(s)
  PROVE  TidyInv'
<1>1. /\ pipe[s] # <<>> /\ pipe'[s] = Tail(pipe[s]) /\ UNCHANGED <<part, wpc>>
      /\ \A t \in Streams : t # s => pipe'[t] = pipe[t] /\ sink'[t] = sink[t] /\ pend'[t] = pend[t]
      /\ pipe[s] \in Seq(Sunk) /\ sink[s] \in Seq(Sunk) /\ Head(pipe[s]) \in Sunk
  BY KindsGrow, SeqMonotonic, HeadTailProperties DEF Pump, TypeOK, workerVars
<1>2. wpc # "idle" /\ (wpc = "err" => s # "out") /\ Last(s)
  BY <1>1 DEF TidyInv, Settled, Streams
<1>3. Marks(sink[s]) = {}
  BY <1>1, <1>2 DEF Last
<1> DEFINE rest == Tail(pipe[s])
<1>4. /\ \A i \in Marks(rest) : i + 1 \in Marks(pipe[s])
      /\ Head(pipe[s]).what = "mark" => 1 \in Marks(pipe[s])
  BY <1>1, MarksOfTail
<1>5. /\ Len(rest) = Len(pipe[s]) - 1 /\ Len(pipe[s]) \in Nat /\ \A i \in Marks(rest) : i \in Nat
      /\ Len(pipe[s]) = 1 => rest = <<>>
  BY <1>1, TailLen DEF Marks
<1>6. /\ Held(s) \in Seq(Sunk) /\ Marks(Held(s)) = {}
      /\ HeldText(s) \in Seq(Sunk) /\ Marks(HeldText(s)) = {}
  BY HeldTypes, MarksOfHeld
<1> HIDE DEF rest
<1>7. \A i \in Marks(rest) : i = Len(rest) /\ part'[s] = NoLine
  <2> SUFFICES ASSUME NEW i \in Marks(rest) PROVE i = Len(rest) /\ part'[s] = NoLine
    OBVIOUS
  <2>1. i + 1 = Len(pipe[s]) /\ part[s] = NoLine /\ i \in Nat
    BY <1>2, <1>4, <1>5 DEF Last
  <2> QED
    BY <1>1, <1>5, <2>1
<1>8. Last(s)'
  <2>1. CASE Head(pipe[s]).what # "mark"
    <3> DEFINE after == sink[s] \o Held(s)
    <3>1. sink'[s] = after
      BY <2>1 DEF Pump, TypeOK
    <3>2. Marks(after) = {}
      BY <1>1, <1>3, <1>6, CatUnmarked
    <3> HIDE DEF after
    <3> QED
      BY <1>1, <1>7, <3>1, <3>2 DEF Last, rest
  <2>2. CASE Head(pipe[s]).what = "mark"
    <3> DEFINE front == sink[s] \o HeldText(s)
               one == <<Head(pipe[s])>>
               after == front \o one
    <3>1. sink'[s] = after /\ pend'[s] = NoLine
      BY <2>2 DEF Pump, TypeOK
    <3>2. Marks(front) = {} /\ front \in Seq(Sunk)
      BY <1>1, <1>3, <1>6, CatUnmarked
    <3>3. one \in Seq(Sunk) /\ Len(one) = 1
      BY <1>1
    <3>4. 1 = Len(pipe[s]) /\ part[s] = NoLine
      BY <1>2, <1>4, <2>2 DEF Last
    <3> HIDE DEF front, one
    <3>5. ASSUME NEW i \in Marks(after) PROVE i = Len(after)
      <4>1. i \in Marks(front) \/ i - Len(front) \in Marks(one)
        BY <3>2, <3>3, MarksOfCat
      <4>2. i - Len(front) = 1 /\ i \in Nat
        BY <3>2, <3>3, <4>1 DEF Marks
      <4>3. Len(after) = Len(front) + Len(one) /\ Len(front) \in Nat
        BY <3>2, <3>3, CatAt
      <4> QED
        BY <3>3, <4>2, <4>3
    <3> HIDE DEF after
    <3>6. \A i \in Marks(sink'[s]) :
            i = Len(sink'[s]) /\ pend'[s] = NoLine /\ pipe'[s] = <<>> /\ part'[s] = NoLine
      BY <1>1, <1>5, <3>1, <3>4, <3>5 DEF rest
    <3> QED
      BY <1>1, <1>7, <3>6 DEF Last, rest, Marks
  <2> QED
    BY <2>1, <2>2
<1>9. \A t \in Streams : t # s => (Last(t) => Last(t)') /\ (Settled(t) => Settled(t)')
  BY <1>1, LastSame
<1>10. "out" \in Streams /\ "err" \in Streams /\ (s = "out" \/ s = "err")
  BY DEF Streams
<1> QED
  BY <1>1, <1>2, <1>8, <1>9, <1>10 DEF TidyInv

\* A sentinel, or what has swallowed it, is the last thing written to its stream.
LEMMA PrintTidy ==
  ASSUME TypeOK, NEW s \in Streams, NoMark(s), NEW r \in Seq(Piped), Into(s, r),
         \A i \in Marks(r) : i = Len(r),
         part' = [part EXCEPT ![s] = NoLine], UNCHANGED <<sink, pend>>
  PROVE  /\ Last(s)'
         /\ \A t \in Streams : t # s => (Last(t) => Last(t)') /\ (Settled(t) => Settled(t)')
<1>1. /\ pipe'[s] = pipe[s] \o r /\ part'[s] = NoLine /\ sink'[s] = sink[s]
      /\ \A t \in Streams : t # s => pipe'[t] = pipe[t] /\ part'[t] = part[t]
      /\ Marks(sink[s]) = {} /\ Marks(pipe[s]) = {}
  BY DEF Into, TypeOK, NoMark
<1>2. pipe[s] \in Seq(Sunk) /\ r \in Seq(Sunk)
  BY KindsGrow, SeqMonotonic DEF TypeOK
<1>3. ASSUME NEW i \in Marks(pipe[s] \o r) PROVE i = Len(pipe[s] \o r)
  <2>1. i - Len(pipe[s]) \in Marks(r)
    BY <1>1, <1>2, MarksOfCat
  <2>2. i - Len(pipe[s]) = Len(r) /\ i \in Nat
    BY <2>1 DEF Marks
  <2>3. Len(pipe[s] \o r) = Len(pipe[s]) + Len(r) /\ Len(pipe[s]) \in Nat
    BY <1>2, CatAt
  <2> QED
    BY <2>2, <2>3
<1>4. Last(s)'
  BY <1>1, <1>3 DEF Last, Marks
<1>5. \A t \in Streams : t # s => (Last(t) => Last(t)') /\ (Settled(t) => Settled(t)')
  BY <1>1, LastSame
<1> QED
  BY <1>4, <1>5

LEMMA ReadTidy == TypeOK /\ TidyInv /\ CalmInv /\ Clean' /\ ShellReads => TidyInv'
<1> SUFFICES ASSUME TypeOK, TidyInv, CalmInv, Clean', ShellReads PROVE TidyInv'
  OBVIOUS
<1>1. /\ UNCHANGED <<sink, pend, wpc>> /\ stdin # <<>>
      /\ "out" \in Streams /\ "err" \in Streams
  BY DEF ShellReads, workerVars, pumpVars, Streams
<1>2. Has(Head(stdin).what)
  <2>1. 1 \in 1..Len(stdin) /\ stdin[1] = Head(stdin)
    BY <1>1 DEF TypeOK
  <2> QED
    BY <2>1 DEF Has
<1>3. CASE ShellTraps \/ ShellBegins
  BY <1>1, <1>3, TidySame DEF ShellTraps, ShellBegins, ioVars
<1>4. CASE ShellPrintsOut
  <2> DEFINE a == IF part["out"] = NoLine THEN Framing ELSE part["out"]
             b == Raw("mark", dollar, 0)
  <2>1. /\ Into("out", <<a, b>>) /\ part' = [part EXCEPT !["out"] = NoLine]
        /\ wpc = "out" /\ NoMark("out")
    BY <1>2, <1>4 DEF ShellPrintsOut, CalmInv, InputInv, NoMarks
  <2>2. a \in Piped /\ b \in Piped /\ a.what # "mark"
    BY KindsGrow, RawTypes DEF TypeOK, Streams, Framing, Raw, Begun, LinesOf
  <2> HIDE DEF a, b
  <2>3. <<a, b>> \in Seq(Piped) /\ \A i \in Marks(<<a, b>>) : i = Len(<<a, b>>)
    BY <2>2 DEF Marks
  <2> QED
    BY <1>1, <2>1, <2>3, PrintTidy DEF TidyInv
<1>5. CASE ShellPrintsErr
  <2>1. PICK b : /\ Into("err", <<b>>) /\ b \in Piped
                 /\ part' = [part EXCEPT !["err"] = NoLine]
    <3>1. /\ Raw("mark", 0, 0) \in Piped
          /\ part["err"] # NoLine => [part["err"] EXCEPT !.what = "glued"] \in Piped
      BY <1>1, KindsGrow, RawTypes DEF TypeOK
    <3> QED
      BY <1>5, <3>1 DEF ShellPrintsErr
  <2>2. wpc # "idle" /\ NoMark("err")
    BY <1>2, <1>5 DEF ShellPrintsErr, CalmInv, InputInv
  <2>3. <<b>> \in Seq(Piped) /\ \A i \in Marks(<<b>>) : i = Len(<<b>>)
    BY <2>1 DEF Marks
  <2> QED
    BY <1>1, <2>1, <2>2, <2>3, PrintTidy DEF TidyInv
<1>6. CASE ShellExits
  BY <1>6 DEF ShellExits, ShellGone, Clean
<1> QED
  BY <1>3, <1>4, <1>5, <1>6 DEF ShellReads

LEMMA CommandTidy ==
  ASSUME TypeOK, TidyInv, CalmInv, Clean', NEW s \in Streams,
         CommandWrites(s) \/ CommandEndsLine(s) \/ BackgroundWrites(s)
  PROVE  TidyInv'
<1>1. shell = "busy"
  BY DEF CommandWrites, CommandEndsLine, BackgroundWrites, Clean, TypeOK
<1>2. wpc = "out" /\ shell' = shell /\ wpc' = wpc
  BY <1>1 DEF CalmInv, QuietInv, CommandWrites, CommandEndsLine, BackgroundWrites, shellVars,
     workerVars
<1>3. CalmInv'
  BY CommandCalm
<1>4. NoMarks'
  BY <1>1, <1>2, <1>3 DEF CalmInv, QuietInv
<1> QED
  BY <1>2, <1>4 DEF TidyInv, Last, NoMarks, NoMark, Marks

LEMMA CleanStays == TypeOK /\ LiveInv /\ EofInv /\ CleanInv /\ Next => CleanInv'
<1> SUFFICES ASSUME TypeOK, LiveInv, EofInv, CleanInv, Next, Clean' PROVE TidyInv'
  BY DEF CleanInv, Clean, TidyInv
<1>1. Clean /\ TidyInv /\ CalmInv
  BY CleanBefore DEF CleanInv, Clean, TidyInv, LiveInv, Live, CalmInv
<1>2. CASE Run
  <2>1. UNCHANGED <<part, pipe, sink, pend>> /\ wpc = "idle" /\ wpc' = "out"
    BY <1>1, <1>2 DEF Run, pumpVars, Clean
  <2>2. Settled("out") /\ Settled("err")
    BY <1>1, <2>1 DEF TidyInv
  <2> QED
    BY <2>1, <2>2 DEF TidyInv, Settled, Last, Marks
<1>3. ASSUME NEW s \in Streams, PumpEnds(s) PROVE FALSE
  BY <1>1, <1>3 DEF PumpEnds, Clean
<1>4. CASE CommandReadsStdin \/ CommandEnds \/ CommandKillsShell \/ Signal \/ Close \/ Kill
         \/ HolderLetsGo
  BY <1>1, <1>4, TidySame DEF CommandReadsStdin, CommandEnds, CommandKillsShell, Signal, Close, Kill,
     HolderLetsGo, ShellGone, ioVars, pumpVars, workerVars
<1> QED
  BY <1>1, <1>2, <1>3, <1>4, Actions, CollectTidy, SentinelTidy, PumpTidy, ReadTidy, CommandTidy
-----------------------------------------------------------------------------
(* What is kept of a sequence. *)

\* A set of numbers that has one has a least one ...
LEMMA LeastElement ==
  ASSUME NEW S \in SUBSET Nat, S # {}
  PROVE  \E m \in S : \A n \in S : m <= n
<1> DEFINE Below == {0..n : n \in S}
<1>1. Below \subseteq FiniteSubsetsOf(Nat) /\ Below # {}
  <2>1. \A n \in S : IsFiniteSet(0..n) /\ (0..n) \subseteq Nat
    BY FS_Interval
  <2> QED
    BY <2>1 DEF FiniteSubsetsOf
<1>2. IsWellFoundedOn(StrictSubsetOrdering(Nat), FiniteSubsetsOf(Nat))
  BY FS_StrictSubsetOrderingWellFounded
<1>3. \E b \in Below : \A c \in Below : ~(<<c, b>> \in StrictSubsetOrdering(Nat))
  <2> HIDE DEF Below
  <2> QED BY <1>1, <1>2, WFMin
<1>4. PICK m \in S : \A c \in Below : ~(<<c, 0..m>> \in StrictSubsetOrdering(Nat))
  BY <1>3
<1>5. ASSUME NEW n \in S, n < m PROVE FALSE
  <2>1. 0..n \in Below
    OBVIOUS
  <2>2. 0..n \subseteq 0..m /\ 0..n # 0..m
    BY <1>5
  <2>3. <<0..n, 0..m>> \in StrictSubsetOrdering(Nat)
    <3>1. (0..n) \in SUBSET Nat /\ (0..m) \in SUBSET Nat
      OBVIOUS
    <3> QED BY <2>2, <3>1 DEF StrictSubsetOrdering
  <2> QED BY <1>4, <2>1, <2>3
<1> QED BY <1>5

\* ... so what holds of 0 and goes on from each number to the next holds of all.
LEMMA CountingUp ==
  ASSUME NEW N \in Nat, NEW S, 0 \in S, \A n \in 1..N : n - 1 \in S => n \in S
  PROVE  \A n \in 0..N : n \in S
<1> DEFINE Rest == {n \in 0..N : n \notin S}
<1> SUFFICES ASSUME Rest # {} PROVE FALSE
  OBVIOUS
<1>1. Rest \in SUBSET Nat
  OBVIOUS
<1>2. PICK m \in Rest : \A n \in Rest : m <= n
  <2> HIDE DEF Rest
  <2> QED BY <1>1, LeastElement
<1>3. m \in 1..N /\ m - 1 \in 0..N /\ ~(m <= m - 1)
  BY <1>2
<1>4. m - 1 \in S
  BY <1>2, <1>3
<1> QED BY <1>2, <1>3, <1>4

Kept(q, S) == KeptOf(q, S)[Len(q)]

\* The recursion has a solution: one over the first n elements goes on to one more.
LEMMA KeptIsDefined ==
  ASSUME NEW q, NEW S, Len(q) \in Nat
  PROVE  KeptOf(q, S) =
           [i \in 0..Len(q) |->
              IF i = 0 THEN <<>>
              ELSE IF q[i] \in S THEN Append(KeptOf(q, S)[i - 1], q[i])
                                 ELSE KeptOf(q, S)[i - 1]]
<1> DEFINE Next1(f, i) == IF q[i] \in S THEN Append(f[i - 1], q[i]) ELSE f[i - 1]
           IsKept(f, n) == f = [i \in 0..n |-> IF i = 0 THEN <<>> ELSE Next1(f, i)]
           Defined == {n \in 0..Len(q) : \E f : IsKept(f, n)}
<1>1. 0 \in Defined
  <2>1. IsKept([i \in 0..0 |-> <<>>], 0)
    OBVIOUS
  <2> HIDE DEF IsKept
  <2> QED BY <2>1
<1>2. ASSUME NEW n \in 1..Len(q), n - 1 \in Defined
      PROVE  n \in Defined
  <2>1. PICK f : IsKept(f, n - 1)
    BY <1>2
  <2> DEFINE g == [i \in 0..n |-> IF i = n THEN Next1(f, n) ELSE f[i]]
  <2>2. \A i \in 0..n : g[i] = IF i = 0 THEN <<>> ELSE Next1(g, i)
    <3> SUFFICES ASSUME NEW i \in 0..n
                 PROVE  g[i] = IF i = 0 THEN <<>> ELSE Next1(g, i)
      OBVIOUS
    <3>1. CASE i = n
      <4>1. n # 0 /\ n - 1 \in 0..n /\ n - 1 # n
        OBVIOUS
      <4>2. g[n - 1] = f[n - 1] /\ g[n] = Next1(f, n)
        BY <4>1
      <4> HIDE DEF g
      <4> QED BY <3>1, <4>1, <4>2
    <3>2. CASE i # n
      <4>1. i \in 0..n - 1 /\ (i # 0 => i - 1 \in 0..n /\ i - 1 # n)
        BY <3>2
      <4>2. g[i] = f[i] /\ (i # 0 => g[i - 1] = f[i - 1])
        BY <3>2, <4>1
      <4>3. f[i] = IF i = 0 THEN <<>> ELSE Next1(f, i)
        <5> HIDE DEF Next1
        <5> QED BY <2>1, <4>1
      <4> HIDE DEF g
      <4> QED BY <4>2, <4>3
    <3> QED BY <3>1, <3>2
  <2>3. g = [i \in 0..n |-> g[i]]
    OBVIOUS
  <2> HIDE DEF g, Next1
  <2>4. IsKept(g, n)
    BY <2>2, <2>3
  <2> HIDE DEF IsKept
  <2> QED BY <2>4
<1>3. Len(q) \in Defined
  <2> HIDE DEF Defined
  <2>1. \A n \in 1..Len(q) : n - 1 \in Defined => n \in Defined
    BY <1>2
  <2>2. \A n \in 0..Len(q) : n \in Defined
    BY <1>1, <2>1, CountingUp
  <2> QED BY <2>2
<1>4. \E f : IsKept(f, Len(q))
  <2> HIDE DEF IsKept
  <2> QED BY <1>3
<1>5. KeptOf(q, S) = CHOOSE f : IsKept(f, Len(q))
  BY DEF KeptOf
<1> HIDE DEF IsKept
<1>6. IsKept(KeptOf(q, S), Len(q))
  BY <1>4, <1>5
<1> QED BY <1>6 DEF IsKept

\* Element by element.
LEMMA KeptStep ==
  ASSUME NEW q, NEW S, Len(q) \in Nat
  PROVE  /\ KeptOf(q, S)[0] = <<>>
         /\ \A i \in 1..Len(q) :
              KeptOf(q, S)[i] = IF q[i] \in S THEN Append(KeptOf(q, S)[i - 1], q[i])
                                ELSE KeptOf(q, S)[i - 1]
<1> DEFINE k == KeptOf(q, S)
<1>1. k = [i \in 0..Len(q) |->
             IF i = 0 THEN <<>>
             ELSE IF q[i] \in S THEN Append(k[i - 1], q[i]) ELSE k[i - 1]]
  BY KeptIsDefined
<1> HIDE DEF k
<1>2. k[0] = <<>>
  BY <1>1
<1>3. ASSUME NEW i \in 1..Len(q)
      PROVE  k[i] = IF q[i] \in S THEN Append(k[i - 1], q[i]) ELSE k[i - 1]
  <2>1. i \in 0..Len(q) /\ i # 0
    OBVIOUS
  <2> QED BY <1>1, <2>1
<1> QED BY <1>2, <1>3 DEF k

LEMMA KeptTypes ==
  ASSUME NEW T, NEW q \in Seq(T), NEW S
  PROVE  /\ \A n \in 0..Len(q) : KeptOf(q, S)[n] \in Seq(T)
         /\ Kept(q, S) \in Seq(T)
<1> DEFINE Typed == {n \in 0..Len(q) : KeptOf(q, S)[n] \in Seq(T)}
<1>1. Len(q) \in Nat /\ \A i \in 1..Len(q) : q[i] \in T
  OBVIOUS
<1>2. 0 \in Typed
  <2>1. KeptOf(q, S)[0] = <<>> /\ <<>> \in Seq(T)
    BY <1>1, KeptStep
  <2>2. KeptOf(q, S)[0] \in Seq(T) /\ 0 \in 0..Len(q)
    BY <1>1, <2>1
  <2> QED BY <2>2
<1>3. ASSUME NEW n \in 1..Len(q), n - 1 \in Typed
      PROVE  n \in Typed
  <2>1. q[n] \in T /\ KeptOf(q, S)[n - 1] \in Seq(T)
    BY <1>1, <1>3
  <2>2. Append(KeptOf(q, S)[n - 1], q[n]) \in Seq(T)
    BY <2>1, AppendProperties
  <2>3. KeptOf(q, S)[n] = IF q[n] \in S THEN Append(KeptOf(q, S)[n - 1], q[n])
                                        ELSE KeptOf(q, S)[n - 1]
    BY <1>1, KeptStep
  <2>4. KeptOf(q, S)[n] \in Seq(T) /\ n \in 0..Len(q)
    BY <2>1, <2>2, <2>3
  <2> QED BY <2>4
<1>4. \A n \in 0..Len(q) : n \in Typed
  <2> HIDE DEF Typed
  <2>1. \A n \in 1..Len(q) : n - 1 \in Typed => n \in Typed
    BY <1>3
  <2> QED BY <1>1, <1>2, <2>1, CountingUp
<1>5. Len(q) \in 0..Len(q)
  BY <1>1
<1> QED BY <1>4, <1>5 DEF Kept

\* What is kept of a beginning depends on nothing behind it.
LEMMA KeptOfFront ==
  ASSUME NEW T, NEW q \in Seq(T), NEW r \in Seq(T), NEW S,
         Len(q) <= Len(r), \A i \in 1..Len(q) : r[i] = q[i]
  PROVE  \A n \in 0..Len(q) : KeptOf(r, S)[n] = KeptOf(q, S)[n]
<1> DEFINE Same == {n \in 0..Len(q) : KeptOf(r, S)[n] = KeptOf(q, S)[n]}
<1>1. Len(q) \in Nat /\ Len(r) \in Nat
  OBVIOUS
<1>2. 0 \in Same
  BY <1>1, KeptStep
<1>3. ASSUME NEW n \in 1..Len(q), n - 1 \in Same
      PROVE  n \in Same
  <2>1. n \in 1..Len(r) /\ r[n] = q[n] /\ n \in 0..Len(q)
    BY <1>1
  <2>2. KeptOf(r, S)[n - 1] = KeptOf(q, S)[n - 1]
    BY <1>3
  <2>3. KeptOf(q, S)[n] = IF q[n] \in S THEN Append(KeptOf(q, S)[n - 1], q[n])
                                        ELSE KeptOf(q, S)[n - 1]
    BY <1>1, KeptStep
  <2>4. KeptOf(r, S)[n] = IF r[n] \in S THEN Append(KeptOf(r, S)[n - 1], r[n])
                                        ELSE KeptOf(r, S)[n - 1]
    BY <1>1, <2>1, KeptStep
  <2>5. KeptOf(r, S)[n] = KeptOf(q, S)[n]
    BY <2>1, <2>2, <2>3, <2>4
  <2> QED BY <2>1, <2>5
<1>4. \A n \in 0..Len(q) : n \in Same
  <2> HIDE DEF Same
  <2>1. \A n \in 1..Len(q) : n - 1 \in Same => n \in Same
    BY <1>3
  <2> QED BY <1>1, <1>2, <2>1, CountingUp
<1> QED BY <1>4

LEMMA KeptEmpty == ASSUME NEW S PROVE Kept(<<>>, S) = <<>>
<1>1. Len(<<>>) = 0 /\ Len(<<>>) \in Nat
  OBVIOUS
<1> QED BY <1>1, KeptStep DEF Kept

LEMMA KeptOne ==
  ASSUME NEW e, NEW S
  PROVE  Kept(<<e>>, S) = IF e \in S THEN <<e>> ELSE <<>>
<1>1. Len(<<e>>) = 1 /\ <<e>>[1] = e
  OBVIOUS
<1> DEFINE q == <<e>>
<1> HIDE DEF q
<1>2. Len(q) = 1 /\ q[1] = e /\ Len(q) \in Nat
  BY <1>1 DEF q
<1>3. KeptOf(q, S)[0] = <<>>
  BY <1>2, KeptStep
<1>4. KeptOf(q, S)[1] = IF e \in S THEN Append(KeptOf(q, S)[0], e) ELSE KeptOf(q, S)[0]
  <2>1. 1 \in 1..Len(q) /\ 1 - 1 = 0
    BY <1>2
  <2>2. KeptOf(q, S)[1] = IF q[1] \in S THEN Append(KeptOf(q, S)[1 - 1], q[1])
                                        ELSE KeptOf(q, S)[1 - 1]
    BY <1>2, <2>1, KeptStep
  <2> QED BY <1>2, <2>1, <2>2
<1>5. Append(<<>>, e) = <<e>>
  OBVIOUS
<1> QED BY <1>2, <1>3, <1>4, <1>5 DEF Kept, q

\* The algebra of sequences, with names of its own for what the provers would expand.
Cat(a, b) == a \o b
Snoc(a, e) == Append(a, e)

LEMMA CatTypes ==
  ASSUME NEW T, NEW a \in Seq(T), NEW b \in Seq(T)
  PROVE  Cat(a, b) \in Seq(T)
BY ConcatProperties DEF Cat

LEMMA CatOfEmpty ==
  ASSUME NEW T, NEW a \in Seq(T)
  PROVE  Cat(a, <<>>) = a /\ Cat(<<>>, a) = a
BY ConcatEmptySeq DEF Cat

LEMMA CatIsAssociative ==
  ASSUME NEW T, NEW a \in Seq(T), NEW b \in Seq(T), NEW c \in Seq(T)
  PROVE  Cat(Cat(a, b), c) = Cat(a, Cat(b, c))
BY ConcatAssociative DEF Cat

LEMMA SnocIsCat ==
  ASSUME NEW T, NEW a \in Seq(T), NEW e \in T
  PROVE  <<e>> \in Seq(T) /\ Snoc(a, e) = Cat(a, <<e>>)
<1>1. <<e>> \in Seq(T)
  OBVIOUS
<1>2. Append(a, e) = a \o <<e>>
  BY AppendIsConcat
<1> QED BY <1>1, <1>2 DEF Cat, Snoc

LEMMA SnocOfCat ==
  ASSUME NEW T, NEW a \in Seq(T), NEW b \in Seq(T), NEW e \in T
  PROVE  Snoc(Cat(a, b), e) = Cat(a, Snoc(b, e))
<1> DEFINE one == <<e>>
<1>1. one \in Seq(T) /\ Cat(a, b) \in Seq(T)
  BY CatTypes
<1>2. Snoc(Cat(a, b), e) = Cat(Cat(a, b), one) /\ Snoc(b, e) = Cat(b, one)
  BY <1>1, SnocIsCat
<1> HIDE DEF one
<1>3. Cat(Cat(a, b), one) = Cat(a, Cat(b, one))
  BY <1>1, CatIsAssociative
<1> QED BY <1>2, <1>3

\* What is kept of two sequences is what is kept of each.
LEMMA KeptOfCat ==
  ASSUME NEW T, NEW q \in Seq(T), NEW r \in Seq(T), NEW S
  PROVE  Kept(Cat(q, r), S) = Cat(Kept(q, S), Kept(r, S))
<1> DEFINE w == Cat(q, r)
<1>1. w \in Seq(T) /\ Len(w) = Len(q) + Len(r)
      /\ \A i \in 1..Len(q) + Len(r) : w[i] = IF i <= Len(q) THEN q[i] ELSE r[i - Len(q)]
  BY ConcatProperties DEF Cat
<1> HIDE DEF w
<1>2. Len(q) \in Nat /\ Len(r) \in Nat /\ Len(w) \in Nat
  OBVIOUS
<1> DEFINE a == Kept(q, S)
           Split == {n \in 0..Len(r) : KeptOf(w, S)[Len(q) + n] = Cat(a, KeptOf(r, S)[n])}
<1>3. a \in Seq(T) /\ \A n \in 0..Len(r) : KeptOf(r, S)[n] \in Seq(T)
  BY KeptTypes
<1>4. 0 \in Split
  <2>1. KeptOf(w, S)[Len(q)] = KeptOf(q, S)[Len(q)]
    <3>1. Len(q) <= Len(w) /\ (\A i \in 1..Len(q) : w[i] = q[i]) /\ Len(q) \in 0..Len(q)
      BY <1>1, <1>2
    <3> QED BY <1>1, <3>1, KeptOfFront
  <2>2. KeptOf(r, S)[0] = <<>>
    BY <1>2, KeptStep
  <2>3. Cat(a, <<>>) = a
    BY <1>3, CatOfEmpty
  <2>4. Len(q) + 0 = Len(q) /\ 0 \in 0..Len(r)
    BY <1>2
  <2> QED BY <2>1, <2>2, <2>3, <2>4 DEF Kept
<1>5. ASSUME NEW n \in 1..Len(r), n - 1 \in Split
      PROVE  n \in Split
  <2> DEFINE before == KeptOf(r, S)[n - 1]
             m == Len(q) + n
             k == KeptOf(w, S)
  <2>1. m \in 1..Len(w) /\ m - 1 = Len(q) + (n - 1) /\ w[m] = r[n]
        /\ n - 1 \in 0..Len(r) /\ n \in 0..Len(r)
    BY <1>1, <1>2
  <2>2. k[m - 1] = Cat(a, before)
    BY <1>5, <2>1
  <2>3. KeptOf(r, S)[n] = IF r[n] \in S THEN Snoc(before, r[n]) ELSE before
    BY <1>2, KeptStep DEF Snoc
  <2>4. \A i \in 1..Len(w) : k[i] = IF w[i] \in S THEN Snoc(k[i - 1], w[i]) ELSE k[i - 1]
    BY <1>2, KeptStep DEF Snoc
  <2>5. before \in Seq(T) /\ r[n] \in T
    BY <1>3, <2>1
  <2>6. Snoc(Cat(a, before), r[n]) = Cat(a, Snoc(before, r[n]))
    <3> HIDE DEF before, a
    <3> QED BY <1>3, <2>5, SnocOfCat
  <2>7. k[m] = Cat(a, KeptOf(r, S)[n])
    <3> HIDE DEF before, a, m, k
    <3> QED BY <2>1, <2>2, <2>3, <2>4, <2>6
  <2> QED BY <2>1, <2>7
<1>6. \A n \in 0..Len(r) : n \in Split
  <2> HIDE DEF Split
  <2>1. \A n \in 1..Len(r) : n - 1 \in Split => n \in Split
    BY <1>5
  <2> QED BY <1>2, <1>4, <2>1, CountingUp
<1>7. Len(r) \in 0..Len(r) /\ Len(r) \in Split
  BY <1>2, <1>6
<1> QED BY <1>1, <1>7 DEF Kept, w

\* Nothing is kept where nothing is in S.
LEMMA KeptNone ==
  ASSUME NEW T, NEW q \in Seq(T), NEW S, \A i \in 1..Len(q) : q[i] \notin S
  PROVE  Kept(q, S) = <<>>
<1> DEFINE None == {n \in 0..Len(q) : KeptOf(q, S)[n] = <<>>}
<1>1. Len(q) \in Nat
  OBVIOUS
<1>2. 0 \in None
  BY <1>1, KeptStep
<1>3. ASSUME NEW n \in 1..Len(q), n - 1 \in None
      PROVE  n \in None
  <2>1. KeptOf(q, S)[n] = KeptOf(q, S)[n - 1] /\ n \in 0..Len(q)
    BY <1>1, KeptStep
  <2> QED BY <1>3, <2>1
<1>4. \A n \in 0..Len(q) : n \in None
  <2> HIDE DEF None
  <2>1. \A n \in 1..Len(q) : n - 1 \in None => n \in None
    BY <1>3
  <2> QED BY <1>1, <1>2, <2>1, CountingUp
<1>5. Len(q) \in 0..Len(q)
  BY <1>1
<1> QED BY <1>4, <1>5 DEF Kept
-----------------------------------------------------------------------------
(* Each stream as one sequence. *)

\* Each stream as one sequence: what is on its way from the command to the handlers.
Few(l) == IF l = NoLine THEN <<>> ELSE <<l>>
AheadOf(k, d, p, l) == Cat(k, Cat(Few(d), Cat(p, Few(l))))
Late(q) == \A i \in 1..Len(q) : q[i].run = 0
AfterMark(q) == \A i \in Marks(q) : \A j \in 1..Len(q) : j > i => q[j].run = 0
Front(q, S) == \A i \in Marks(q) : i > 1 => ~(q[i - 1].what = "blank" /\ q[i - 1] \in S)

\* A sequence in two parts.
LEMMA CatParts ==
  ASSUME NEW a \in Seq(Sunk), NEW b \in Seq(Sunk)
  PROVE  /\ Len(a) \in Nat /\ Len(b) \in Nat
         /\ Len(Cat(a, b)) = Len(a) + Len(b)
         /\ \A i \in 1..Len(a) : Cat(a, b)[i] = a[i]
         /\ \A i \in 1..Len(b) : Cat(a, b)[Len(a) + i] = b[i]
         /\ \A i \in 1..Len(a) + Len(b) : i > Len(a) => i - Len(a) \in 1..Len(b)
BY DEF Cat

LEMMA LateOfCat ==
  ASSUME NEW a \in Seq(Sunk), NEW b \in Seq(Sunk)
  PROVE  Late(Cat(a, b)) <=> Late(a) /\ Late(b)
<1> DEFINE w == Cat(a, b)
<1>1. /\ Len(a) \in Nat /\ Len(b) \in Nat /\ Len(w) = Len(a) + Len(b)
      /\ \A i \in 1..Len(a) : w[i] = a[i]
      /\ \A i \in 1..Len(b) : w[Len(a) + i] = b[i]
      /\ \A i \in 1..Len(a) + Len(b) : i > Len(a) => i - Len(a) \in 1..Len(b)
  BY CatParts
<1> HIDE DEF w
<1>2. ASSUME Late(w) PROVE Late(a) /\ Late(b)
  <2>1. ASSUME NEW i \in 1..Len(b) PROVE b[i].run = 0
    <3>1. Len(a) + i \in 1..Len(w)
      BY <1>1
    <3> QED BY <1>1, <1>2, <3>1 DEF Late
  <2>2. \A i \in 1..Len(a) : i \in 1..Len(w)
    BY <1>1
  <2> QED BY <1>1, <1>2, <2>1, <2>2 DEF Late
<1>3. ASSUME Late(a), Late(b), NEW i \in 1..Len(w) PROVE w[i].run = 0
  <2>1. CASE i <= Len(a)
    BY <1>1, <1>3, <2>1 DEF Late
  <2>2. CASE i > Len(a)
    <3>1. i - Len(a) \in 1..Len(b) /\ Len(a) + (i - Len(a)) = i
      BY <1>1, <2>2
    <3>2. w[Len(a) + (i - Len(a))] = b[i - Len(a)]
      BY <1>1, <3>1
    <3> QED BY <1>3, <3>1, <3>2 DEF Late
  <2> QED BY <1>1, <2>1, <2>2
<1> QED BY <1>2, <1>3 DEF Late, w

LEMMA MarksInCat ==
  ASSUME NEW a \in Seq(Sunk), NEW b \in Seq(Sunk)
  PROVE  /\ \A i \in Marks(a) : i \in Marks(Cat(a, b))
         /\ \A i \in Marks(b) : Len(a) + i \in Marks(Cat(a, b))
         /\ \A i \in Marks(Cat(a, b)) : i \in Marks(a) \/ (i > Len(a) /\ i - Len(a) \in Marks(b))
         /\ Marks(Cat(a, b)) = {} <=> Marks(a) = {} /\ Marks(b) = {}
<1> DEFINE w == Cat(a, b)
<1>1. /\ Len(a) \in Nat /\ Len(b) \in Nat /\ Len(w) = Len(a) + Len(b)
      /\ \A i \in 1..Len(a) : w[i] = a[i]
      /\ \A i \in 1..Len(b) : w[Len(a) + i] = b[i]
      /\ \A i \in 1..Len(a) + Len(b) : i > Len(a) => i - Len(a) \in 1..Len(b)
  BY CatParts
<1> HIDE DEF w
<1>2. ASSUME NEW i \in Marks(a) PROVE i \in Marks(w)
  BY <1>1 DEF Marks
<1>3. ASSUME NEW i \in Marks(b) PROVE Len(a) + i \in Marks(w)
  <2>1. i \in 1..Len(b) /\ Len(a) + i \in 1..Len(w)
    BY <1>1 DEF Marks
  <2> QED BY <1>1, <2>1 DEF Marks
<1>4. ASSUME NEW i \in Marks(w) PROVE i \in Marks(a) \/ (i > Len(a) /\ i - Len(a) \in Marks(b))
  <2>1. i \in 1..Len(w) /\ w[i].what = "mark"
    BY DEF Marks
  <2>2. CASE i <= Len(a)
    <3>1. i \in 1..Len(a)
      BY <1>1, <2>1, <2>2
    <3> QED BY <1>1, <2>1, <3>1 DEF Marks
  <2>3. CASE i > Len(a)
    <3>1. i - Len(a) \in 1..Len(b) /\ Len(a) + (i - Len(a)) = i
      BY <1>1, <2>1, <2>3
    <3>2. w[Len(a) + (i - Len(a))] = b[i - Len(a)]
      BY <1>1, <3>1
    <3> QED BY <2>1, <2>3, <3>1, <3>2 DEF Marks
  <2> QED BY <1>1, <2>1, <2>2, <2>3
<1> QED BY <1>2, <1>3, <1>4 DEF w

LEMMA AfterOfCat ==
  ASSUME NEW a \in Seq(Sunk), NEW b \in Seq(Sunk)
  PROVE  AfterMark(Cat(a, b)) <=> AfterMark(a) /\ AfterMark(b) /\ (Marks(a) = {} \/ Late(b))
<1> DEFINE w == Cat(a, b)
<1>1. /\ Len(a) \in Nat /\ Len(b) \in Nat /\ Len(w) = Len(a) + Len(b)
      /\ \A i \in 1..Len(a) : w[i] = a[i]
      /\ \A i \in 1..Len(b) : w[Len(a) + i] = b[i]
      /\ \A i \in 1..Len(a) + Len(b) : i > Len(a) => i - Len(a) \in 1..Len(b)
  BY CatParts
<1>2. /\ \A i \in Marks(a) : i \in Marks(w)
      /\ \A i \in Marks(b) : Len(a) + i \in Marks(w)
      /\ \A i \in Marks(w) : i \in Marks(a) \/ (i > Len(a) /\ i - Len(a) \in Marks(b))
  BY MarksInCat
<1> HIDE DEF w
<1>3. /\ \A i \in Marks(a) : i \in 1..Len(a)
      /\ \A i \in Marks(b) : i \in 1..Len(b)
      /\ \A i \in Marks(w) : i \in 1..Len(w)
  BY DEF Marks
<1>4. ASSUME AfterMark(w) PROVE AfterMark(a) /\ AfterMark(b) /\ (Marks(a) = {} \/ Late(b))
  <2>1. ASSUME NEW i \in Marks(a), NEW j \in 1..Len(a), j > i PROVE a[j].run = 0
    <3>1. j \in 1..Len(w) /\ i \in Marks(w)
      BY <1>1, <1>2
    <3> QED BY <1>1, <1>4, <2>1, <3>1 DEF AfterMark
  <2>2. ASSUME NEW i \in Marks(b), NEW j \in 1..Len(b), j > i PROVE b[j].run = 0
    <3>1. Len(a) + j \in 1..Len(w) /\ Len(a) + i \in Marks(w) /\ Len(a) + j > Len(a) + i
      BY <1>1, <1>2, <1>3, <2>2
    <3> QED BY <1>1, <1>4, <3>1 DEF AfterMark
  <2>3. ASSUME NEW i \in Marks(a), NEW j \in 1..Len(b) PROVE b[j].run = 0
    <3>1. Len(a) + j \in 1..Len(w) /\ i \in Marks(w) /\ Len(a) + j > i
      BY <1>1, <1>2, <1>3
    <3> QED BY <1>1, <1>4, <3>1 DEF AfterMark
  <2> QED BY <2>1, <2>2, <2>3 DEF AfterMark, Late
<1>5. ASSUME AfterMark(a), AfterMark(b), Marks(a) = {} \/ Late(b),
             NEW i \in Marks(w), NEW j \in 1..Len(w), j > i
      PROVE  w[j].run = 0
  <2>1. CASE j <= Len(a)
    <3>1. j \in 1..Len(a) /\ i \in Marks(a)
      BY <1>1, <1>2, <1>3, <1>5, <2>1
    <3> QED BY <1>1, <1>5, <3>1 DEF AfterMark
  <2>2. CASE j > Len(a)
    <3>1. j - Len(a) \in 1..Len(b) /\ Len(a) + (j - Len(a)) = j
      BY <1>1, <2>2
    <3>2. w[Len(a) + (j - Len(a))] = b[j - Len(a)]
      BY <1>1, <3>1
    <3>3. CASE i \in Marks(a)
      BY <1>5, <3>1, <3>2, <3>3 DEF Late
    <3>4. CASE i > Len(a) /\ i - Len(a) \in Marks(b)
      <4>1. j - Len(a) > i - Len(a)
        BY <1>1, <1>3, <1>5
      <4> QED BY <1>5, <3>1, <3>2, <3>4, <4>1 DEF AfterMark
    <3> QED BY <1>2, <3>3, <3>4
  <2> QED BY <1>1, <2>1, <2>2
<1> QED BY <1>4, <1>5 DEF AfterMark, w

\* What is in front of the sentinels: of the second part, of a part added.
LEMMA FrontOfCat ==
  ASSUME NEW a \in Seq(Sunk), NEW b \in Seq(Sunk), NEW S
  PROVE  /\ Front(Cat(a, b), S) => Front(b, S)
         /\ Front(a, S) /\ Marks(b) = {} => Front(Cat(a, b), S)
         /\ Marks(a) = {} /\ Front(b, S) /\ 1 \notin Marks(b) => Front(Cat(a, b), S)
<1> DEFINE w == Cat(a, b)
<1>1. /\ Len(a) \in Nat /\ Len(b) \in Nat /\ Len(w) = Len(a) + Len(b)
      /\ \A i \in 1..Len(a) : w[i] = a[i]
      /\ \A i \in 1..Len(b) : w[Len(a) + i] = b[i]
      /\ \A i \in 1..Len(a) + Len(b) : i > Len(a) => i - Len(a) \in 1..Len(b)
  BY CatParts
<1>2. /\ \A i \in Marks(a) : i \in Marks(w)
      /\ \A i \in Marks(b) : Len(a) + i \in Marks(w)
      /\ \A i \in Marks(w) : i \in Marks(a) \/ (i > Len(a) /\ i - Len(a) \in Marks(b))
  BY MarksInCat
<1> HIDE DEF w
<1>3. /\ \A i \in Marks(a) : i \in 1..Len(a)
      /\ \A i \in Marks(b) : i \in 1..Len(b)
      /\ \A i \in Marks(w) : i \in 1..Len(w)
  BY DEF Marks
<1> DEFINE Own1(l) == l.what = "blank" /\ l \in S
<1>4. ASSUME Front(w, S), NEW i \in Marks(b), i > 1 PROVE ~Own1(b[i - 1])
  <2>1. /\ i - 1 \in 1..Len(b) /\ Len(a) + i \in Marks(w) /\ Len(a) + i > 1
        /\ (Len(a) + i) - 1 = Len(a) + (i - 1)
    BY <1>1, <1>2, <1>3, <1>4
  <2>2. ~Own1(w[(Len(a) + i) - 1])
    BY <1>4, <2>1 DEF Front
  <2>3. w[Len(a) + (i - 1)] = b[i - 1]
    BY <1>1, <2>1
  <2> QED BY <2>1, <2>2, <2>3
<1>5. ASSUME Front(a, S), Marks(b) = {}, NEW i \in Marks(w), i > 1 PROVE ~Own1(w[i - 1])
  <2>1. i \in Marks(a) /\ i - 1 \in 1..Len(a)
    BY <1>1, <1>2, <1>3, <1>5
  <2> QED BY <1>1, <1>5, <2>1 DEF Front
<1>6. ASSUME Marks(a) = {}, Front(b, S), 1 \notin Marks(b), NEW i \in Marks(w), i > 1
      PROVE  ~Own1(w[i - 1])
  <2> DEFINE j == i - Len(a)
  <2>1. i \in 1..Len(w) /\ j \in Marks(b) /\ j \in 1..Len(b) /\ j # 1
    BY <1>2, <1>3, <1>6
  <2>2. j > 1 /\ j - 1 \in 1..Len(b) /\ Len(a) + (j - 1) = i - 1
    BY <1>1, <2>1
  <2>3. w[Len(a) + (j - 1)] = b[j - 1]
    BY <1>1, <2>2
  <2> HIDE DEF j
  <2>4. ~Own1(b[j - 1])
    BY <1>6, <2>1, <2>2 DEF Front
  <2> QED BY <2>2, <2>3, <2>4
<1> QED BY <1>4, <1>5, <1>6 DEF Front, w

LEMMA FewTypes ==
  ASSUME NEW l \in Ended \cup {NoLine}
  PROVE  Few(l) \in Seq(Sunk) /\ Marks(Few(l)) = {}
<1>1. l # NoLine => l \in Sunk /\ l.what # "mark"
  BY KindsGrow DEF Ended, LinesOf
<1> QED
  BY <1>1, MarksOfOne DEF Few

LEMMA AheadTypes ==
  ASSUME NEW k \in Seq(Sunk), NEW d \in Ended \cup {NoLine}, NEW p \in Seq(Sunk),
         NEW l \in Ended \cup {NoLine}
  PROVE  /\ AheadOf(k, d, p, l) \in Seq(Sunk) /\ Cat(Few(d), p) \in Seq(Sunk)
         /\ Few(d) \in Seq(Sunk) /\ Few(l) \in Seq(Sunk) /\ <<>> \in Seq(Sunk)
         /\ Marks(k) = {} /\ Marks(p) = {} =>
              Marks(AheadOf(k, d, p, l)) = {} /\ Marks(Cat(Few(d), p)) = {}
<1>1. /\ Few(d) \in Seq(Sunk) /\ Few(l) \in Seq(Sunk)
      /\ Marks(Few(d)) = {} /\ Marks(Few(l)) = {}
  BY FewTypes
<1>2. Cat(p, Few(l)) \in Seq(Sunk) /\ Cat(Few(d), p) \in Seq(Sunk)
  BY <1>1, CatTypes
<1>3. Cat(Few(d), Cat(p, Few(l))) \in Seq(Sunk)
  BY <1>1, <1>2, CatTypes
<1>4. AheadOf(k, d, p, l) \in Seq(Sunk)
  BY <1>3, CatTypes DEF AheadOf
<1>5. Marks(k) = {} /\ Marks(p) = {} => Marks(AheadOf(k, d, p, l)) = {} /\ Marks(Cat(Few(d), p)) = {}
  BY <1>1, <1>2, <1>3, MarksInCat DEF AheadOf
<1>6. <<>> \in Seq(Sunk)
  BY EmptySeq
<1> QED
  BY <1>1, <1>2, <1>4, <1>5, <1>6

\* A sequence by its first element.
LEMMA HeadCat ==
  ASSUME NEW q \in Seq(Sunk), q # <<>>
  PROVE  /\ Head(q) \in Sunk /\ Tail(q) \in Seq(Sunk) /\ <<Head(q)>> \in Seq(Sunk)
         /\ q = Cat(<<Head(q)>>, Tail(q))
<1>1. Head(q) \in Sunk /\ Tail(q) \in Seq(Sunk) /\ <<Head(q)>> \in Seq(Sunk)
  BY HeadTailProperties
<1>2. q = <<Head(q)>> \o Tail(q)
  OBVIOUS
<1> QED
  BY <1>1, <1>2 DEF Cat

\* What a step does to it: a line is taken from its front, ...
LEMMA TakenAhead ==
  ASSUME NEW k \in Seq(Sunk), NEW d \in Ended \cup {NoLine}, NEW p \in Seq(Sunk),
         NEW l \in Ended \cup {NoLine}, k # <<>>
  PROVE  /\ AheadOf(k, d, p, l) = Cat(<<Head(k)>>, AheadOf(Tail(k), d, p, l))
         /\ AheadOf(Tail(k), d, p, l) \in Seq(Sunk)
<1> DEFINE rest == Cat(Few(d), Cat(p, Few(l)))
           one == <<Head(k)>>
           t == Tail(k)
<1>1. /\ one \in Seq(Sunk) /\ t \in Seq(Sunk) /\ k = Cat(one, t)
  BY HeadCat
<1>2. rest \in Seq(Sunk)
  BY AheadTypes, CatTypes
<1> HIDE DEF rest, one, t
<1>3. Cat(Cat(one, t), rest) = Cat(one, Cat(t, rest))
  BY <1>1, <1>2, CatIsAssociative
<1>4. Cat(t, rest) \in Seq(Sunk)
  BY <1>1, <1>2, CatTypes
<1> QED
  BY <1>1, <1>3, <1>4 DEF AheadOf, rest, one, t

\* ... handed on by the pump, ...
LEMMA PumpedAhead ==
  ASSUME NEW k \in Seq(Sunk), NEW d \in Ended \cup {NoLine}, NEW p \in Seq(Sunk),
         NEW l \in Ended \cup {NoLine}, p # <<>>, Head(p) # NoLine
  PROVE  AheadOf(Cat(k, Few(d)), Head(p), Tail(p), l) = AheadOf(k, d, p, l)
<1> DEFINE one == <<Head(p)>>
           t == Tail(p)
           a == Few(d)
           b == Few(l)
<1>1. /\ one \in Seq(Sunk) /\ t \in Seq(Sunk) /\ p = Cat(one, t)
      /\ a \in Seq(Sunk) /\ b \in Seq(Sunk) /\ Few(Head(p)) = one
  BY HeadCat, AheadTypes DEF Few
<1> HIDE DEF one, t, a, b
<1>2. Cat(t, b) \in Seq(Sunk) /\ Cat(one, Cat(t, b)) \in Seq(Sunk)
  BY <1>1, CatTypes
<1>3. Cat(Cat(one, t), b) = Cat(one, Cat(t, b))
  BY <1>1, CatIsAssociative
<1>4. Cat(Cat(k, a), Cat(one, Cat(t, b))) = Cat(k, Cat(a, Cat(one, Cat(t, b))))
  BY <1>1, <1>2, CatIsAssociative
<1> QED
  BY <1>1, <1>3, <1>4 DEF AheadOf, one, t, a, b

\* ... followed by the sentinel, which may take the place of the line held back, ...
LEMMA MarkedAhead ==
  ASSUME NEW k \in Seq(Sunk), NEW x \in Seq(Sunk), NEW p \in Seq(Sunk),
         NEW l \in Ended \cup {NoLine}, p # <<>>
  PROVE  AheadOf(Cat(Cat(k, x), <<Head(p)>>), NoLine, Tail(p), l) =
           Cat(k, Cat(x, Cat(p, Few(l))))
<1> DEFINE one == <<Head(p)>>
           t == Tail(p)
           b == Few(l)
<1>1. /\ one \in Seq(Sunk) /\ t \in Seq(Sunk) /\ p = Cat(one, t)
      /\ b \in Seq(Sunk) /\ Few(NoLine) = <<>>
  BY HeadCat, FewTypes DEF Few
<1> HIDE DEF one, t, b
<1>2. Cat(t, b) \in Seq(Sunk) /\ Cat(one, Cat(t, b)) \in Seq(Sunk) /\ Cat(k, x) \in Seq(Sunk)
  BY <1>1, CatTypes
<1>3. Cat(<<>>, Cat(t, b)) = Cat(t, b)
  BY <1>2, CatOfEmpty
<1>4. Cat(Cat(Cat(k, x), one), Cat(t, b)) = Cat(Cat(k, x), Cat(one, Cat(t, b)))
  BY <1>1, <1>2, CatIsAssociative
<1>5. Cat(Cat(k, x), Cat(one, Cat(t, b))) = Cat(k, Cat(x, Cat(one, Cat(t, b))))
  BY <1>2, CatIsAssociative
<1>6. Cat(Cat(one, t), b) = Cat(one, Cat(t, b))
  BY <1>1, CatIsAssociative
<1> QED
  BY <1>1, <1>3, <1>4, <1>5, <1>6 DEF AheadOf, one, t, b

\* ... and end of file is, behind all of it.
LEMMA EndedAhead ==
  ASSUME NEW k \in Seq(Sunk), NEW d \in Ended \cup {NoLine}, NEW l \in Ended \cup {NoLine},
         NEW w \in Seq(Sunk)
  PROVE  AheadOf(Cat(Cat(Cat(k, Few(d)), Few(l)), w), NoLine, <<>>, NoLine) =
           Cat(AheadOf(k, d, <<>>, l), w)
<1> DEFINE a == Few(d)
           b == Few(l)
           none == <<>>
           z == Few(NoLine)
<1>1. a \in Seq(Sunk) /\ b \in Seq(Sunk) /\ z = none
  BY FewTypes DEF Few
<1>2. none \in Seq(Sunk) /\ \A q \in Seq(Sunk) : Cat(none, q) = q /\ Cat(q, none) = q
  BY EmptySeq, CatOfEmpty
<1> HIDE DEF a, b, none, z
<1>3. /\ Cat(a, b) \in Seq(Sunk) /\ Cat(k, a) \in Seq(Sunk) /\ Cat(k, Cat(a, b)) \in Seq(Sunk)
      /\ Cat(Cat(k, a), b) = Cat(k, Cat(a, b))
  BY <1>1, CatTypes, CatIsAssociative
<1>4. Cat(Cat(k, Cat(a, b)), w) \in Seq(Sunk)
  BY <1>3, CatTypes
<1>5. Cat(Cat(Cat(Cat(k, a), b), w), Cat(z, Cat(none, z))) = Cat(Cat(k, Cat(a, Cat(none, b))), w)
  BY <1>1, <1>2, <1>3, <1>4
<1> QED
  BY <1>5 DEF AheadOf, a, b, none, z
-----------------------------------------------------------------------------
(* What the handlers get is what the command wrote. *)

\* What of a stream run hands on, besides that the handlers may get more.
Lines(s) == IF s = "out" THEN OwnLines ELSE TextLines

Ahead(s) == AheadOf(sink[s], pend[s], pipe[s], part[s])
Coming(s) == Cat(Few(pend[s]), pipe[s])

\* The sentinel of stderr is still to come; what is collected up to its own.
Due == Has("err") \/ ~NoMark("err")
Wanted(s) == wpc # "idle" /\ (s = "out" \/ Due)
Collected(s) == wpc = "idle" \/ (wpc = "err" /\ s = "out")

\* What the handlers have and what is on its way to them is what the command wrote;
\* behind a sentinel, and behind one collected, there is nothing of a command; and
\* no line of the command is what a pump drops in front of the sentinel.
StreamInv(s) ==
  /\ Wanted(s) => Kept(Cat(got[s], Ahead(s)), Lines(s)) = Kept(wrote[s], Lines(s))
  /\ AfterMark(Ahead(s)) /\ Front(Coming(s), Lines(s))
  /\ Collected(s) => Late(Ahead(s))

FlowNow ==
  /\ StreamInv("out") /\ StreamInv("err")
  /\ Kept(wrote["out"], OwnLines) = wrote["out"]

FlowInv == Live => FlowNow

LEMMA StreamTypes ==
  ASSUME TypeOK, NEW s \in Streams
  PROVE  /\ got[s] \in Seq(Sunk) /\ wrote[s] \in Seq(Sunk) /\ sink[s] \in Seq(Sunk)
         /\ pipe[s] \in Seq(Sunk)
         /\ pend[s] \in Ended \cup {NoLine} /\ part[s] \in Ended \cup {NoLine}
         /\ Ahead(s) \in Seq(Sunk) /\ Coming(s) \in Seq(Sunk)
         /\ NoMark(s) => Marks(Ahead(s)) = {} /\ Marks(Coming(s)) = {}
<1>1. /\ got[s] \in Seq(Sunk) /\ wrote[s] \in Seq(Sunk) /\ sink[s] \in Seq(Sunk)
      /\ pipe[s] \in Seq(Sunk)
  BY KindsGrow, SeqMonotonic DEF TypeOK
<1>2. pend[s] \in Ended \cup {NoLine} /\ part[s] \in Ended \cup {NoLine}
  BY KindsGrow DEF TypeOK
<1> QED
  BY <1>1, <1>2, AheadTypes DEF Ahead, Coming, NoMark

LEMMA StreamSame ==
  ASSUME NEW s \in Streams, StreamInv(s),
         UNCHANGED <<sink[s], pend[s], pipe[s], part[s], got[s], wrote[s]>>,
         Wanted(s)' => Wanted(s), Collected(s)' => Collected(s)
  PROVE  StreamInv(s)'
BY DEF StreamInv, Ahead, Coming

\* What belongs to no run, a sentinel and the end of file are not kept.
LEMMA NotKept ==
  ASSUME NEW s \in Streams
  PROVE  /\ \A e : e.run = 0 \/ e.what \notin {"text", "blank", "glued"} => e \notin Lines(s)
         /\ \A e : e.what = "blank" => e \notin TextLines
         /\ \A q \in Seq(Sunk) : Late(q) => Kept(q, Lines(s)) = <<>>
<1>1. \A e : e.run = 0 \/ e.what \notin {"text", "blank", "glued"} => e \notin Lines(s)
  BY DEF Lines, OwnLines, TextLines
<1>2. \A e : e.what = "blank" => e \notin TextLines
  BY DEF TextLines
<1>3. ASSUME NEW q \in Seq(Sunk), Late(q) PROVE Kept(q, Lines(s)) = <<>>
  <2>1. \A i \in 1..Len(q) : q[i] \notin Lines(s)
    BY <1>1, <1>3 DEF Late
  <2> QED
    BY <2>1, KeptNone
<1> QED
  BY <1>1, <1>2, <1>3

LEMMA KeptTwice ==
  ASSUME NEW g \in Seq(Sunk), NEW a \in Seq(Sunk), NEW w \in Seq(Sunk), NEW S
  PROVE  /\ Kept(Cat(g, Cat(a, w)), S) = Cat(Kept(Cat(g, a), S), Kept(w, S))
         /\ Kept(a, S) \in Seq(Sunk)
         /\ Kept(w, S) = <<>> => Kept(Cat(g, Cat(a, w)), S) = Kept(Cat(g, a), S)
         /\ Kept(a, S) = <<>> => Kept(Cat(g, Cat(a, w)), S) = Kept(Cat(g, w), S)
<1> DEFINE kg == Kept(g, S)
           ka == Kept(a, S)
           kw == Kept(w, S)
<1>1. kg \in Seq(Sunk) /\ ka \in Seq(Sunk) /\ kw \in Seq(Sunk)
  BY KeptTypes
<1>2. Cat(a, w) \in Seq(Sunk) /\ Cat(g, a) \in Seq(Sunk)
  BY CatTypes
<1>3. /\ Kept(Cat(a, w), S) = Cat(ka, kw) /\ Kept(Cat(g, a), S) = Cat(kg, ka)
      /\ Kept(Cat(g, w), S) = Cat(kg, kw)
      /\ Kept(Cat(g, Cat(a, w)), S) = Cat(kg, Kept(Cat(a, w), S))
  BY <1>2, KeptOfCat
<1> HIDE DEF kg, ka, kw
<1>4. Cat(Cat(kg, ka), kw) = Cat(kg, Cat(ka, kw)) /\ Cat(kg, ka) \in Seq(Sunk)
  BY <1>1, CatIsAssociative, CatTypes
<1> DEFINE none == <<>>
<1>5. \A q \in Seq(Sunk) : Cat(q, none) = q /\ Cat(none, q) = q
  BY CatOfEmpty
<1> HIDE DEF none
<1>6. /\ kw = none => Cat(kg, Cat(ka, kw)) = Cat(kg, ka)
      /\ ka = none => Cat(kg, Cat(ka, kw)) = Cat(kg, kw)
  BY <1>1, <1>4, <1>5
<1> QED
  BY <1>1, <1>3, <1>4, <1>6 DEF none, ka, kw

\* A step that adds w at the end of a stream.
LEMMA StreamWritten ==
  ASSUME TypeOK, NEW s \in Streams, StreamInv(s), NEW w \in Seq(Sunk),
         Ahead(s)' = Cat(Ahead(s), w), got'[s] = got[s],
         Wanted(s)' => /\ Wanted(s)
                       /\ Kept(wrote'[s], Lines(s)) = Cat(Kept(wrote[s], Lines(s)), Kept(w, Lines(s))),
         Collected(s)' => Collected(s) /\ Late(w),
         AfterMark(w), Late(w) \/ NoMark(s), Front(Coming(s), Lines(s))'
  PROVE  StreamInv(s)'
<1>1. /\ got[s] \in Seq(Sunk) /\ Ahead(s) \in Seq(Sunk)
      /\ NoMark(s) => Marks(Ahead(s)) = {}
  BY StreamTypes
<1>2. Wanted(s)' => Kept(Cat(got'[s], Ahead(s)'), Lines(s)) = Kept(wrote'[s], Lines(s))
  BY <1>1, KeptTwice DEF StreamInv
<1>3. AfterMark(Ahead(s)')
  BY <1>1, AfterOfCat DEF StreamInv
<1>4. Collected(s)' => Late(Ahead(s)')
  BY <1>1, LateOfCat DEF StreamInv
<1> QED
  BY <1>2, <1>3, <1>4 DEF StreamInv, Lines

LEMMA WantedBefore ==
  ASSUME Quiet("err"), UNCHANGED wpc, Has("err")' => Has("err")
  PROVE  \A s \in Streams : (Wanted(s)' => Wanted(s)) /\ (Collected(s)' => Collected(s))
BY DEF Quiet, Wanted, Due, Collected

\* A run starts with nothing of an earlier one on its way.
LEMMA RunFlow ==
  ASSUME TypeOK, FlowNow, Live', Run
  PROVE  FlowNow'
<1>1. /\ wpc = "idle" /\ wpc' = "out" /\ UNCHANGED <<sink, pend, pipe, part>>
      /\ got' = [s \in Streams |-> <<>>] /\ wrote' = [s \in Streams |-> <<>>]
  BY DEF Run, Live, pumpVars
<1>2. ASSUME NEW s \in Streams, StreamInv(s) PROVE StreamInv(s)'
  <2>1. Late(Ahead(s)) /\ Ahead(s)' = Ahead(s) /\ Coming(s)' = Coming(s)
    BY <1>1, <1>2 DEF StreamInv, Collected, Ahead, Coming
  <2>2. Cat(got'[s], Ahead(s)) = Ahead(s) /\ wrote'[s] = <<>>
    <3> DEFINE none == <<>>
    <3>1. got'[s] = none /\ wrote'[s] = none
      BY <1>1
    <3>2. Cat(none, Ahead(s)) = Ahead(s)
      BY StreamTypes, CatOfEmpty
    <3> HIDE DEF none
    <3> QED
      BY <3>1, <3>2 DEF none
  <2>3. Kept(Ahead(s), Lines(s)) = <<>> /\ Kept(<<>>, Lines(s)) = <<>>
    BY <2>1, StreamTypes, NotKept, KeptEmpty
  <2>4. Kept(Cat(got'[s], Ahead(s)'), Lines(s)) = Kept(wrote'[s], Lines(s))
    BY <2>1, <2>2, <2>3
  <2> QED
    BY <1>2, <2>1, <2>4 DEF StreamInv, Lines
<1>3. "out" \in Streams /\ "err" \in Streams
  BY DEF Streams
<1>4. Kept(wrote'["out"], OwnLines) = wrote'["out"]
  BY <1>1, <1>3, KeptEmpty
<1> QED
  BY <1>2, <1>3, <1>4 DEF FlowNow

\* A line goes from the front of its stream to the handler.
LEMMA CollectFlow ==
  ASSUME TypeOK, FlowNow, Live', NEW s \in Streams, CollectLine(s)
  PROVE  FlowNow'
<1>1. /\ sink[s] # <<>> /\ sink' = [sink EXCEPT ![s] = Tail(sink[s])]
      /\ got' = [got EXCEPT ![s] = Snoc(got[s], Head(sink[s]))] /\ wpc' = wpc
      /\ UNCHANGED <<stdin, run, pend, pipe, part, wrote>>
  BY DEF CollectLine, Live, Snoc, TypeOK, ioVars, shellVars, pumpVars
<1>2. \A t \in Streams : (Wanted(t)' => Wanted(t)) /\ (Collected(t)' => Collected(t))
  <2>1. Quiet("err")
    BY <1>1, QuietCollect
  <2> QED
    BY <1>1, <2>1, WantedBefore DEF Has
<1>3. StreamInv(s) => StreamInv(s)'
  <2> SUFFICES ASSUME StreamInv(s) PROVE StreamInv(s)'
    OBVIOUS
  <2> DEFINE one == <<Head(sink[s])>>
             after == AheadOf(Tail(sink[s]), pend[s], pipe[s], part[s])
             g == got[s]
  <2>1. Ahead(s) = Cat(one, after) /\ after \in Seq(Sunk) /\ one \in Seq(Sunk) /\ g \in Seq(Sunk)
    <3>1. /\ sink[s] \in Seq(Sunk) /\ pipe[s] \in Seq(Sunk) /\ g \in Seq(Sunk)
          /\ pend[s] \in Ended \cup {NoLine} /\ part[s] \in Ended \cup {NoLine}
      BY StreamTypes
    <3>2. AheadOf(sink[s], pend[s], pipe[s], part[s]) = Cat(one, after) /\ after \in Seq(Sunk)
      BY <1>1, <3>1, TakenAhead
    <3>3. one \in Seq(Sunk)
      BY <1>1, <3>1, HeadCat
    <3> QED
      BY <3>1, <3>2, <3>3 DEF Ahead
  <2>2. Ahead(s)' = after /\ Coming(s)' = Coming(s)
    BY <1>1 DEF Ahead, Coming, TypeOK
  <2>3. got'[s] = Cat(g, one)
    <3>1. Head(sink[s]) \in Sunk
      BY <1>1, StreamTypes, HeadCat
    <3>2. Snoc(g, Head(sink[s])) = Cat(g, one)
      BY <2>1, <3>1, SnocIsCat
    <3>3. got'[s] = Snoc(g, Head(sink[s]))
      BY <1>1 DEF TypeOK
    <3> QED
      BY <3>2, <3>3
  <2> HIDE DEF one, after, g
  <2>4. Cat(Cat(g, one), after) = Cat(g, Cat(one, after))
    BY <2>1, CatIsAssociative
  <2>5. Wanted(s)' => Kept(Cat(got'[s], Ahead(s)'), Lines(s)) = Kept(wrote'[s], Lines(s))
    BY <1>1, <1>2, <2>1, <2>2, <2>3, <2>4 DEF StreamInv, g
  <2>6. AfterMark(after) /\ (Collected(s)' => Late(after))
    BY <1>2, <2>1, AfterOfCat, LateOfCat DEF StreamInv
  <2> QED
    BY <2>2, <2>5, <2>6 DEF StreamInv, Lines
<1>4. \A t \in Streams : t # s => (StreamInv(t) => StreamInv(t)')
  <2>1. \A t \in Streams : t # s => sink'[t] = sink[t] /\ got'[t] = got[t]
    BY <1>1 DEF TypeOK
  <2> QED
    BY <1>1, <1>2, <2>1, StreamSame
<1> QED
  BY <1>1, <1>3, <1>4 DEF FlowNow, Streams

\* The sentinel of a stream is taken: what is left of the stream is of no command.
LEMMA SentinelTakes ==
  ASSUME TypeOK, NEW s \in Streams, StreamInv(s), sink[s] # <<>>, Head(sink[s]).what = "mark",
         sink' = [sink EXCEPT ![s] = Tail(sink[s])],
         UNCHANGED <<pend[s], pipe[s], part[s], got[s], wrote[s]>>,
         Wanted(s)' => Wanted(s)
  PROVE  /\ StreamInv(s)' /\ Late(Ahead(s)')
         /\ Wanted(s) => Kept(got[s], Lines(s)) = Kept(wrote[s], Lines(s))
<1> DEFINE one == <<Head(sink[s])>>
           after == AheadOf(Tail(sink[s]), pend[s], pipe[s], part[s])
           g == got[s]
<1>1. Ahead(s) = Cat(one, after) /\ after \in Seq(Sunk) /\ one \in Seq(Sunk) /\ g \in Seq(Sunk)
  <2>1. /\ sink[s] \in Seq(Sunk) /\ pipe[s] \in Seq(Sunk) /\ g \in Seq(Sunk)
        /\ pend[s] \in Ended \cup {NoLine} /\ part[s] \in Ended \cup {NoLine}
    BY StreamTypes
  <2>2. AheadOf(sink[s], pend[s], pipe[s], part[s]) = Cat(one, after) /\ after \in Seq(Sunk)
    BY <2>1, TakenAhead
  <2>3. one \in Seq(Sunk)
    BY <2>1, HeadCat
  <2> QED
    BY <2>1, <2>2, <2>3 DEF Ahead
<1>2. Ahead(s)' = after /\ Coming(s)' = Coming(s)
  BY DEF Ahead, Coming, TypeOK
<1>3. Kept(one, Lines(s)) = <<>> /\ Marks(one) # {}
  <2>1. Head(sink[s]) \notin Lines(s)
    BY NotKept
  <2>2. 1 \in Marks(one)
    BY DEF Marks
  <2> QED
    BY <2>1, <2>2, KeptOne
<1> HIDE DEF one, after, g
<1>4. AfterMark(after) /\ Late(after)
  BY <1>1, <1>3, AfterOfCat DEF StreamInv
<1>5. Kept(Cat(g, Cat(one, after)), Lines(s)) = Kept(Cat(g, after), Lines(s))
  BY <1>1, <1>3, KeptTwice
<1>6. Kept(Cat(g, after), Lines(s)) = Kept(g, Lines(s))
  <2> DEFINE none == <<>>
  <2>1. none \in Seq(Sunk) /\ Cat(g, none) = g /\ Cat(after, none) = after
    BY <1>1, EmptySeq, CatOfEmpty
  <2>2. Kept(after, Lines(s)) = <<>>
    BY <1>1, <1>4, NotKept
  <2> HIDE DEF none
  <2>3. Kept(Cat(g, Cat(after, none)), Lines(s)) = Kept(Cat(g, none), Lines(s))
    BY <1>1, <2>1, <2>2, KeptTwice
  <2> QED
    BY <2>1, <2>3
<1>7. StreamInv(s)'
  <2>1. Wanted(s)' => Kept(Cat(got'[s], Ahead(s)'), Lines(s)) = Kept(wrote'[s], Lines(s))
    BY <1>1, <1>2, <1>5 DEF StreamInv, g
  <2> QED
    BY <1>2, <1>4, <2>1 DEF StreamInv, Lines
<1> QED
  BY <1>1, <1>2, <1>4, <1>5, <1>6, <1>7 DEF StreamInv, g

\* What OutputIsOwn says, of one stream.
Whole(s) == Kept(got[s], Lines(s)) = Kept(wrote[s], Lines(s))

LEMMA SentinelFlow ==
  ASSUME TypeOK, CalmInv, FlowNow, CollectSentinel
  PROVE  FlowNow' /\ (wpc = "err" => Whole("out") /\ Whole("err"))
<1>1. /\ UNCHANGED <<stdin, run, pend, pipe, part, got, wrote>>
      /\ "out" \in Streams /\ "err" \in Streams
  BY DEF CollectSentinel, ioVars, shellVars, pumpVars, Streams
<1>2. Kept(wrote'["out"], OwnLines) = wrote'["out"]
  BY <1>1 DEF FlowNow
<1>3. CASE wpc = "out"
  <2>1. /\ wpc' = "err" /\ sink["out"] # <<>> /\ Head(sink["out"]).what = "mark"
        /\ sink' = [sink EXCEPT !["out"] = Tail(sink["out"])]
    BY <1>3 DEF CollectSentinel
  <2>2. sink'["err"] = sink["err"]
    BY <2>1 DEF TypeOK
  <2>3. Wanted("out")' => Wanted("out")
    BY <1>3 DEF Wanted
  <2>4. StreamInv("out")'
    BY <1>1, <2>1, <2>3, SentinelTakes DEF FlowNow
  <2>5. StreamInv("err")'
    <3>1. (Wanted("err")' => Wanted("err")) /\ (Collected("err")' => Collected("err"))
      BY <1>1, <1>3, <2>1, <2>2 DEF Wanted, Due, Collected, Has, NoMark
    <3> QED
      BY <1>1, <2>2, <3>1, StreamSame DEF FlowNow
  <2> QED
    BY <1>2, <1>3, <2>4, <2>5 DEF FlowNow
<1>4. CASE wpc = "err"
  <2>1. /\ wpc' = "idle" /\ sink["err"] # <<>> /\ Head(sink["err"]).what = "mark"
        /\ sink' = [sink EXCEPT !["err"] = Tail(sink["err"])]
    BY <1>4 DEF CollectSentinel
  <2>2. sink'["out"] = sink["out"]
    BY <2>1 DEF TypeOK
  <2>3. Wanted("out") /\ Wanted("err") /\ ~Wanted("out")' /\ ~Wanted("err")'
    <3>1. 1 \in Marks(sink["err"])
      BY <1>1, <2>1, StreamTypes, MarksOfTail
    <3> QED
      BY <1>4, <2>1, <3>1 DEF Wanted, Due, NoMark
  <2>4. StreamInv("err")' /\ Whole("err")
    BY <1>1, <2>1, <2>3, SentinelTakes DEF FlowNow, Whole
  <2>5. StreamInv("out")'
    <3>1. Collected("out")' => Collected("out")
      BY <1>4 DEF Collected
    <3> QED
      BY <1>1, <2>2, <2>3, <3>1, StreamSame DEF FlowNow
  <2>6. Whole("out")
    <3> DEFINE none == <<>>
               g == got["out"]
               a == Ahead("out")
    <3>1. Late(a) /\ a \in Seq(Sunk) /\ g \in Seq(Sunk)
      BY <1>1, <1>4, StreamTypes DEF FlowNow, StreamInv, Collected
    <3>2. none \in Seq(Sunk) /\ Cat(g, none) = g /\ Cat(a, none) = a
      BY <3>1, EmptySeq, CatOfEmpty
    <3>3. Kept(a, Lines("out")) = <<>>
      BY <1>1, <3>1, NotKept
    <3>4. Kept(Cat(g, a), Lines("out")) = Kept(wrote["out"], Lines("out"))
      BY <2>3 DEF FlowNow, StreamInv
    <3> HIDE DEF none, g, a
    <3>5. Kept(Cat(g, Cat(a, none)), Lines("out")) = Kept(Cat(g, none), Lines("out"))
      BY <3>1, <3>2, <3>3, KeptTwice
    <3>6. Kept(g, Lines("out")) = Kept(wrote["out"], Lines("out"))
      BY <3>2, <3>4, <3>5
    <3> QED
      BY <3>6 DEF Whole, g
  <2> QED
    BY <1>2, <2>4, <2>5, <2>6 DEF FlowNow
<1> QED
  BY <1>3, <1>4 DEF CollectSentinel

\* A line that is not kept may be dropped.
LEMMA DroppedAhead ==
  ASSUME NEW g \in Seq(Sunk), NEW k \in Seq(Sunk), NEW d \in Seq(Sunk), NEW b \in Seq(Sunk),
         NEW S, Kept(d, S) = <<>>
  PROVE  /\ Kept(Cat(g, Cat(k, b)), S) = Kept(Cat(g, Cat(k, Cat(d, b))), S)
         /\ AfterMark(Cat(k, Cat(d, b))) => AfterMark(Cat(k, b))
         /\ Late(Cat(k, Cat(d, b))) => Late(Cat(k, b))
<1>1. Cat(d, b) \in Seq(Sunk) /\ Cat(k, b) \in Seq(Sunk)
  BY CatTypes
<1>2. Cat(k, Cat(d, b)) \in Seq(Sunk)
  BY <1>1, CatTypes
<1>3. Kept(Cat(k, Cat(d, b)), S) = Kept(Cat(k, b), S)
  BY KeptTwice
<1>4. /\ Kept(Cat(g, Cat(k, b)), S) = Cat(Kept(g, S), Kept(Cat(k, b), S))
      /\ Kept(Cat(g, Cat(k, Cat(d, b))), S) = Cat(Kept(g, S), Kept(Cat(k, Cat(d, b)), S))
  BY <1>1, <1>2, KeptOfCat
<1>5. AfterMark(Cat(k, Cat(d, b))) => AfterMark(Cat(k, b))
  BY <1>1, AfterOfCat, LateOfCat
<1>6. Late(Cat(k, Cat(d, b))) => Late(Cat(k, b))
  BY <1>1, LateOfCat
<1> QED
  BY <1>3, <1>4, <1>5, <1>6

\* The line in front of the sentinel, when it is the pump that drops it, is not kept.
LEMMA HeldFramesMark ==
  ASSUME TypeOK, NEW s \in Streams, Front(Coming(s), Lines(s)), pipe[s] # <<>>,
         Head(pipe[s]).what = "mark", pend[s] # NoLine, pend[s].what = "blank"
  PROVE  Kept(Few(pend[s]), Lines(s)) = <<>>
<1> DEFINE d == Few(pend[s])
           w == Cat(d, pipe[s])
<1>1. d \in Seq(Sunk) /\ pipe[s] \in Seq(Sunk)
  BY StreamTypes, FewTypes
<1>2. Len(d) = 1 /\ d[1] = pend[s]
  BY DEF Few
<1> HIDE DEF d
<1>3. 1 \in Marks(pipe[s])
  BY <1>1, MarksOfTail
<1>4. 2 \in Marks(w) /\ w[1] = pend[s]
  <2>1. Len(d) + 1 \in Marks(w)
    BY <1>1, <1>3, MarksInCat
  <2>2. \A i \in 1..Len(d) : w[i] = d[i]
    BY <1>1, CatParts
  <2>3. 1 \in 1..Len(d) /\ Len(d) + 1 = 2
    BY <1>2
  <2> QED
    BY <1>2, <2>1, <2>2, <2>3
<1>5. pend[s] \notin Lines(s)
  <2>1. w = Coming(s)
    BY DEF Coming, d
  <2> HIDE DEF w
  <2>2. 2 \in Marks(Coming(s)) /\ 2 > 1 /\ Coming(s)[2 - 1] = pend[s]
    BY <1>4, <2>1
  <2> QED
    BY <2>2 DEF Front
<1>6. d = <<pend[s]>>
  BY DEF d, Few
<1> QED
  BY <1>5, <1>6, KeptOne DEF d

LEMMA PumpFlow ==
  ASSUME TypeOK, CalmInv, FlowNow, NEW s \in Streams, Pump(s)
  PROVE  FlowNow'
<1>1. /\ pipe[s] # <<>> /\ pipe' = [pipe EXCEPT ![s] = Tail(pipe[s])]
      /\ UNCHANGED <<stdin, run, wpc, part, got, wrote>>
  BY DEF Pump, shellVars, workerVars
<1>2. \A t \in Streams : (Wanted(t)' => Wanted(t)) /\ (Collected(t)' => Collected(t))
  BY <1>1, QuietPump, WantedBefore DEF Has
<1> DEFINE k == sink[s]
           p == pipe[s]
           d == pend[s]
           l == part[s]
           g == got[s]
<1>3. /\ k \in Seq(Sunk) /\ p \in Seq(Sunk) /\ g \in Seq(Sunk)
      /\ d \in Ended \cup {NoLine} /\ l \in Ended \cup {NoLine}
      /\ Few(d) \in Seq(Sunk) /\ Few(l) \in Seq(Sunk)
  BY StreamTypes, FewTypes
<1>4. StreamInv(s) => StreamInv(s)'
  <2> SUFFICES ASSUME StreamInv(s) PROVE StreamInv(s)'
    OBVIOUS
  <2>1. CASE Head(p).what # "mark"
    <3>1. sink'[s] = Cat(k, Few(d)) /\ pend'[s] = Head(p) /\ pipe'[s] = Tail(p)
      BY <1>1, <2>1 DEF Pump, TypeOK, Cat, Held, Few
    <3>2. Head(p) # NoLine
      <4>1. Head(pipe[s]) \in Piped
        BY <1>1, HeadTailProperties DEF TypeOK
      <4> QED
        BY <2>1, <4>1, KindsGrow
    <3>3. Ahead(s)' = Ahead(s)
      <4>1. AheadOf(Cat(k, Few(d)), Head(p), Tail(p), l) = AheadOf(k, d, p, l)
        BY <1>1, <1>3, <3>2, PumpedAhead
      <4> QED
        BY <1>1, <3>1, <4>1 DEF Ahead
    <3>4. Front(Coming(s)', Lines(s))
      <4>1. Coming(s)' = p
        <5>1. Cat(Few(Head(p)), Tail(p)) = p
          BY <1>1, <1>3, <3>2, HeadCat DEF Few
        <5> QED
          BY <3>1, <5>1 DEF Coming
      <4>2. Front(Cat(Few(d), p), Lines(s)) => Front(p, Lines(s))
        BY <1>3, FrontOfCat
      <4> QED
        BY <4>1, <4>2 DEF StreamInv, Coming
    <3> QED
      BY <1>1, <1>2, <3>3, <3>4 DEF StreamInv, Lines
  <2>2. CASE Head(p).what = "mark"
    <3> DEFINE b == Cat(p, Few(l))
               x == IF d = NoLine \/ d.what = "blank" THEN <<>> ELSE <<d>>
    <3>1. /\ sink'[s] = Cat(Cat(k, x), <<Head(p)>>) /\ pend'[s] = NoLine /\ pipe'[s] = Tail(p)
      BY <1>1, <2>2 DEF Pump, TypeOK, Cat, HeldText
    <3>2. x \in Seq(Sunk) /\ b \in Seq(Sunk)
      <4>1. x = Few(d) \/ x = Few(NoLine)
        BY DEF Few
      <4> HIDE DEF x
      <4> QED
        BY <1>3, <4>1, FewTypes, CatTypes
    <3>3. Ahead(s)' = Cat(k, Cat(x, b))
      <4> HIDE DEF x
      <4>1. AheadOf(Cat(Cat(k, x), <<Head(p)>>), NoLine, Tail(p), l) = Cat(k, Cat(x, b))
        BY <1>1, <1>3, <3>2, MarkedAhead
      <4> QED
        BY <1>1, <3>1, <4>1 DEF Ahead
    <3>4. Ahead(s) = Cat(k, Cat(Few(d), b))
      BY DEF Ahead, AheadOf
    <3>5. Front(Coming(s)', Lines(s))
      <4>1. Marks(Tail(p)) = {} /\ Tail(p) \in Seq(Sunk)
        BY <1>1, <1>3, <2>2, MarksOfTail, HeadCat DEF CalmInv, MarkInv, OneMark, Streams
      <4>2. Few(NoLine) \in Seq(Sunk) /\ Marks(Few(NoLine)) = {}
        BY FewTypes
      <4>3. Marks(Cat(Few(NoLine), Tail(p))) = {}
        BY <4>1, <4>2, MarksInCat
      <4> QED
        BY <3>1, <4>3 DEF Coming, Front
    <3>6. /\ Kept(Cat(g, Ahead(s)'), Lines(s)) = Kept(Cat(g, Ahead(s)), Lines(s))
          /\ AfterMark(Ahead(s)) => AfterMark(Ahead(s)')
          /\ Late(Ahead(s)) => Late(Ahead(s)')
      <4>1. CASE d = NoLine \/ d.what # "blank"
        <5>1. x = Few(d)
          BY <4>1 DEF Few
        <5> QED
          BY <3>3, <3>4, <5>1
      <4>2. CASE d # NoLine /\ d.what = "blank"
        <5>1. Kept(Few(d), Lines(s)) = <<>>
          BY <1>1, <2>2, <4>2, HeldFramesMark DEF StreamInv
        <5>2. Ahead(s)' = Cat(k, b)
          <6> DEFINE none == <<>>
          <6>1. x = none
            BY <4>2
          <6>2. Cat(none, b) = b
            BY <3>2, CatOfEmpty
          <6> HIDE DEF none, x
          <6> QED
            BY <3>3, <6>1, <6>2
        <5> HIDE DEF b
        <5> QED
          BY <1>3, <3>2, <3>4, <5>1, <5>2, DroppedAhead
      <4> QED
        BY <4>1, <4>2
    <3> QED
      BY <1>1, <1>2, <3>5, <3>6 DEF StreamInv, Lines
  <2> QED
    BY <2>1, <2>2
<1>5. \A t \in Streams : t # s => (StreamInv(t) => StreamInv(t)')
  <2>1. \A t \in Streams : t # s => sink'[t] = sink[t] /\ pend'[t] = pend[t] /\ pipe'[t] = pipe[t]
    BY DEF Pump, TypeOK
  <2> QED
    BY <1>1, <1>2, <2>1, StreamSame
<1> QED
  BY <1>1, <1>4, <1>5 DEF FlowNow, Streams

\* Something of no run is written last to a stream.
LEMMA ForeignWritten ==
  ASSUME TypeOK, NEW s \in Streams, StreamInv(s), NEW w \in Seq(Sunk), Late(w), AfterMark(w),
         Ahead(s)' = Cat(Ahead(s), w), UNCHANGED <<got[s], wrote[s]>>,
         Wanted(s)' => Wanted(s), Collected(s)' => Collected(s), Front(Coming(s), Lines(s))'
  PROVE  StreamInv(s)'
<1> DEFINE before == Kept(wrote[s], Lines(s))
<1>1. Kept(w, Lines(s)) = <<>>
  BY NotKept
<1>2. Cat(before, Kept(w, Lines(s))) = before
  <2>1. before \in Seq(Sunk)
    BY StreamTypes, KeptTypes
  <2> QED
    BY <1>1, <2>1, CatOfEmpty
<1> HIDE DEF before
<1>3. Kept(wrote'[s], Lines(s)) = Cat(Kept(wrote[s], Lines(s)), Kept(w, Lines(s)))
  BY <1>2 DEF before
<1> QED
  BY <1>3, StreamWritten

\* A sequence of one.
LEMMA OneLine ==
  ASSUME NEW e \in Sunk
  PROVE  <<e>> \in Seq(Sunk) /\ AfterMark(<<e>>) /\ (e.run = 0 => Late(<<e>>))
         /\ (e.what # "mark" => Marks(<<e>>) = {})
<1>1. Len(<<e>>) = 1 /\ <<e>>[1] = e /\ <<e>> \in Seq(Sunk)
  OBVIOUS
<1> QED
  BY <1>1, MarksOfOne DEF AfterMark, Late, Marks

LEMMA PumpEndsFlow ==
  ASSUME TypeOK, FlowNow, NEW s \in Streams, PumpEnds(s)
  PROVE  FlowNow'
<1> DEFINE eof == <<Raw("eof", 0, 0)>>
           k == sink[s]
           d == pend[s]
           l == part[s]
           none == <<>>
<1>1. /\ pipe[s] = none /\ sink'[s] = Cat(Cat(Cat(k, Few(d)), Few(l)), eof)
      /\ pend'[s] = NoLine /\ part'[s] = NoLine /\ pipe'[s] = none
      /\ UNCHANGED <<stdin, run, wpc, got, wrote>>
  BY DEF PumpEnds, Cat, Few, Held, TypeOK, shellVars, workerVars
<1>2. \A t \in Streams : (Wanted(t)' => Wanted(t)) /\ (Collected(t)' => Collected(t))
  BY <1>1, QuietPumpEnds, WantedBefore DEF Has
<1>3. /\ k \in Seq(Sunk) /\ d \in Ended \cup {NoLine} /\ l \in Ended \cup {NoLine}
  BY StreamTypes
<1>4. eof \in Seq(Sunk) /\ Late(eof) /\ AfterMark(eof)
  <2>1. Raw("eof", 0, 0) \in Sunk /\ Raw("eof", 0, 0).run = 0
    BY RawTypes DEF Raw
  <2> QED
    BY <2>1, OneLine
<1>5. Ahead(s)' = Cat(Ahead(s), eof)
  <2> HIDE DEF eof
  <2>1. AheadOf(Cat(Cat(Cat(k, Few(d)), Few(l)), eof), NoLine, <<>>, NoLine) =
          Cat(AheadOf(k, d, <<>>, l), eof)
    BY <1>3, <1>4, EndedAhead
  <2> QED
    BY <1>1, <2>1 DEF Ahead
<1>6. Front(Coming(s), Lines(s))'
  <2>1. Marks(Few(NoLine)) = {} /\ Few(NoLine) \in Seq(Sunk) /\ Marks(none) = {} /\ none \in Seq(Sunk)
    BY FewTypes, MarksOfOne, EmptySeq
  <2>2. Coming(s)' = Cat(Few(NoLine), none)
    BY <1>1 DEF Coming
  <2> HIDE DEF none
  <2>3. Marks(Coming(s)') = {}
    BY <2>1, <2>2, MarksInCat
  <2> QED
    BY <2>3 DEF Front
<1>7. StreamInv(s) => StreamInv(s)'
  <2> HIDE DEF eof
  <2> QED
    BY <1>1, <1>2, <1>4, <1>5, <1>6, ForeignWritten
<1>8. \A t \in Streams : t # s => (StreamInv(t) => StreamInv(t)')
  <2>1. \A t \in Streams : t # s => /\ sink'[t] = sink[t] /\ pend'[t] = pend[t]
                                    /\ part'[t] = part[t] /\ pipe'[t] = pipe[t]
    BY DEF PumpEnds, TypeOK
  <2> QED
    BY <1>1, <1>2, <2>1, StreamSame
<1> QED
  BY <1>1, <1>7, <1>8 DEF FlowNow, Streams

\* x goes into the pipe and m is left unterminated: in all, w is added to the stream.
LEMMA IntoAhead ==
  ASSUME TypeOK, NEW s \in Streams, NEW x \in Seq(Sunk), NEW w \in Seq(Sunk),
         NEW m \in Ended \cup {NoLine},
         pipe'[s] = Cat(pipe[s], x), part'[s] = m, UNCHANGED <<sink[s], pend[s]>>,
         Cat(x, Few(m)) = Cat(Few(part[s]), w)
  PROVE  /\ Ahead(s)' = Cat(Ahead(s), w)
         /\ Coming(s)' = Cat(Coming(s), x)
<1> DEFINE k == sink[s]
           a == Few(pend[s])
           p == pipe[s]
           b == Few(part[s])
           c == Few(m)
<1>1. /\ k \in Seq(Sunk) /\ p \in Seq(Sunk)
      /\ a \in Seq(Sunk) /\ b \in Seq(Sunk) /\ c \in Seq(Sunk)
  BY StreamTypes, FewTypes
<1>2. Cat(x, c) = Cat(b, w)
  OBVIOUS
<1>3. Ahead(s) = Cat(k, Cat(a, Cat(p, b))) /\ Coming(s) = Cat(a, p)
  BY DEF Ahead, AheadOf, Coming
<1>4. Ahead(s)' = Cat(k, Cat(a, Cat(Cat(p, x), c))) /\ Coming(s)' = Cat(a, Cat(p, x))
  BY DEF Ahead, AheadOf, Coming
<1> HIDE DEF k, a, p, b, c
<1>5. Cat(Cat(p, x), c) = Cat(p, Cat(b, w)) /\ Cat(Cat(a, p), x) = Cat(a, Cat(p, x))
  BY <1>1, <1>2, CatIsAssociative
<1>6. Cat(p, Cat(b, w)) = Cat(Cat(p, b), w) /\ Cat(p, b) \in Seq(Sunk)
  BY <1>1, CatIsAssociative, CatTypes
<1>7. Cat(a, Cat(Cat(p, b), w)) = Cat(Cat(a, Cat(p, b)), w) /\ Cat(a, Cat(p, b)) \in Seq(Sunk)
  BY <1>1, <1>6, CatIsAssociative, CatTypes
<1>8. Cat(k, Cat(Cat(a, Cat(p, b)), w)) = Cat(Cat(k, Cat(a, Cat(p, b))), w)
  BY <1>1, <1>7, CatIsAssociative
<1> QED
  BY <1>3, <1>4, <1>5, <1>6, <1>7, <1>8

\* The four ways to write: a whole line, an unterminated one, its end, nothing.
LEMMA WaysToWrite ==
  ASSUME NEW e \in Sunk
  PROVE  /\ Cat(<<e>>, Few(NoLine)) = Cat(Few(NoLine), <<e>>)
         /\ e # NoLine => /\ Cat(<<>>, Few(e)) = Cat(Few(NoLine), <<e>>)
                          /\ Cat(<<e>>, Few(NoLine)) = Cat(Few(e), <<>>)
<1> DEFINE one == <<e>>
           none == <<>>
<1>1. one \in Seq(Sunk) /\ Few(NoLine) = none /\ (e # NoLine => Few(e) = one)
  BY DEF Few
<1>2. Cat(one, none) = one /\ Cat(none, one) = one
  BY <1>1, CatOfEmpty
<1> HIDE DEF one, none
<1>3. /\ Cat(one, Few(NoLine)) = Cat(Few(NoLine), one)
      /\ e # NoLine => /\ Cat(none, Few(e)) = Cat(Few(NoLine), one)
                       /\ Cat(one, Few(NoLine)) = Cat(Few(e), none)
  BY <1>1, <1>2
<1> QED
  BY <1>3 DEF one, none

\* Nothing that is written without a sentinel disturbs what is in front of one, or
\* the other stream.
LEMMA LineWritten ==
  ASSUME TypeOK, FlowNow, NEW s \in Streams, NEW x \in Seq(Piped), Marks(x) = {},
         NEW m \in Ended \cup {NoLine}, NEW w \in Seq(Sunk),
         pipe' = [pipe EXCEPT ![s] = Cat(pipe[s], x)], part' = [part EXCEPT ![s] = m],
         Cat(x, Few(m)) = Cat(Few(part[s]), w),
         UNCHANGED <<stdin, run, wpc, sink, pend, got>>,
         \A t \in Streams : t # s => wrote'[t] = wrote[t]
  PROVE  /\ StreamInv(s) /\ Ahead(s)' = Cat(Ahead(s), w) /\ Front(Coming(s), Lines(s))'
         /\ (Wanted(s)' => Wanted(s)) /\ (Collected(s)' => Collected(s))
         /\ \A t \in Streams : t # s => StreamInv(t)'
<1>1. StreamInv(s) /\ x \in Seq(Sunk) /\ Coming(s) \in Seq(Sunk)
  BY KindsGrow, SeqMonotonic, StreamTypes DEF FlowNow, Streams
<1>2. Ahead(s)' = Cat(Ahead(s), w) /\ Coming(s)' = Cat(Coming(s), x)
  <2>1. pipe'[s] = Cat(pipe[s], x) /\ part'[s] = m
    BY DEF TypeOK
  <2> QED
    BY <1>1, <2>1, IntoAhead
<1>3. Front(Cat(Coming(s), x), Lines(s))
  BY <1>1, FrontOfCat DEF StreamInv
<1>4. \A t \in Streams : (Wanted(t)' => Wanted(t)) /\ (Collected(t)' => Collected(t))
  <2>1. Into(s, x)
    BY DEF Into, Cat
  <2>2. Quiet("err")
    BY <2>1, QuietWrite
  <2> QED
    BY <2>2, WantedBefore DEF Has
<1>5. \A t \in Streams : t # s => StreamInv(t)'
  <2>1. \A t \in Streams : t # s => pipe'[t] = pipe[t] /\ part'[t] = part[t]
    BY DEF TypeOK
  <2>2. \A t \in Streams : StreamInv(t)
    BY DEF FlowNow, Streams
  <2> QED
    BY <1>4, <2>1, <2>2, StreamSame
<1> QED
  BY <1>1, <1>2, <1>3, <1>4, <1>5 DEF Lines

\* What the command writes is counted at once.
LEMMA WritesFlow ==
  ASSUME TypeOK, CalmInv, CodeInv, FlowNow, NEW s \in Streams, CommandWrites(s)
  PROVE  FlowNow'
<1>1. /\ shell = "busy" /\ part[s] = NoLine /\ wpc = "out" /\ NoMark(s) /\ job = run /\ run > 0
      /\ UNCHANGED <<stdin, run, wpc, sink, pend, got>>
  BY DEF CommandWrites, CalmInv, QuietInv, NoMarks, CodeInv, shellVars, pumpVars, workerVars,
     Streams
<1>2. lineno'[s] \in Nat
  BY CommandTypes DEF TypeOK
<1>3. PICK y \in {"text", "blank"} :
        /\ wrote' = [wrote EXCEPT ![s] = Snoc(wrote[s], Raw(y, job, lineno'[s]))]
        /\ \/ Into(s, <<Raw(y, job, lineno'[s])>>) /\ UNCHANGED part
           \/ /\ y = "text" /\ part' = [part EXCEPT ![s] = Raw(y, job, lineno'[s])]
              /\ UNCHANGED pipe
  BY <1>1 DEF CommandWrites, Snoc
<1> DEFINE raw == Raw(y, job, lineno'[s])
           one == <<raw>>
           none == <<>>
<1>4. /\ raw \in Ended /\ raw \in Piped /\ raw \in Sunk /\ raw # NoLine /\ raw.what # "mark"
      /\ (s = "out" => raw \in OwnLines)
  <2>1. raw \in Ended /\ raw.what # "mark" /\ raw \in OwnLines
    BY <1>1, <1>2 DEF Raw, Ended, LinesOf, OwnLines, TypeOK
  <2> QED
    BY <2>1, KindsGrow
<1>5. /\ one \in Seq(Sunk) /\ one \in Seq(Piped) /\ AfterMark(one) /\ Marks(one) = {}
      /\ none \in Seq(Piped) /\ Marks(none) = {}
  BY <1>4, OneLine, MarksOfOne, EmptySeq
<1>6. wrote'[s] = Cat(wrote[s], one) /\ \A t \in Streams : t # s => wrote'[t] = wrote[t]
  <2>1. wrote'[s] = Snoc(wrote[s], raw) /\ \A t \in Streams : t # s => wrote'[t] = wrote[t]
    BY <1>3 DEF TypeOK
  <2>2. Snoc(wrote[s], raw) = Cat(wrote[s], one)
    BY <1>4, StreamTypes, SnocIsCat
  <2> QED
    BY <2>1, <2>2
<1>7. PICK x \in {one, none} : \E m \in Ended \cup {NoLine} :
        /\ pipe' = [pipe EXCEPT ![s] = Cat(pipe[s], x)] /\ part' = [part EXCEPT ![s] = m]
        /\ Cat(x, Few(m)) = Cat(Few(part[s]), one)
  <2>1. CASE Into(s, one) /\ UNCHANGED part
    <3>1. /\ pipe' = [pipe EXCEPT ![s] = Cat(pipe[s], one)]
          /\ part' = [part EXCEPT ![s] = NoLine]
      BY <1>1, <2>1 DEF Into, Cat, TypeOK
    <3>2. Cat(one, Few(NoLine)) = Cat(Few(part[s]), one)
      BY <1>1, <1>4, WaysToWrite
    <3> HIDE DEF one
    <3> QED
      BY <3>1, <3>2
  <2>2. CASE part' = [part EXCEPT ![s] = raw] /\ UNCHANGED pipe
    <3>1. pipe' = [pipe EXCEPT ![s] = Cat(pipe[s], none)]
      <4>1. Cat(pipe[s], none) = pipe[s]
        BY StreamTypes, CatOfEmpty
      <4> HIDE DEF none
      <4> QED
        BY <2>2, <4>1 DEF TypeOK
    <3>2. Cat(none, Few(raw)) = Cat(Few(part[s]), one)
      BY <1>1, <1>4, WaysToWrite
    <3> HIDE DEF one, none, raw
    <3> QED
      BY <1>4, <2>2, <3>1, <3>2
  <2> QED
    BY <1>3, <2>1, <2>2
<1> HIDE DEF one, none
<1>8. /\ StreamInv(s) /\ Ahead(s)' = Cat(Ahead(s), one) /\ Front(Coming(s), Lines(s))'
      /\ (Wanted(s)' => Wanted(s)) /\ (Collected(s)' => Collected(s))
      /\ \A t \in Streams : t # s => StreamInv(t)'
  <2>1. x \in Seq(Piped) /\ Marks(x) = {}
    BY <1>5
  <2> QED
    BY <1>1, <1>5, <1>6, <1>7, <2>1, LineWritten
<1>9. /\ Kept(wrote'[s], Lines(s)) = Cat(Kept(wrote[s], Lines(s)), Kept(one, Lines(s)))
      /\ wrote[s] \in Seq(Sunk)
  <2>1. wrote[s] \in Seq(Sunk)
    BY StreamTypes
  <2> QED
    BY <1>5, <1>6, <2>1, KeptOfCat
<1>10. StreamInv(s)'
  <2>1. ~Collected(s)'
    BY <1>1 DEF Collected
  <2> QED
    BY <1>1, <1>5, <1>8, <1>9, <2>1, StreamWritten
<1>11. Kept(wrote'["out"], OwnLines) = wrote'["out"]
  <2>1. CASE s = "out"
    <3>1. Kept(one, OwnLines) = one
      BY <1>4, <2>1, KeptOne DEF one
    <3> QED
      BY <1>6, <1>9, <2>1, <3>1 DEF Lines, FlowNow
  <2>2. CASE s # "out"
    BY <1>6, <2>2 DEF FlowNow, Streams
  <2> QED
    BY <2>1, <2>2
<1> QED
  BY <1>8, <1>10, <1>11 DEF FlowNow, Streams

\* A line is ended, or a background job writes one.
LEMMA OtherWritesFlow ==
  ASSUME TypeOK, CalmInv, FlowNow, NEW s \in Streams, CommandEndsLine(s) \/ BackgroundWrites(s)
  PROVE  FlowNow'
<1>1. UNCHANGED <<stdin, run, wpc, sink, pend, got, wrote>>
  BY DEF CommandEndsLine, BackgroundWrites, shellVars, pumpVars, workerVars
<1> DEFINE none == <<>>
<1>2. none \in Seq(Sunk) /\ Late(none) /\ AfterMark(none)
  BY EmptySeq DEF Late, AfterMark
<1>3. PICK e \in Piped : \E w \in {<<e>>, none} :
        /\ pipe' = [pipe EXCEPT ![s] = Cat(pipe[s], <<e>>)] /\ part' = [part EXCEPT ![s] = NoLine]
        /\ Cat(<<e>>, Few(NoLine)) = Cat(Few(part[s]), w)
        /\ e.what # "mark" /\ (w = none \/ e.run = 0)
  <2>1. CASE CommandEndsLine(s)
    <3>1. part[s] \in Piped /\ part[s] \in Sunk /\ part[s] # NoLine /\ part[s].what # "mark"
      BY <2>1, KindsGrow DEF CommandEndsLine, TypeOK, Begun, LinesOf
    <3>2. /\ pipe' = [pipe EXCEPT ![s] = Cat(pipe[s], <<part[s]>>)]
          /\ part' = [part EXCEPT ![s] = NoLine]
      BY <2>1 DEF CommandEndsLine, Into, Cat
    <3>3. Cat(<<part[s]>>, Few(NoLine)) = Cat(Few(part[s]), none)
      BY <3>1, WaysToWrite
    <3> HIDE DEF none
    <3> QED
      BY <3>1, <3>2, <3>3
  <2>2. CASE BackgroundWrites(s)
    <3> DEFINE raw == Raw("text", 0, late')
    <3>1. raw \in Piped /\ raw \in Sunk /\ raw.what # "mark" /\ raw.run = 0
      <4>1. late' \in Nat
        BY <2>2, CommandTypes DEF TypeOK
      <4> QED
        BY <4>1, KindsGrow, RawTypes DEF Raw
    <3>2. /\ pipe' = [pipe EXCEPT ![s] = Cat(pipe[s], <<raw>>)]
          /\ part' = [part EXCEPT ![s] = NoLine] /\ part[s] = NoLine
      BY <2>2 DEF BackgroundWrites, Into, Cat, TypeOK
    <3>3. Cat(<<raw>>, Few(NoLine)) = Cat(Few(part[s]), <<raw>>)
      BY <3>1, <3>2, WaysToWrite
    <3> HIDE DEF raw
    <3> QED
      BY <3>1, <3>2, <3>3
  <2> QED
    BY <2>1, <2>2
<1> DEFINE one == <<e>>
<1>4. PICK w \in {one, none} :
        /\ pipe' = [pipe EXCEPT ![s] = Cat(pipe[s], one)] /\ part' = [part EXCEPT ![s] = NoLine]
        /\ Cat(one, Few(NoLine)) = Cat(Few(part[s]), w)
        /\ e.what # "mark" /\ (w = none \/ e.run = 0)
  BY <1>3
<1>5. /\ one \in Seq(Sunk) /\ one \in Seq(Piped) /\ AfterMark(one) /\ Marks(one) = {}
      /\ (e.run = 0 => Late(one))
  BY <1>4, KindsGrow, OneLine
<1> HIDE DEF one, none
<1>6. w \in Seq(Sunk) /\ Late(w) /\ AfterMark(w) /\ NoLine \in Ended \cup {NoLine}
  BY <1>2, <1>4, <1>5
<1>7. /\ StreamInv(s) /\ Ahead(s)' = Cat(Ahead(s), w) /\ Front(Coming(s), Lines(s))'
      /\ (Wanted(s)' => Wanted(s)) /\ (Collected(s)' => Collected(s))
      /\ \A t \in Streams : t # s => StreamInv(t)'
  BY <1>1, <1>4, <1>5, <1>6, LineWritten
<1>8. StreamInv(s)'
  BY <1>1, <1>6, <1>7, ForeignWritten
<1> QED
  BY <1>1, <1>7, <1>8 DEF FlowNow, Streams

\* The sentinel of stdout, behind a newline that the pump will drop or that ends a line.
LEMMA PrintsOutFlow ==
  ASSUME TypeOK, CalmInv, FlowNow, ShellReads, ShellPrintsOut
  PROVE  FlowNow'
<1> DEFINE s == "out"
           mark == Raw("mark", dollar, 0)
           first == IF part[s] = NoLine THEN Framing ELSE part[s]
           x == <<first, mark>>
           w == IF part[s] = NoLine THEN x ELSE <<mark>>
<1>1. /\ Head(stdin).what = "out" /\ stdin # <<>> /\ stdin' = Tail(stdin)
      /\ pipe' = [pipe EXCEPT !["out"] = Cat(pipe["out"], x)]
      /\ part' = [part EXCEPT !["out"] = NoLine]
      /\ UNCHANGED <<run, wpc, sink, pend, got, wrote>>
      /\ "out" \in Streams /\ "err" \in Streams
  BY DEF ShellReads, ShellPrintsOut, Into, Cat, pumpVars, workerVars, Streams
<1>2. wpc = "out" /\ NoMark("out")
  <2>1. 1 \in 1..Len(stdin) /\ stdin[1] = Head(stdin)
    BY <1>1 DEF TypeOK
  <2> QED
    BY <1>1, <2>1 DEF CalmInv, InputInv, NoMarks, Has
<1>3. /\ mark \in Sunk /\ first \in Sunk /\ mark.what = "mark" /\ first.what # "mark"
      /\ (first.what = "blank" => first.run = 0) /\ (part[s] = NoLine => first = Framing)
  <2>1. mark \in Sunk /\ mark.what = "mark"
    BY KindsGrow, RawTypes DEF TypeOK, Raw
  <2>2. Framing \in Sunk /\ Framing.what = "blank" /\ Framing.run = 0
    BY KindsGrow, RawTypes DEF Framing, Raw
  <2>3. part[s] # NoLine => part[s] \in Sunk /\ part[s].what = "text"
    BY <1>1, KindsGrow DEF TypeOK, Begun, LinesOf
  <2> HIDE DEF mark
  <2> QED
    BY <2>1, <2>2, <2>3
<1>4. /\ x \in Seq(Sunk) /\ Len(x) = 2 /\ x[1] = first /\ x[2] = mark
      /\ <<mark>> \in Seq(Sunk) /\ Len(<<mark>>) = 1 /\ <<mark>>[1] = mark
      /\ <<first>> \in Seq(Sunk)
  BY <1>3
<1>5. w \in Seq(Sunk) /\ AfterMark(w)
  <2>1. AfterMark(x)
    BY <1>3, <1>4 DEF AfterMark, Marks
  <2>2. AfterMark(<<mark>>)
    BY <1>3, OneLine
  <2> HIDE DEF x, mark, first
  <2> QED
    BY <1>4, <2>1, <2>2
<1>6. Kept(w, Lines(s)) = <<>>
  <2>1. mark \notin Lines(s) /\ (part[s] = NoLine => first \notin Lines(s))
    BY <1>1, <1>3, NotKept DEF Framing, Raw
  <2>2. \A i \in 1..Len(w) : w[i] \notin Lines(s)
    <3>1. CASE part[s] = NoLine
      <4>1. w = x /\ \A i \in 1..Len(x) : i = 1 \/ i = 2
        BY <1>4, <3>1
      <4> HIDE DEF x, w, mark, first
      <4> QED
        BY <1>4, <2>1, <3>1, <4>1
    <3>2. CASE part[s] # NoLine
      <4>1. w = <<mark>> /\ \A i \in 1..Len(<<mark>>) : i = 1
        BY <1>4, <3>2
      <4> HIDE DEF x, w, mark, first
      <4> QED
        BY <1>4, <2>1, <3>2, <4>1
    <3> QED
      BY <3>1, <3>2
  <2> QED
    BY <1>5, <2>2, KeptNone
<1>7. Cat(x, Few(NoLine)) = Cat(Few(part[s]), w)
  <2> DEFINE none == <<>>
             y == <<mark>>
             z == <<first>>
  <2>1. x \in Seq(Sunk) /\ Few(NoLine) = none /\ x = Cat(z, y)
        /\ (part[s] # NoLine => Few(part[s]) = z /\ w = y)
        /\ (part[s] = NoLine => Few(part[s]) = none /\ w = x)
    BY <1>4 DEF Few, Cat
  <2>2. Cat(x, none) = x /\ Cat(none, x) = x
    BY <2>1, CatOfEmpty
  <2> HIDE DEF none, x, y, z, w
  <2> QED
    BY <2>1, <2>2
<1>8. Ahead(s)' = Cat(Ahead(s), w) /\ Coming(s)' = Cat(Coming(s), x)
  <2>1. pipe'[s] = Cat(pipe[s], x) /\ part'[s] = NoLine
    BY <1>1 DEF TypeOK
  <2> HIDE DEF x, w
  <2> QED
    BY <1>1, <1>4, <1>5, <1>7, <2>1, IntoAhead
<1>9. Front(Coming(s), Lines(s))'
  <2>1. Marks(Coming(s)) = {} /\ Coming(s) \in Seq(Sunk)
    BY <1>1, <1>2, StreamTypes
  <2>2. Front(x, Lines(s)) /\ 1 \notin Marks(x)
    <3>1. first.what = "blank" => first \notin Lines(s)
      BY <1>1, <1>3, NotKept
    <3> QED
      BY <1>3, <1>4, <3>1 DEF Front, Marks
  <2> HIDE DEF x
  <2>3. Front(Cat(Coming(s), x), Lines(s))
    BY <1>4, <2>1, <2>2, FrontOfCat
  <2> QED
    BY <1>8, <2>3 DEF Lines
<1> HIDE DEF x, w
<1>10. pipe'["err"] = pipe["err"] /\ part'["err"] = part["err"]
  BY <1>1 DEF TypeOK
<1>11. \A t \in Streams : (Wanted(t)' => Wanted(t)) /\ (Collected(t)' => Collected(t))
  <2>1. Has("err")' => Has("err")
    BY <1>1, LineRead DEF CalmInv, InputInv
  <2>2. NoMark("err")' <=> NoMark("err")
    BY <1>1, <1>10 DEF NoMark
  <2> QED
    BY <1>1, <2>1, <2>2 DEF Wanted, Due, Collected
<1>12. StreamInv("err")'
  BY <1>1, <1>10, <1>11, StreamSame DEF FlowNow
<1>13. StreamInv("out")'
  <2>1. Kept(wrote'[s], Lines(s)) = Cat(Kept(wrote[s], Lines(s)), Kept(w, Lines(s)))
    <3> DEFINE before == Kept(wrote[s], Lines(s))
    <3>1. before \in Seq(Sunk)
      BY <1>1, StreamTypes, KeptTypes
    <3>2. Cat(before, <<>>) = before
      BY <3>1, CatOfEmpty
    <3> QED
      BY <1>1, <1>6, <3>2
  <2>2. ~Collected("out")'
    BY <1>1, <1>2 DEF Collected
  <2> QED
    BY <1>1, <1>2, <1>5, <1>8, <1>9, <1>11, <2>1, <2>2, StreamWritten DEF FlowNow
<1> QED
  BY <1>1, <1>12, <1>13 DEF FlowNow

\* The sentinel of stderr, on a line of its own or lost at the end of another.
LEMMA PrintsErrFlow ==
  ASSUME TypeOK, CalmInv, FlowNow, ShellReads, ShellPrintsErr
  PROVE  FlowNow'
<1> DEFINE s == "err"
<1>1. /\ Head(stdin).what = "err" /\ stdin # <<>> /\ stdin' = Tail(stdin)
      /\ part' = [part EXCEPT !["err"] = NoLine]
      /\ UNCHANGED <<run, wpc, sink, pend, got, wrote>>
      /\ "out" \in Streams /\ "err" \in Streams
  BY DEF ShellReads, ShellPrintsErr, pumpVars, workerVars, Streams
<1>2. wpc # "idle" /\ NoMark("err") /\ Has("err")
  <2>1. 1 \in 1..Len(stdin) /\ stdin[1] = Head(stdin)
    BY <1>1 DEF TypeOK
  <2> QED
    BY <1>1, <2>1 DEF CalmInv, InputInv, Has
<1>3. PICK e \in Piped :
        /\ Into("err", <<e>>)
        /\ \/ part["err"] = NoLine /\ e.run = 0
           \/ part["err"] # NoLine /\ e.what # "mark"
  <2>1. /\ Raw("mark", 0, 0) \in Piped /\ Raw("mark", 0, 0).run = 0
        /\ part["err"] # NoLine => /\ [part["err"] EXCEPT !.what = "glued"] \in Piped
                                   /\ [part["err"] EXCEPT !.what = "glued"].what # "mark"
    <3>1. Raw("mark", 0, 0) \in Piped /\ Raw("mark", 0, 0).run = 0
      BY RawTypes DEF Raw
    <3>2. part["err"] # NoLine => part["err"] \in Begun
      BY <1>1 DEF TypeOK
    <3>3. \A l \in Begun : /\ [l EXCEPT !.what = "glued"] \in Piped
                           /\ [l EXCEPT !.what = "glued"].what # "mark"
      BY KindsGrow DEF Begun, LinesOf
    <3> QED
      BY <3>1, <3>2, <3>3
  <2> QED
    BY <2>1 DEF ShellPrintsErr
<1> DEFINE one == <<e>>
<1>4. /\ pipe'["err"] = Cat(pipe["err"], one) /\ part'["err"] = NoLine
      /\ pipe'["out"] = pipe["out"] /\ part'["out"] = part["out"]
  BY <1>1, <1>3 DEF Into, Cat, TypeOK
<1>5. one \in Seq(Sunk) /\ AfterMark(one) /\ (e.run = 0 => Late(one)) /\ e \in Sunk
      /\ (e.what # "mark" => Marks(one) = {})
  BY KindsGrow, OneLine
<1>6. StreamInv("out")'
  <2>1. (Wanted("out")' => Wanted("out")) /\ (Collected("out")' => Collected("out"))
    BY <1>1 DEF Wanted, Collected
  <2> QED
    BY <1>1, <1>4, <2>1, StreamSame DEF FlowNow
<1>7. \A q : Front(q, TextLines)
  BY DEF Front, TextLines
<1>8. Lines("err") = TextLines /\ Wanted("err") /\ ~Collected("err")'
  BY <1>1, <1>2 DEF Lines, Wanted, Due, Collected
<1>9. CASE part["err"] = NoLine
  <2>1. Cat(one, Few(NoLine)) = Cat(Few(part["err"]), one)
    BY <1>5, <1>9, WaysToWrite
  <2> HIDE DEF one
  <2>2. Ahead("err")' = Cat(Ahead("err"), one)
    BY <1>1, <1>4, <1>5, <2>1, IntoAhead
  <2>3. Late(one)
    BY <1>3, <1>5, <1>9
  <2>4. Front(Coming("err"), Lines("err"))'
    BY <1>7, <1>8 DEF Lines
  <2>5. StreamInv("err")'
    BY <1>1, <1>5, <1>8, <2>2, <2>3, <2>4, ForeignWritten DEF FlowNow
  <2> QED
    BY <1>1, <1>6, <2>5 DEF FlowNow
<1>10. CASE part["err"] # NoLine
  <2> HIDE DEF one
  <2>1. Marks(pipe'["err"]) = {} /\ Marks(sink["err"]) = {} /\ pipe'["err"] \in Seq(Sunk)
    <3>1. Marks(one) = {} /\ Marks(pipe["err"]) = {} /\ Marks(sink["err"]) = {}
      BY <1>2, <1>3, <1>5, <1>10 DEF NoMark
    <3>2. pipe["err"] \in Seq(Sunk)
      BY <1>1, StreamTypes
    <3> QED
      BY <1>4, <1>5, <3>1, <3>2, MarksInCat, CatTypes
  <2>2. ~Wanted("err")'
    <3>1. \A w : Has(w)' /\ w # "exit" => Rank("err") < Rank(w)
      BY <1>1, LineRead DEF CalmInv, InputInv
    <3>2. ~Has("err")'
      BY <3>1 DEF Rank
    <3> QED
      BY <1>1, <2>1, <3>2 DEF Wanted, Due, NoMark
  <2>3. Marks(Ahead("err")') = {}
    <3>1. /\ sink["err"] \in Seq(Sunk) /\ pend["err"] \in Ended \cup {NoLine}
          /\ NoLine \in Ended \cup {NoLine}
      BY <1>1, StreamTypes
    <3>2. Marks(AheadOf(sink["err"], pend["err"], pipe'["err"], NoLine)) = {}
      BY <2>1, <3>1, AheadTypes
    <3> QED
      BY <1>1, <1>4, <3>2 DEF Ahead
  <2>4. StreamInv("err")'
    BY <1>7, <1>8, <2>2, <2>3 DEF StreamInv, AfterMark, Lines
  <2> QED
    BY <1>1, <1>6, <2>4 DEF FlowNow
<1> QED
  BY <1>9, <1>10

\* What changes no stream.
LEMMA SilentFlow ==
  ASSUME TypeOK, CalmInv, FlowNow,
         \/ ShellReads /\ (ShellTraps \/ ShellBegins \/ ShellExits)
         \/ CommandReadsStdin \/ CommandEnds \/ CommandKillsShell \/ Signal \/ Close \/ Kill
         \/ HolderLetsGo
         \/ UNCHANGED vars
  PROVE  FlowNow'
<1>1. /\ UNCHANGED <<run, wpc, sink, pend, pipe, part, got, wrote>>
      /\ \/ stdin' = stdin
         \/ stdin # <<>> /\ stdin' = Tail(stdin)
         \/ stdin' = Append(stdin, Item("exit", 0))
  BY DEF ShellReads, ShellTraps, ShellBegins, ShellExits, ShellGone, CommandReadsStdin, CommandEnds,
     CommandKillsShell, Signal, Close, Kill,
     HolderLetsGo, ShellGone, ioVars, pumpVars, workerVars, vars, shellVars
<1>2. Has("err")' => Has("err")
  <2>1. InOrder
    BY DEF CalmInv, InputInv
  <2>2. CASE stdin' = stdin
    BY <2>2 DEF Has
  <2>3. CASE stdin # <<>> /\ stdin' = Tail(stdin)
    BY <1>1, <2>3, LineRead DEF CalmInv
  <2>4. CASE stdin' = Append(stdin, Item("exit", 0))
    BY <2>1, <2>4, ExitWritten
  <2> QED
    BY <1>1, <2>2, <2>3, <2>4
<1>3. \A t \in Streams : (Wanted(t)' => Wanted(t)) /\ (Collected(t)' => Collected(t))
  BY <1>1, <1>2 DEF Wanted, Due, Collected, NoMark
<1> QED
  BY <1>1, <1>3, StreamSame DEF FlowNow, Streams

LEMMA FlowStays ==
  ASSUME TypeOK, LiveInv, EofInv, CodeInv, FlowInv, [Next]_vars
  PROVE  FlowInv'
<1> SUFFICES ASSUME Live' PROVE FlowNow'
  BY DEF FlowInv
<1>1. CASE Next
  <2>1. Live
    BY <1>1, LiveBefore
  <2>2. CalmInv /\ FlowNow
    BY <2>1 DEF LiveInv, CalmInv, FlowInv
  <2>3. ASSUME NEW s \in Streams, CollectEof(s) PROVE FALSE
    <3>1. shell # "dead" => Head(sink[s]) \in Piped
      BY <2>3, HeadTailProperties DEF CollectEof, EofInv
    <3>2. shell = "dead"
      BY <2>3, <3>1 DEF CollectEof, Piped, LinesOf
    <3> QED
      BY <2>3, <3>2 DEF CollectEof, Live, shellVars
  <2>4. CASE ShellReads
    BY <2>2, <2>4, PrintsOutFlow, PrintsErrFlow, SilentFlow DEF ShellReads
  <2> QED
    BY <1>1, <2>2, <2>3, <2>4, Actions, RunFlow, CollectFlow, SentinelFlow, PumpFlow,
       PumpEndsFlow, WritesFlow, OtherWritesFlow, SilentFlow
<1>2. CASE UNCHANGED vars
  <2>1. Live
    BY <1>2 DEF vars, workerVars, shellVars, Live
  <2> QED
    BY <1>2, <2>1, SilentFlow DEF LiveInv, CalmInv, FlowInv
<1> QED
  BY <1>1, <1>2

\* A run that has both sentinels has all that its command wrote.
WholeInv ==
  result = "done" /\ raises = 0 =>
    Whole("out") /\ Whole("err") /\ Kept(wrote["out"], OwnLines) = wrote["out"]

LEMMA WholeStays ==
  ASSUME TypeOK, LiveInv, CodeInv, FlowInv, WholeInv, [Next]_vars
  PROVE  WholeInv'
<1> SUFFICES ASSUME result' = "done", raises' = 0
             PROVE  (Whole("out") /\ Whole("err") /\ Kept(wrote["out"], OwnLines) = wrote["out"])'
  BY DEF WholeInv
<1>1. CASE CollectSentinel
  <2>1. raises = 0 /\ wpc # "idle" /\ result = "none" /\ UNCHANGED <<got, wrote>>
    BY <1>1 DEF CollectSentinel, CodeInv, ioVars
  <2>2. CalmInv /\ FlowNow
    BY <2>1 DEF Live, LiveInv, FlowInv, CalmInv
  <2>3. wpc = "err"
    BY <1>1, <2>1 DEF CollectSentinel
  <2>4. Whole("out") /\ Whole("err")
    BY <1>1, <2>2, <2>3, SentinelFlow
  <2> QED
    BY <2>1, <2>2, <2>4 DEF FlowNow, Whole, Lines
<1>2. CASE Run
  BY <1>2 DEF Run
<1>3. ASSUME NEW s \in Streams, CollectLine(s) \/ CollectEof(s) PROVE FALSE
  BY <1>3 DEF CollectLine, CollectEof, CodeInv, Streams
<1>4. CASE UNCHANGED <<result, raises, got, wrote>>
  BY <1>4 DEF WholeInv, Whole, Lines
<1>5. ASSUME NEW s \in Streams, CommandWrites(s) PROVE FALSE
  <2>1. result = "done" /\ raises = 0 /\ shell = "busy"
    BY <1>5 DEF CommandWrites, workerVars
  <2>2. wpc = "idle"
    BY <2>1 DEF CodeInv
  <2> QED
    BY <2>1, <2>2 DEF LiveInv, Live, QuietInv
<1>6. ASSUME NEW s \in Streams,
             Pump(s) \/ PumpEnds(s) \/ CommandEndsLine(s) \/ BackgroundWrites(s)
      PROVE  UNCHANGED <<result, raises, got, wrote>>
  BY <1>6 DEF Pump, PumpEnds, CommandEndsLine, BackgroundWrites, workerVars
<1>7. ASSUME \/ ShellReads \/ CommandReadsStdin \/ CommandEnds \/ CommandKillsShell
             \/ Signal \/ Close \/ Kill
         \/ HolderLetsGo \/ UNCHANGED vars
      PROVE  UNCHANGED <<result, raises, got, wrote>>
  BY <1>7 DEF ShellReads, ShellTraps, ShellBegins, ShellPrintsOut, ShellPrintsErr, ShellExits,
     CommandReadsStdin, CommandEnds, CommandKillsShell, Signal, Close, Kill,
     HolderLetsGo, ShellGone, vars, ioVars,
     workerVars
<1> QED
  BY <1>1, <1>2, <1>3, <1>4, <1>5, <1>6, <1>7, Actions
-----------------------------------------------------------------------------
(* The theorems. *)

LEMMA InitIInv == Init => IInv
<1> SUFFICES ASSUME Init PROVE IInv
  OBVIOUS
<1>1. TypeOK
  <2>1. stdin \in Seq(Items)
    BY ItemTypes DEF Init
  <2>2. [s \in Streams |-> <<>>] \in [Streams -> Seq(Piped)]
    BY EmptySeq
  <2>3. [s \in Streams |-> <<>>] \in [Streams -> Seq(Sunk)]
    BY EmptySeq
  <2>4. [s \in Streams |-> <<>>] \in [Streams -> Seq(Ended)]
    BY EmptySeq
  <2>5. trapped \in BOOLEAN /\ closing \in BOOLEAN
    BY DEF Init
  <2>6. swallowed \in BOOLEAN
    BY DEF Init
  <2> QED
    BY <2>1, <2>2, <2>3, <2>4, <2>5, <2>6 DEF Init, TypeOK
<1>2. Len(stdin) = 1 /\ stdin[1].what = "trap"
  BY DEF Init, Item
<1>3. \A w : Has(w) => w = "trap"
  BY <1>2 DEF Has
<1>4. /\ "out" \in Streams /\ "err" \in Streams
      /\ \A s \in Streams : /\ sink[s] = <<>> /\ pipe[s] = <<>> /\ pend[s] = NoLine
                            /\ part[s] = NoLine
  BY DEF Init, Streams
<1>5. NoMarks /\ MarkInv
  BY <1>4 DEF NoMarks, NoMark, MarkInv, OneMark, OwnMarks, AtMostOne, Marks
<1>6. LiveInv
  BY <1>2, <1>3, <1>5 DEF Init, LiveInv, InputInv, InOrder, QuietInv
<1>7. EofInv
  BY <1>4, EmptySeq DEF EofInv
<1>8. CleanInv
  BY <1>4 DEF CleanInv, Last, Settled, Marks
<1> QED
  BY <1>1, <1>3, <1>6, <1>7, <1>8 DEF Init, IInv, CodeInv, ExitInv

LEMMA StepIInv == IInv /\ [Next]_vars => IInv'
<1> SUFFICES ASSUME IInv, [Next]_vars PROVE IInv'
  OBVIOUS
<1>1. CASE Next
  BY <1>1, TypesStay, CalmStays, EofStays, CodeStays, ExitStays, CleanStays DEF IInv
<1>2. CASE UNCHANGED vars
  <2>1. TypeOK'
    BY TypesStay DEF IInv
  <2>2. UNCHANGED <<stdin, shell, job, dollar, part, pipe, pend, sink, wpc, run, code, result,
                    raises, closing, late>>
    BY <1>2 DEF vars, ioVars, shellVars, pumpVars, workerVars, otherVars
  <2>3. LiveInv'
    <3>1. Quiet("out") /\ Quiet("err")
      BY <2>2, QuietSame DEF Streams
    <3>2. Live' => Live
      BY <2>2 DEF Live
    <3> QED
      BY <2>2, <3>1, <3>2, QuietStep DEF IInv, LiveInv, CalmInv
  <2>4. EofInv' /\ CodeInv'
    BY <2>2 DEF IInv, EofInv, CodeInv
  <2>5. ExitInv'
    BY <2>2 DEF IInv, ExitInv, Has
  <2>6. CleanInv'
    BY <2>2, TidySame DEF IInv, CleanInv, TidyInv
  <2> QED
    BY <2>1, <2>3, <2>4, <2>5, <2>6 DEF IInv
<1> QED
  BY <1>1, <1>2

LEMMA InitFlow == Init => FlowInv /\ WholeInv
<1> SUFFICES ASSUME Init PROVE FlowNow /\ result = "none"
  BY DEF FlowInv, WholeInv, Init
<1> DEFINE none == <<>>
<1>1. "out" \in Streams /\ "err" \in Streams
  BY DEF Streams
<1>2. none \in Seq(Sunk) /\ Few(NoLine) = none /\ Cat(none, none) = none /\ Len(none) = 0
  BY EmptySeq, CatOfEmpty DEF Few
<1>3. \A S : Kept(none, S) = none
  BY KeptEmpty
<1>4. \A s \in Streams : /\ sink[s] = none /\ pipe[s] = none /\ got[s] = none /\ wrote[s] = none
                         /\ pend[s] = NoLine /\ part[s] = NoLine
  BY DEF Init
<1> HIDE DEF none
<1>5. \A s \in Streams : Ahead(s) = none /\ Coming(s) = none
  BY <1>2, <1>4 DEF Ahead, AheadOf, Coming
<1>6. Late(none) /\ AfterMark(none) /\ \A S : Front(none, S)
  BY <1>2 DEF Late, AfterMark, Front, Marks
<1>7. \A s \in Streams : StreamInv(s)
  BY <1>2, <1>3, <1>4, <1>5, <1>6 DEF StreamInv
<1> QED
  BY <1>1, <1>3, <1>4, <1>7 DEF FlowNow, Init

\* The invariant, for any bounds.
THEOREM Invariance == Spec => []IInv
BY InitIInv, StepIInv, PTL DEF Spec

\* Every variable keeps its type.
THEOREM TypeCorrect == Spec => []TypeOK
BY Invariance, PTL DEF IInv

\* ShellBackend.run, which compares no token: the exit code it returns is that of
\* its own command, unless a line handler raised and left sentinels behind.
THEOREM OwnResultHolds == Spec => []OwnResult
<1>1. IInv => OwnResult
  BY DEF IInv, CodeInv, OwnResult
<1> QED
  BY <1>1, Invariance, PTL

\* "The next command starts cleanly", shell_backend.py: after a run that returned the
\* input and both streams are empty, and the shell waits for the next command.
THEOREM NextStartsCleanly == Spec => []CleanStart
<1>1. IInv => CleanStart
  <2> SUFFICES ASSUME IInv, wpc = "idle", result = "done", shell # "dead", ~closing, late = 0,
                      raises = 0
               PROVE  /\ stdin = <<>> /\ shell = "ready"
                      /\ \A s \in Streams : /\ pipe[s] = <<>> /\ sink[s] = <<>>
                                            /\ pend[s] = NoLine /\ part[s] = NoLine
    BY DEF CleanStart
  <2>1. Settled("out") /\ Settled("err") /\ InputInv /\ QuietInv /\ run > 0
    BY DEF IInv, CleanInv, LiveInv, Live, CodeInv
  <2>2. \A w \in {"trap", "cmd", "out", "err", "exit"} : ~Has(w)
    BY <2>1 DEF InputInv, IInv, ExitInv, TypeOK
  <2>3. stdin = <<>>
    <3>1. ASSUME NEW i \in 1..Len(stdin) PROVE FALSE
      <4>1. stdin[i] \in Items
        BY DEF IInv, TypeOK
      <4> QED
        BY <2>2, <4>1 DEF Has, Items
    <3>2. Len(stdin) = 0
      BY <3>1 DEF IInv, TypeOK
    <3> QED
      BY <3>2, EmptySeq DEF IInv, TypeOK
  <2>4. shell = "ready"
    BY <2>1 DEF QuietInv, IInv, TypeOK
  <2> QED
    BY <2>1, <2>3, <2>4 DEF Settled, Streams
<1> QED
  BY <1>1, Invariance, PTL

\* ShellBackend.run and its two pumps: what the handlers of a run got is what its
\* command wrote, stdout to the line and in order, stderr but for its empty lines,
\* though nothing on the way tells one run from another.
THEOREM OutputHolds == Spec => []OutputIsOwn
<1>1. Init => IInv /\ FlowInv /\ WholeInv
  BY InitIInv, InitFlow
<1>2. (IInv /\ FlowInv /\ WholeInv) /\ [Next]_vars => (IInv /\ FlowInv /\ WholeInv)'
  BY StepIInv, FlowStays, WholeStays DEF IInv
<1>3. WholeInv => OutputIsOwn
  BY DEF WholeInv, Whole, Lines, OutputIsOwn, Own, Texts, Kept
<1> QED
  BY <1>1, <1>2, <1>3, PTL DEF Spec
=============================================================================
