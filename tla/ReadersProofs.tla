--------------------------- MODULE ReadersProofs ---------------------------
(***************************************************************************)
(* Proofs about the two readers that a keyboard shares with a thread of    *)
(* its own, for any outputs, events, bounds and interleaving.              *)
(*                                                                         *)
(* OutputPlayback: a playback only runs over an output that is being read, *)
(* the first one tells line after line, its end is reported whichever      *)
(* thread ended it, and after that at most one more line is spoken.        *)
(* EventLog: a key of the viewer acts on no entry older than the one       *)
(* announced, however the worker moves the ring between the steps.         *)
(***************************************************************************)
EXTENDS OutputPlayback, EventLog, SequenceTheorems, TLAPS

-----------------------------------------------------------------------------
(* The playback of an output. *)

MainPlaces ==
  {"idle", "attach", "snap", "handled", "left", "start", "stop", "announce", "gone"}
TickerPlaces ==
  {"loop", "due", "write", "publish", "look", "stop", "clear", "announce", "gone", "crashed",
   "raised"}

ControlTypes ==
  /\ outputMode \in BOOLEAN /\ active \in BOOLEAN /\ stopSignal \in BOOLEAN
  /\ announced \in BOOLEAN
  /\ main \in MainPlaces /\ ticker \in TickerPlaces
  /\ why \in {"key", "toggle", "leave", "quit"}
  /\ late \in Nat

\* The ticker is past the check of its loop and may still tell a line.
Moving == ticker \in {"due", "write", "publish"}

\* Where an active playback can find the keyboard thread, and in which mode.
ReadingInv ==
  /\ main \in {"start", "idle"} /\ active => outputMode /\ composer = "none"
  /\ main = "handled" /\ why = "toggle" => outputMode /\ composer = "none"
  /\ active => main \notin {"attach", "snap", "announce", "gone"}
  /\ main \in {"attach", "snap"} => why = "key"
  /\ main = "start" => outputMode /\ composer = "none" /\ why = "key"

\* An end that has not been reported is on its way to be.
ToldInv ==
  /\ ~active /\ announced => main = "announce" \/ ticker = "announce"
  /\ ~active /\ main = "start" => ticker = "announce"

\* A playback is ended together with the ticker: from then on no line follows
\* the one that was on its way.
QuietInv ==
  /\ main = "announce" \/ ticker = "announce" => stopSignal
  /\ Moving /\ ~stopSignal => active
  /\ active /\ ~stopSignal /\ ~announced => main = "start"
  /\ late > 0 => late = 1 /\ stopSignal /\ ~Moving

IInv == ControlTypes /\ ReadingInv /\ ToldInv /\ QuietInv
-----------------------------------------------------------------------------
(* The invariant. *)

\* It holds at first.
LEMMA InitInv == Init => IInv
<1> SUFFICES ASSUME Init PROVE IInv
  OBVIOUS
<1>1. ControlTypes
  BY DEF Init, ControlTypes, MainPlaces, TickerPlaces
<1>2. ReadingInv /\ ToldInv /\ QuietInv
  BY DEF Init, ReadingInv, ToldInv, QuietInv, Moving
<1> QED
  BY <1>1, <1>2 DEF IInv

\* Every step keeps it.
LEMMA StepInv == IInv /\ [Next]_vars => IInv'
<1> SUFFICES ASSUME IInv, [Next]_vars PROVE IInv'
  OBVIOUS
<1> USE DEF IInv
<1>1. CASE ReadingKey
  BY <1>1 DEF ReadingKey, ControlTypes, MainPlaces, TickerPlaces, ReadingInv, ToldInv,
         QuietInv, Moving, driver, thread, cursor, search, Handled, Move,
         BeginComposer, NextMatch
<1>2. CASE ComposerKey
  BY <1>2 DEF ComposerKey, ControlTypes, MainPlaces, TickerPlaces, ReadingInv, ToldInv,
         QuietInv, Moving, driver, thread, cursor, search, Handled
<1>3. CASE PressToggle
  BY <1>3 DEF PressToggle, ControlTypes, MainPlaces, TickerPlaces, ReadingInv, ToldInv,
         QuietInv, Moving, driver, thread, cursor, search, Handled
<1>4. CASE PressView
  BY <1>4 DEF PressView, ControlTypes, MainPlaces, TickerPlaces, ReadingInv, ToldInv,
         QuietInv, Moving, driver, thread, cursor, search
<1>5. CASE PressLeave
  BY <1>5 DEF PressLeave, ControlTypes, MainPlaces, TickerPlaces, ReadingInv, ToldInv,
         QuietInv, Moving, driver, thread, cursor, search
<1>6. CASE Quit
  BY <1>6 DEF Quit, ControlTypes, MainPlaces, TickerPlaces, ReadingInv, ToldInv,
         QuietInv, Moving, driver, thread, cursor, search
<1>7. CASE Attach
  BY <1>7 DEF Attach, ControlTypes, MainPlaces, TickerPlaces, ReadingInv, ToldInv,
         QuietInv, Moving, driver, thread, cursor, search, AttachBuffer, ClearComposer
<1>8. CASE Snap
  <2>1. ControlTypes'
    BY <1>8 DEF Snap, ControlTypes, MainPlaces, TickerPlaces, driver, thread, cursor,
           search, SnapToEnd
  <2>2. ReadingInv'
    BY <1>8 DEF Snap, ControlTypes, MainPlaces, ReadingInv, driver, thread, cursor,
           search, SnapToEnd
  <2>3. ToldInv'
    BY <1>8 DEF Snap, ControlTypes, MainPlaces, ToldInv, ReadingInv, driver, thread,
           cursor, search, SnapToEnd
  <2>4. QuietInv'
    BY <1>8 DEF Snap, ControlTypes, MainPlaces, QuietInv, ToldInv, ReadingInv, Moving,
           driver, thread, cursor, search, SnapToEnd
  <2> QED
    BY <2>1, <2>2, <2>3, <2>4
<1>9. CASE OnFocusChanged
  BY <1>9 DEF OnFocusChanged, ControlTypes, MainPlaces, TickerPlaces, ReadingInv,
         ToldInv, QuietInv, Moving, driver, thread, cursor, search
<1>10. CASE OnOtherKey
  BY <1>10 DEF OnOtherKey, ControlTypes, MainPlaces, TickerPlaces, ReadingInv, ToldInv,
         QuietInv, Moving, driver, thread, cursor, search
<1>11. CASE OnToggle
  BY <1>11 DEF OnToggle, ControlTypes, MainPlaces, TickerPlaces, ReadingInv, ToldInv,
         QuietInv, Moving, driver, thread, cursor, search
<1>12. CASE PublishStarted
  BY <1>12 DEF PublishStarted, ControlTypes, MainPlaces, TickerPlaces, ReadingInv,
         ToldInv, QuietInv, Moving, driver, thread, cursor, search
<1>13. CASE StopByKey
  BY <1>13 DEF StopByKey, ControlTypes, MainPlaces, TickerPlaces, ReadingInv, ToldInv,
         QuietInv, Moving, driver, thread, cursor, search, Halt
<1>14. CASE PublishStopped
  <2>1. ControlTypes'
    BY <1>14 DEF PublishStopped, ControlTypes, MainPlaces, TickerPlaces, driver,
           thread, cursor, search
  <2>2. ReadingInv'
    BY <1>14 DEF PublishStopped, ControlTypes, MainPlaces, ReadingInv, driver, thread,
           cursor, search
  <2>3. ToldInv'
    BY <1>14 DEF PublishStopped, ControlTypes, MainPlaces, ToldInv, ReadingInv, driver,
           thread, cursor, search
  <2>4. QuietInv'
    BY <1>14 DEF PublishStopped, ControlTypes, MainPlaces, QuietInv, ToldInv,
           ReadingInv, Moving, driver, thread, cursor, search
  <2> QED
    BY <2>1, <2>2, <2>3, <2>4
<1>15. CASE Tick
  BY <1>15 DEF Tick, ControlTypes, MainPlaces, TickerPlaces, ReadingInv, ToldInv,
         QuietInv, Moving, driver, thread, cursor, search, TickerGoes
<1>16. CASE SeekDown
  BY <1>16 DEF SeekDown, ControlTypes, MainPlaces, TickerPlaces, ReadingInv, ToldInv,
         QuietInv, Moving, driver, thread, cursor, search, TickerGoes
<1>17. CASE WriteLine
  BY <1>17 DEF WriteLine, ControlTypes, MainPlaces, TickerPlaces, ReadingInv, ToldInv,
         QuietInv, Moving, driver, thread, cursor, search, TickerGoes
<1>18. CASE \E bad \in BOOLEAN : PublishLine(bad)
  BY <1>18 DEF PublishLine, ControlTypes, MainPlaces, TickerPlaces, ReadingInv,
         ToldInv, QuietInv, Moving, driver, thread, cursor, search, Dispatching,
         TickerGoes
<1>19. CASE LookAhead
  BY <1>19 DEF LookAhead, ControlTypes, MainPlaces, TickerPlaces, ReadingInv, ToldInv,
         QuietInv, Moving, driver, thread, cursor, search, TickerGoes
<1>20. CASE StopAtEnd
  BY <1>20 DEF StopAtEnd, ControlTypes, MainPlaces, TickerPlaces, ReadingInv, ToldInv,
         QuietInv, Moving, driver, thread, cursor, search, TickerGoes
<1>21. CASE ClearAtEnd
  BY <1>21 DEF ClearAtEnd, ControlTypes, MainPlaces, TickerPlaces, ReadingInv, ToldInv,
         QuietInv, Moving, driver, thread, cursor, search, Halt, TickerGoes
<1>22. CASE \E bad \in BOOLEAN : PublishEnd(bad)
  <2>1. ticker' \in TickerPlaces
    BY <1>22 DEF PublishEnd, TickerGoes, TickerPlaces
  <2>2. ControlTypes'
    <3>1. /\ UNCHANGED <<outputMode, active, stopSignal, main, why, composer, starts>>
          /\ announced' = FALSE /\ late' = 0
      BY <1>22 DEF PublishEnd, TickerGoes, cursor, search
    <3> QED BY <2>1, <3>1 DEF ControlTypes
  <2>3. ReadingInv'
    BY <1>22 DEF PublishEnd, ControlTypes, MainPlaces, ReadingInv, driver, thread,
           cursor, search, Dispatching, TickerGoes
  <2>4. ToldInv'
    BY <1>22 DEF PublishEnd, ControlTypes, MainPlaces, ToldInv, ReadingInv, driver,
           thread, cursor, search, Dispatching, TickerGoes
  <2>5. QuietInv'
    BY <1>22 DEF PublishEnd, ControlTypes, MainPlaces, QuietInv, ToldInv, ReadingInv,
           Moving, driver, thread, cursor, search, Dispatching, TickerGoes
  <2> QED
    BY <2>2, <2>3, <2>4, <2>5
<1>23. CASE Chunk
  BY <1>23 DEF Chunk, ControlTypes, MainPlaces, TickerPlaces, ReadingInv, ToldInv,
         QuietInv, Moving, driver, thread, cursor, search
<1>24. CASE UNCHANGED vars
  BY <1>24 DEF vars, ControlTypes, MainPlaces, TickerPlaces, ReadingInv, ToldInv,
         QuietInv, Moving, driver, thread, cursor, search
<1> QED
  BY <1>1, <1>2, <1>3, <1>4, <1>5, <1>6, <1>7, <1>8, <1>9, <1>10, <1>11, <1>12, <1>13, <1>14, <1>15, <1>16, <1>17, <1>18, <1>19, <1>20, <1>21, <1>22, <1>23, <1>24 DEF
         Next, Press, Keyboard, Ticker

-----------------------------------------------------------------------------
(* The theorems. *)

\* The parts of the invariant hold each other up and hold always: a tick only
\* happens in a playback nobody ended, an end is published by who made it.
THEOREM Invariance == Spec => []IInv
BY InitInv, StepInv, PTL DEF Spec

\* A playback only runs over an output that is being read, with nothing half
\* typed, once the key at hand is dealt with (OutputPlaybackDriver._active
\* against FocusState.mode and OutputCursor._composer_mode).
THEOREM OnlyPlaysWhatIsRead == Spec => []PlaysWhatIsRead
<1>1. IInv => PlaysWhatIsRead
  BY DEF IInv, ReadingInv, PlaysWhatIsRead
<1> QED
  BY <1>1, Invariance, PTL

\* After OUTPUT_PLAYBACK_STOPPED the ticker tells one more line at most, though
\* it takes no lock between its check and its publish.
THEOREM OneLateLine == Spec => []QuietAfterStop
<1>1. IInv => QuietAfterStop
  BY DEF IInv, ControlTypes, QuietInv, QuietAfterStop
<1> QED
  BY <1>1, Invariance, PTL

\* A playback that is over has been reported as stopped, whether a key, the end
\* of the output or both at once ended it.
THEOREM NoSilentEnd == Spec => []EveryEndIsTold
<1>1. IInv => EveryEndIsTold
  BY DEF IInv, ToldInv, EveryEndIsTold
<1> QED
  BY <1>1, Invariance, PTL
-----------------------------------------------------------------------------
(* The first playback tells every line. *)

\* What the cursor holds: numbers that can be lines, and what is typed.
CursorTypes ==
  /\ lines \in [Cells -> Seq(SUBSET Chars)]
  /\ reading \in Cells \cup {NoCell}
  /\ position \in Nat /\ target \in Nat /\ origin \in Nat /\ starts \in Nat
  /\ composer \in {"none", "search", "goto"}
  /\ composer = "goto" => typed \in Seq(Nat)
  /\ matches \in SUBSET Nat

\* Until the first playback is over, and between keys while it lasts.
AtFirst == starts = 0 \/ (starts = 1 /\ active /\ main = "idle")

\* The last line told is the one the cursor is at; and while the ticker is on its
\* way to the next one, it is the one before.
LastTold ==
  /\ ticker # "announce"
  /\ ticker \notin {"write", "publish"} /\ main \notin {"attach", "snap"} /\ position # 0
       => told = <<reading, position>>
  /\ ticker \in {"loop", "due"} /\ active => position \in 1..Len(Buffer) - 1
  /\ ticker = "write" =>
       target = position + 1 /\ target \in 1..Len(Buffer) /\ told = <<reading, position>>
  /\ ticker = "publish" => position = target /\ told = <<reading, target - 1>>

FirstInv ==
  /\ starts = 0 => (active <=> main = "start")
  /\ starts = 0 => ticker \in (IF active THEN {"loop", "due", "write", "publish", "gone"}
                                         ELSE {"loop", "gone"})
  /\ AtFirst => LastTold

TellInv == CursorTypes /\ FirstInv

\* The buffer that is read is a sequence, and the lines of the others are too.
LEMMA BufferIsSeq ==
  ASSUME CursorTypes
  PROVE  Buffer \in Seq(SUBSET Chars) /\ Len(Buffer) \in Nat /\ DOMAIN Buffer = 1..Len(Buffer)
<1>1. Buffer \in Seq(SUBSET Chars)
  BY DEF CursorTypes, Buffer
<1> HIDE DEF Buffer
<1> QED BY <1>1

\* Wherever a move aims, it ends on a line, which is then the last one told.
LEMMA SeekTells ==
  ASSUME CursorTypes, NEW to \in Int, Seek(to)
  PROVE  /\ position' \in Nat
         /\ (position # 0 => told = <<reading, position>>)
              => (position' # 0 => told' = <<reading, position'>>)
<1>1. Len(Buffer) \in Nat
  BY BufferIsSeq
<1>2. position \in Nat
  BY DEF CursorTypes
<1>3. Clamp(to, Len(Buffer)) \in Nat
  BY <1>1 DEF Clamp, Greater, Lesser
<1> QED BY <1>2, <1>3 DEF Seek

\* It holds at first.
LEMMA TellInit == Init => TellInv
<1> SUFFICES ASSUME Init PROVE TellInv
  OBVIOUS
<1>1. CursorTypes
  BY DEF Init, CursorInit, CursorTypes
<1>2. FirstInv
  BY DEF Init, CursorInit, FirstInv, AtFirst, LastTold
<1> QED BY <1>1, <1>2 DEF TellInv

\* A key that may move the cursor keeps what it holds and what was told.
LEMMA ReadingTells ==
  ASSUME CursorTypes, ReadingKey
  PROVE  /\ CursorTypes'
         /\ (position # 0 => told = <<reading, position>>)
              => (position' # 0 => told' = <<reading', position'>>)
<1> USE DEF driver, thread, cursor, search, Handled
<1>1. UNCHANGED <<lines, reading, target, starts>>
  BY DEF ReadingKey, Move, BeginComposer, NextMatch
<1>2. CASE Move
  <2>1. PICK to \in {position - 1, position + 1, position - PageSize, position + PageSize, 1,
                     Len(Buffer)} : Seek(to)
    BY <1>2 DEF Move
  <2>2. to \in Int
    BY BufferIsSeq, CursorAssumption DEF CursorTypes
  <2>3. UNCHANGED search
    BY <1>2 DEF Move
  <2> QED BY <1>1, <2>1, <2>2, <2>3, SeekTells DEF CursorTypes
<1>3. ASSUME NEW kind \in {"search", "goto"}, BeginComposer(kind)
      PROVE  /\ CursorTypes' /\ UNCHANGED <<position, told>>
  <2>1. UNCHANGED <<position, told>>
    BY <1>3 DEF BeginComposer
  <2>2. CASE Buffer = <<>>
    BY <1>1, <1>3, <2>2 DEF BeginComposer, CursorTypes
  <2>3. CASE Buffer # <<>>
    <3>1. composer' = kind /\ origin' = position /\ matches' \in {{}, matches}
      BY <1>3, <2>3 DEF BeginComposer
    <3>2. typed' \in Seq(Nat)
      BY <1>3, <2>3 DEF BeginComposer
    <3> QED BY <1>1, <2>1, <3>1, <3>2 DEF CursorTypes
  <2> QED BY <2>1, <2>2, <2>3
<1>4. CASE NextMatch
  <2>1. UNCHANGED <<composer, typed, origin, matches>>
    BY <1>4 DEF NextMatch
  <2>2. CASE matches = {}
    BY <1>1, <1>4, <2>1, <2>2 DEF NextMatch, CursorTypes
  <2>3. CASE matches # {}
    <3>1. PICK i \in matches : Seek(i)
      BY <1>4, <2>3 DEF NextMatch
    <3>2. i \in Int
      BY DEF CursorTypes
    <3> QED BY <1>1, <2>1, <3>1, <3>2, SeekTells DEF CursorTypes
  <2> QED BY <2>2, <2>3
<1> QED BY <1>1, <1>2, <1>3, <1>4 DEF ReadingKey

\* A search jumps to its first hit, and tells it.
LEMMA QueryTells ==
  ASSUME CursorTypes, NEW query, TypeQuery(query)
  PROVE  /\ matches' \in SUBSET Nat /\ position' \in Nat
         /\ (position # 0 => told = <<reading, position>>)
              => (position' # 0 => told' = <<reading, position'>>)
<1>1. Hits(Buffer, query) \in SUBSET Nat
  BY BufferIsSeq DEF Hits
<1>2. matches' \in SUBSET Nat
  BY <1>1 DEF TypeQuery
<1>3. CASE matches' = {}
  BY <1>2, <1>3 DEF TypeQuery, CursorTypes
<1>4. CASE matches' # {}
  <2>1. PICK i \in First(matches') : Seek(i)
    BY <1>4 DEF TypeQuery
  <2>2. i \in Int
    BY <1>2 DEF First
  <2> QED BY <1>2, <2>1, <2>2, SeekTells
<1> QED BY <1>3, <1>4

\* So does a key of the composer.
LEMMA ComposerTells ==
  ASSUME CursorTypes, ComposerKey
  PROVE  /\ CursorTypes'
         /\ (position # 0 => told = <<reading, position>>)
              => (position' # 0 => told' = <<reading', position'>>)
<1> USE DEF driver, thread, cursor, search, Handled
<1>1. UNCHANGED <<lines, reading, target, starts>>
  BY DEF ComposerKey, Extend, Backspace, Commit, Cancel
<1>2. Numbers \subseteq Nat
  BY BufferIsSeq DEF Numbers
<1>3. CASE Extend
  <2>1. CASE composer = "search"
    <3>1. PICK ch \in Chars : TypeQuery(Append(typed, ch))
      BY <1>3, <2>1 DEF Extend
    <3>2. UNCHANGED <<composer, origin>>
      BY <1>3 DEF Extend
    <3> QED BY <1>1, <2>1, <3>1, <3>2, QueryTells DEF CursorTypes
  <2>2. CASE composer # "search"
    <3>1. UNCHANGED <<composer, origin, position, told, matches>>
      BY <1>3, <2>2 DEF Extend
    <3>2. PICK n \in Nat : typed' = <<n>>
      BY <1>2, <1>3, <2>2 DEF Extend
    <3> QED BY <1>1, <3>1, <3>2 DEF CursorTypes
  <2> QED BY <2>1, <2>2
<1>4. CASE Backspace
  <2>1. UNCHANGED <<composer, origin>>
    BY <1>4 DEF Backspace
  <2>2. CASE typed' = typed /\ UNCHANGED <<position, told, matches>>
    BY <1>1, <2>1, <2>2 DEF CursorTypes
  <2>3. CASE composer = "search" /\ TypeQuery(Front(typed))
    BY <1>1, <2>1, <2>3, QueryTells DEF CursorTypes
  <2>4. CASE composer = "goto" /\ UNCHANGED <<position, told, matches>>
             /\ (typed' = <<>> \/ \E n \in Numbers : typed' = <<n>>)
    <3>1. ASSUME NEW n \in Numbers PROVE <<n>> \in Seq(Nat)
      BY <1>2
    <3>2. <<>> \in Seq(Nat)
      OBVIOUS
    <3>3. typed' \in Seq(Nat)
      BY <2>4, <3>1, <3>2, Zenon
    <3> QED BY <1>1, <2>1, <2>4, <3>3 DEF CursorTypes
  <2> QED BY <1>4, <2>2, <2>3, <2>4 DEF Backspace
<1>5. CASE Commit
  <2>1. composer' = "none" /\ origin' = 0 /\ UNCHANGED matches
    BY <1>5 DEF Commit
  <2>2. CASE UNCHANGED <<position, told>>
    BY <1>1, <2>1, <2>2 DEF CursorTypes
  <2>3. CASE ~UNCHANGED <<position, told>>
    <3>1. composer = "goto" /\ typed # <<>> /\ Seek(typed[1])
      BY <1>5, <2>3 DEF Commit, CursorTypes, ComposerKey
    <3>2. typed[1] \in Int
      BY <3>1 DEF CursorTypes
    <3> QED BY <1>1, <2>1, <3>1, <3>2, SeekTells DEF CursorTypes
  <2> QED BY <2>2, <2>3
<1>6. CASE Cancel
  <2>1. composer' = "none" /\ origin' = 0 /\ matches' = {}
    BY <1>6 DEF Cancel, ClearComposer
  <2>2. CASE origin = 0
    BY <1>1, <1>6, <2>1, <2>2 DEF Cancel, CursorTypes
  <2>3. CASE origin # 0
    <3>1. origin \in Int /\ Seek(origin)
      BY <1>6, <2>3 DEF Cancel, CursorTypes
    <3> QED BY <1>1, <2>1, <3>1, SeekTells DEF CursorTypes
  <2> QED BY <2>2, <2>3
<1> QED BY <1>3, <1>4, <1>5, <1>6 DEF ComposerKey

\* What the cursor holds stays of its type, whoever moves it.
LEMMA TypesStep ==
  ASSUME CursorTypes, [Next]_vars
  PROVE  CursorTypes'
<1> USE DEF driver, thread, cursor, search
<1>1. CASE ReadingKey
  BY <1>1, ReadingTells
<1>2. CASE ComposerKey
  BY <1>2, ComposerTells
<1>3. CASE PressToggle \/ PressView \/ PressLeave \/ Quit \/ OnFocusChanged \/ OnOtherKey
           \/ OnToggle \/ StopByKey \/ PublishStopped \/ Tick \/ LookAhead \/ StopAtEnd
           \/ ClearAtEnd \/ \E bad \in BOOLEAN : PublishEnd(bad)
  <2>1. UNCHANGED <<lines, reading, position, target, origin, starts, composer, typed, matches>>
    BY <1>3 DEF PressToggle, PressView, PressLeave, Quit, OnFocusChanged, OnOtherKey,
       OnToggle, StopByKey, PublishStopped, Tick, LookAhead, StopAtEnd, ClearAtEnd,
       PublishEnd, Handled, TickerGoes
  <2> QED BY <2>1 DEF CursorTypes
<1>4. CASE Attach
  BY <1>4 DEF Attach, AttachBuffer, ClearComposer, CursorTypes
<1>5. CASE Snap
  <2>1. position' \in Nat
    BY <1>5, BufferIsSeq DEF Snap, SnapToEnd
  <2> QED BY <1>5, <2>1 DEF Snap, SnapToEnd, CursorTypes
<1>6. CASE PublishStarted
  BY <1>6 DEF PublishStarted, CursorTypes
<1>7. CASE SeekDown
  <2>1. target' \in Nat
    BY <1>7, BufferIsSeq DEF SeekDown, Clamp, Greater, Lesser, CursorTypes
  <2> QED BY <1>7, <2>1 DEF SeekDown, TickerGoes, CursorTypes
<1>8. CASE WriteLine
  BY <1>8 DEF WriteLine, TickerGoes, CursorTypes
<1>9. CASE \E bad \in BOOLEAN : PublishLine(bad)
  BY <1>9 DEF PublishLine, TickerGoes, CursorTypes
<1>10. CASE Chunk
  <2>1. PICK c \in Cells, text \in SUBSET Chars : lines' = [lines EXCEPT ![c] = Append(@, text)]
    BY <1>10 DEF Chunk, Record
  <2>2. lines[c] \in Seq(SUBSET Chars)
    BY DEF CursorTypes
  <2>3. Append(lines[c], text) \in Seq(SUBSET Chars)
    BY <2>2
  <2>4. lines' \in [Cells -> Seq(SUBSET Chars)]
    BY <2>1, <2>3 DEF CursorTypes
  <2> QED BY <1>10, <2>4 DEF Chunk, CursorTypes
<1>11. CASE UNCHANGED vars
  BY <1>11 DEF vars, CursorTypes
<1> QED
  BY <1>1, <1>2, <1>3, <1>4, <1>5, <1>6, <1>7, <1>8, <1>9, <1>10, <1>11
     DEF Next, Press, Keyboard, Ticker

\* A step of the keyboard before the first playback or after it, which leaves the
\* ticker where it is and the line told the one the cursor is at.
LEMMA KeyboardTells ==
  ASSUME FirstInv, UNCHANGED <<ticker, active, starts>>, main # "start", main' # "start",
         main \in {"attach", "snap"} => main' \in {"snap", "handled"},
         starts = 0 \/ ~active \/ main' # "idle",
         main \notin {"attach", "snap"} /\ (position # 0 => told = <<reading, position>>)
           => (position' # 0 => told' = <<reading', position'>>),
         main = "snap" => (position' # 0 => told' = <<reading', position'>>),
         main = "attach" => main' = "snap"
  PROVE  FirstInv'
BY DEF FirstInv, AtFirst, LastTold

\* Every step keeps the line told in step with the cursor.
LEMMA FirstStep ==
  ASSUME IInv, TellInv, [Next]_vars
  PROVE  FirstInv'
<1> USE DEF TellInv, driver, thread, cursor, search
<1>0. CursorTypes'
  BY TypesStep
<1>1. CASE ReadingKey
  <2>1. main = "idle" /\ main' = "handled" /\ UNCHANGED <<ticker, active, starts>>
    BY <1>1 DEF ReadingKey, Handled
  <2> QED BY <1>1, <2>1, ReadingTells, KeyboardTells
<1>2. CASE ComposerKey
  <2>1. main = "idle" /\ main' = "handled" /\ UNCHANGED <<ticker, active, starts>>
    BY <1>2 DEF ComposerKey, Handled
  <2> QED BY <1>2, <2>1, ComposerTells, KeyboardTells
<1>3. CASE PressToggle \/ PressView \/ PressLeave \/ Quit
  <2>1. main = "idle" /\ main' \in {"handled", "attach", "left", "stop", "gone"}
        /\ UNCHANGED <<ticker, active, starts, reading, position, told>>
    BY <1>3 DEF PressToggle, PressView, PressLeave, Quit, Handled
  <2> QED BY <2>1, KeyboardTells
<1>4. CASE OnFocusChanged \/ OnOtherKey
  <2>1. main \in {"left", "handled"} /\ (main' = "idle" => ~active)
        /\ main' \in {"stop", "handled", "idle"}
        /\ UNCHANGED <<ticker, active, starts, reading, position, told>>
    BY <1>4 DEF OnFocusChanged, OnOtherKey
  <2> QED BY <2>1, KeyboardTells
<1>5. CASE Attach
  <2>1. main = "attach" /\ main' = "snap" /\ UNCHANGED <<ticker, active, starts>>
    BY <1>5 DEF Attach
  <2> QED BY <2>1, KeyboardTells
<1>6. CASE Snap
  <2>1. main = "snap" /\ main' = "handled" /\ UNCHANGED <<ticker, active, starts>>
    BY <1>6 DEF Snap
  <2>2. position' # 0 => told' = <<reading', position'>>
    BY <1>6, BufferIsSeq DEF Snap, SnapToEnd
  <2> QED BY <2>1, <2>2, KeyboardTells
<1>7. CASE OnToggle
  <2>1. UNCHANGED <<lines, reading, position, told, ticker, target, starts>> /\ main = "handled"
    BY <1>7 DEF OnToggle
  <2>2. Buffer' = Buffer
    BY <2>1 DEF Buffer
  <2>3. CASE active \/ ~HasMore
    <3>1. main' \in {"stop", "idle"} /\ active' = active /\ (main' = "idle" => ~active)
      BY <1>7, <2>3 DEF OnToggle, IInv, ControlTypes
    <3> QED BY <2>1, <3>1, KeyboardTells
  <2>4. CASE ~active /\ HasMore
    <3>1. main' = "start" /\ active' /\ active' \in BOOLEAN
      BY <1>7, <2>4 DEF OnToggle, IInv, ControlTypes
    <3>2. position \in 1..Len(Buffer) - 1
      BY <2>4, BufferIsSeq DEF HasMore, CursorTypes
    <3> HIDE DEF Buffer
    <3> QED BY <2>1, <2>2, <2>4, <3>1, <3>2 DEF FirstInv, AtFirst, LastTold
  <2> QED BY <2>3, <2>4
<1>8. CASE PublishStarted
  <2>1. main = "start" /\ main' = "idle" /\ starts' = starts + 1 /\ starts \in Nat
        /\ UNCHANGED <<lines, reading, position, told, ticker, target, active>>
    BY <1>8 DEF PublishStarted, CursorTypes
  <2>2. Buffer' = Buffer
    BY <2>1 DEF Buffer
  <2> HIDE DEF Buffer
  <2> QED BY <2>1, <2>2 DEF FirstInv, AtFirst, LastTold
<1>9. CASE StopByKey
  <2>1. main = "stop" /\ main' = "announce" /\ ~active' /\ active' \in BOOLEAN
        /\ UNCHANGED <<reading, position, told, ticker, starts>>
    BY <1>9 DEF StopByKey, Halt
  <2>2. starts = 0 => ~active
    BY <2>1 DEF FirstInv
  <2>3. starts = 0 => ticker \in {"loop", "gone"}
    BY <2>2 DEF FirstInv
  <2> QED BY <2>1, <2>2, <2>3 DEF FirstInv, AtFirst, LastTold
<1>10. CASE PublishStopped
  <2>1. main = "announce" /\ main' \in {"handled", "gone", "idle"} /\ ~active
        /\ UNCHANGED <<reading, position, told, ticker, active, starts>>
    BY <1>10 DEF PublishStopped, IInv, ReadingInv
  <2> QED BY <2>1, KeyboardTells
<1>11. CASE Tick
  <2>1. UNCHANGED <<lines, reading, position, told, target, active, starts, main>>
        /\ ticker = "loop" /\ (ticker' = "gone" \/ (active /\ ticker' = "due"))
    BY <1>11 DEF Tick, TickerGoes
  <2>2. Buffer' = Buffer
    BY <2>1 DEF Buffer
  <2> HIDE DEF Buffer
  <2> QED BY <2>1, <2>2 DEF FirstInv, AtFirst, LastTold
<1>12. CASE SeekDown
  <2>1. UNCHANGED <<lines, reading, position, told, active, starts, main>> /\ ticker = "due"
        /\ target' = Clamp(position + 1, Len(Buffer))
        /\ ticker' = (IF Buffer = <<>> THEN "stop"
                      ELSE IF target' = position THEN "look" ELSE "write")
    BY <1>12 DEF SeekDown, TickerGoes
  <2>2. Buffer' = Buffer
    BY <2>1 DEF Buffer
  <2>3. starts = 0 => active
    BY <2>1 DEF FirstInv
  <2>4. AtFirst => position \in 1..Len(Buffer) - 1 /\ told = <<reading, position>>
    <3> SUFFICES ASSUME AtFirst PROVE position \in 1..Len(Buffer) - 1 /\ told = <<reading, position>>
      OBVIOUS
    <3>1. active /\ main \notin {"attach", "snap"}
      BY <2>3 DEF AtFirst, FirstInv
    <3>2. LastTold
      BY DEF FirstInv
    <3> QED BY <2>1, <3>1, <3>2, BufferIsSeq DEF LastTold
  <2>5. AtFirst => target' = position + 1 /\ target' \in 1..Len(Buffer) /\ ticker' = "write"
    BY <2>1, <2>4, BufferIsSeq DEF Clamp, Greater, Lesser
  <2> HIDE DEF Buffer
  <2>6. AtFirst' = AtFirst
    BY <2>1 DEF AtFirst
  <2> QED BY <2>1, <2>2, <2>3, <2>4, <2>5, <2>6 DEF FirstInv, AtFirst, LastTold
<1>13. CASE WriteLine
  <2>1. UNCHANGED <<lines, reading, told, target, active, starts, main>> /\ ticker = "write"
        /\ position' = target
        /\ ticker' = (IF target \in DOMAIN Buffer THEN "publish" ELSE "crashed")
    BY <1>13 DEF WriteLine, TickerGoes
  <2>2. AtFirst' = AtFirst
    BY <2>1 DEF AtFirst
  <2>3. starts = 0 => active
    BY <2>1 DEF FirstInv
  <2>4. AtFirst => ticker' = "publish" /\ told = <<reading, target - 1>>
    <3> SUFFICES ASSUME AtFirst PROVE ticker' = "publish" /\ told = <<reading, target - 1>>
      OBVIOUS
    <3>1. target = position + 1 /\ target \in 1..Len(Buffer) /\ told = <<reading, position>>
      BY <2>1 DEF FirstInv, LastTold
    <3>2. position = target - 1
      BY <3>1 DEF CursorTypes
    <3> QED BY <2>1, <3>1, <3>2, BufferIsSeq
  <2> QED BY <2>1, <2>2, <2>3, <2>4 DEF FirstInv, AtFirst, LastTold
<1>14. CASE \E bad \in BOOLEAN : PublishLine(bad)
  <2>1. UNCHANGED <<reading, position, active, starts, main>> /\ ticker = "publish"
        /\ ticker' \in {"look", "raised"} /\ told' = <<reading, target>> /\ ~Dispatching
    BY <1>14 DEF PublishLine, TickerGoes
  <2>2. starts # 0
    <3>1. starts = 0 => main = "start" /\ why = "key"
      BY <2>1 DEF FirstInv, IInv, ReadingInv
    <3> QED BY <2>1, <3>1 DEF Dispatching
  <2> QED BY <2>1, <2>2 DEF FirstInv, AtFirst, LastTold
<1>15. CASE LookAhead
  <2>1. UNCHANGED <<lines, reading, position, told, target, active, starts, main>>
        /\ ticker = "look" /\ ticker' = (IF HasMore THEN "loop" ELSE "stop")
    BY <1>15 DEF LookAhead, TickerGoes
  <2>2. Buffer' = Buffer
    BY <2>1 DEF Buffer
  <2>3. starts # 0
    BY <2>1 DEF FirstInv
  <2>4. HasMore => position \in 1..Len(Buffer) - 1
    BY BufferIsSeq DEF HasMore, CursorTypes
  <2> HIDE DEF Buffer
  <2> QED BY <2>1, <2>2, <2>3, <2>4 DEF FirstInv, AtFirst, LastTold
<1>16. CASE StopAtEnd
  <2>1. UNCHANGED <<reading, position, told, active, starts, main>>
        /\ ticker = "stop" /\ ticker' = (IF active THEN "clear" ELSE "loop")
    BY <1>16 DEF StopAtEnd, TickerGoes
  <2>2. starts # 0
    BY <2>1 DEF FirstInv
  <2> QED BY <2>1, <2>2 DEF FirstInv, AtFirst, LastTold
<1>17. CASE ClearAtEnd
  <2>1. starts' = starts /\ ~active' /\ ticker = "clear"
    BY <1>17 DEF ClearAtEnd, TickerGoes, Halt
  <2>2. starts # 0
    BY <2>1 DEF FirstInv
  <2> QED BY <2>1, <2>2 DEF FirstInv, AtFirst
<1>18. CASE \E bad \in BOOLEAN : PublishEnd(bad)
  <2>1. UNCHANGED <<reading, position, told, active, starts, main>>
        /\ ticker = "announce" /\ ticker' \in {"loop", "raised"}
    BY <1>18 DEF PublishEnd, TickerGoes
  <2>2. starts # 0
    BY <2>1 DEF FirstInv
  <2> QED BY <2>1, <2>2 DEF FirstInv, AtFirst, LastTold
<1>19. CASE Chunk
  <2>1. UNCHANGED <<reading, position, told, ticker, target, active, starts, main>>
    BY <1>19 DEF Chunk
  <2>2. Len(Buffer) <= Len(Buffer')
    <3>1. PICK c \in Cells, text \in SUBSET Chars : lines' = [lines EXCEPT ![c] = Append(@, text)]
      BY <1>19 DEF Chunk, Record
    <3>2. lines[c] \in Seq(SUBSET Chars)
      BY DEF CursorTypes
    <3>3. Len(lines'[c]) = Len(lines[c]) + 1
      BY <3>1, <3>2 DEF CursorTypes
    <3>4. \A d \in Cells : Len(lines[d]) <= Len(lines'[d])
      BY <3>1, <3>2, <3>3 DEF CursorTypes
    <3> QED BY <2>1, <3>4 DEF Buffer, CursorTypes
  <2>3. Len(Buffer) \in Nat /\ Len(Buffer') \in Nat
    BY <1>0, BufferIsSeq DEF Buffer, CursorTypes
  <2> HIDE DEF Buffer
  <2> QED BY <2>1, <2>2, <2>3 DEF FirstInv, AtFirst, LastTold
<1>20. CASE UNCHANGED vars
  BY <1>20 DEF vars, FirstInv, AtFirst, LastTold, Buffer
<1> QED
  BY <1>1, <1>2, <1>3, <1>4, <1>5, <1>6, <1>7, <1>8, <1>9, <1>10, <1>11, <1>12, <1>13,
     <1>14, <1>15, <1>16, <1>17, <1>18, <1>19, <1>20 DEF Next, Press, Keyboard, Ticker

\* Through the first playback the line told and the cursor go together, though keyboard
\* and ticker move them in two steps each and share no lock (OutputCursor._seek).
THEOREM TellInvariance == Spec => []TellInv
<1>1. IInv /\ TellInv /\ [Next]_vars => TellInv'
  <2> SUFFICES ASSUME IInv, TellInv, [Next]_vars PROVE TellInv'
    OBVIOUS
  <2> QED BY TypesStep, FirstStep DEF TellInv
<1> QED BY <1>1, TellInit, Invariance, PTL DEF Spec

\* The first playback tells the lines one after the other and leaves none out: what
\* the ticker publishes next is the line after the last one told, for any output
\* that grows while it is played (OutputPlaybackDriver.step).
THEOREM NoLineIsSkipped == Spec => TellsEveryLine
<1>1. IInv /\ TellInv /\ [Next]_vars =>
        [ticker = "publish" /\ ticker' # "publish" /\ active /\ main = "idle" /\ starts = 1
           => told' = <<told[1], told[2] + 1>>]_vars
  <2> SUFFICES ASSUME IInv, TellInv, [Next]_vars, ticker = "publish", ticker' # "publish",
                      active, main = "idle", starts = 1
               PROVE  told' = <<told[1], told[2] + 1>>
    OBVIOUS
  <2>1. \E bad \in BOOLEAN : PublishLine(bad)
    BY DEF Next, Press, Keyboard, Ticker, ReadingKey, ComposerKey, PressToggle, PressView,
       PressLeave, Quit, Attach, Snap, OnFocusChanged, OnOtherKey, OnToggle, PublishStarted,
       StopByKey, PublishStopped, Tick, SeekDown, WriteLine, LookAhead, StopAtEnd,
       ClearAtEnd, PublishEnd, Chunk, vars, thread, Handled, TickerGoes
  <2>2. told = <<reading, target - 1>> /\ target \in Nat
    BY DEF TellInv, FirstInv, AtFirst, LastTold, CursorTypes
  <2>3. told[1] = reading /\ told[2] + 1 = target
    BY <2>2
  <2> QED BY <2>1, <2>3 DEF PublishLine
<1> QED BY <1>1, Invariance, TellInvariance, PTL DEF Spec, TellsEveryLine
-----------------------------------------------------------------------------
(* The event log viewer. *)

Types == {"key", "action", "spoken", "focus", "submit", "output"}

Entries ==
  [serial : Nat, type : Types, binding : BindingIds \cup {NoBinding}]

LogTypes ==
  /\ ring \in Seq(Entries) /\ Len(ring) <= MaxEntries
  /\ serial \in Nat /\ focus \in Nat /\ loaded \in Nat
  /\ heard \in [before : Nat, last : Nat]

\* The ring has the latest events, and no gap.
RingInv == \A i \in 1 .. Len(ring) : ring[i].serial + Len(ring) = serial + i

\* Up has found an entry to leave, and the worker takes the focus nowhere but
\* to another.
LeavingInv ==
  /\ wpc = "follow" => ring # <<>>
  /\ kpc = "load_up" => focus > 0
  /\ kpc = "store_up" => loaded > 0

\* Where the focus is there is no entry older than the n-th event.
NotBefore(n) == n <= serial /\ (focus # 0 => n + Len(ring) <= serial + focus)

\* What was announced is not newer than what the focus is on, unless a key has
\* moved the focus and is about to announce the entry it has found.
HeardInv ==
  /\ heard.last <= serial
  /\ kpc \notin {"tell_up", "tell_down"} => NotBefore(heard.last)

LogInv == LogTypes /\ RingInv /\ LeavingInv /\ HeardInv
-----------------------------------------------------------------------------
\* An event takes the place after the last; a full ring forgets the oldest.
LEMMA PushIsLast ==
  ASSUME LogTypes, RingInv, NEW type \in Types, NEW b \in BindingIds \cup {NoBinding},
         serial' = serial + 1, ring' = Pushed(Entry(serial + 1, type, b))
  PROVE  /\ ring' \in Seq(Entries) /\ ring' # <<>>
         /\ Len(ring') <= MaxEntries
         /\ Len(ring') \in {Len(ring), Len(ring) + 1}
         /\ RingInv'
<1> DEFINE e == Entry(serial + 1, type, b)
<1>1. e \in Entries /\ e.serial = serial + 1
  BY DEF LogTypes, Entry, Entries
<1>2. ring \in Seq(Entries)
  BY DEF LogTypes
<1>3. Len(ring) \in Nat /\ serial \in Nat /\ MaxEntries \in Nat /\ MaxEntries > 0
      /\ Len(ring) <= MaxEntries
  BY <1>2, EventLogAssumption, LenProperties DEF LogTypes
<1>4. ring' = IF Len(ring) < MaxEntries THEN Append(ring, e) ELSE Append(Tail(ring), e)
  BY DEF Pushed
<1> HIDE DEF e
<1>5. ASSUME NEW i \in 1 .. Len(ring)
      PROVE  ring[i].serial \in Nat /\ ring[i].serial + Len(ring) = serial + i
  <2>1. ring[i] \in Entries
    BY <1>2, ElementOfSeq
  <2>2. ring[i].serial \in Nat
    BY <2>1 DEF Entries
  <2> QED
    BY <2>2 DEF RingInv
<1>6. CASE Len(ring) < MaxEntries
  <2>1. ring' = Append(ring, e)
    BY <1>4, <1>6
  <2>2. ring' \in Seq(Entries)
    BY <1>1, <1>2, <2>1, AppendProperties
  <2>3. Len(ring') = Len(ring) + 1
    BY <1>1, <1>2, <2>1, AppendProperties
  <2>4. ring'[Len(ring) + 1] = e
    BY <1>1, <1>2, <2>1, AppendProperties
  <2>5. ASSUME NEW i \in 1 .. Len(ring) PROVE ring'[i] = ring[i]
    BY <1>1, <1>2, <2>1, AppendProperties
  <2>6. ASSUME NEW i \in 1 .. Len(ring')
        PROVE  ring'[i].serial + Len(ring') = serial' + i
    <3>1. CASE i = Len(ring) + 1
      BY <1>1, <1>3, <2>3, <2>4, <3>1
    <3>2. CASE i # Len(ring) + 1
      <4> DEFINE n == Len(ring)
      <4>0. n \in Nat /\ i \in 1 .. n + 1 /\ i # n + 1
        BY <1>3, <2>3, <3>2
      <4>1. i \in 1 .. n
        <5> HIDE DEF n
        <5> QED BY <4>0
      <4>2. ring'[i] = ring[i]
        BY <2>5, <4>1
      <4>3. ring[i].serial \in Nat /\ ring[i].serial + Len(ring) = serial + i
        BY <1>5, <4>1
      <4> QED
        BY <1>3, <2>3, <4>2, <4>3
    <3> QED
      BY <3>1, <3>2
  <2> QED
    BY <1>3, <1>6, <2>2, <2>3, <2>6, EmptySeq DEF RingInv
<1>7. CASE ~(Len(ring) < MaxEntries)
  <2>1. ring' = Append(Tail(ring), e)
    BY <1>4, <1>7
  <2>2. Len(ring) = MaxEntries
    BY <1>3, <1>7
  <2>3. ring # <<>>
    BY <1>3, <2>2, EmptySeq
  <2> DEFINE rest == Tail(ring)
  <2>4. rest \in Seq(Entries)
    BY <1>2, <2>3, HeadTailProperties
  <2>5. Len(rest) = Len(ring) - 1
    BY <1>2, <2>3, HeadTailProperties
  <2>6. ASSUME NEW i \in 1 .. Len(rest) PROVE rest[i] = ring[i + 1]
    BY <1>2, <2>3, HeadTailProperties
  <2>7. ring' = Append(rest, e)
    BY <2>1
  <2> HIDE DEF rest
  <2>8. ring' \in Seq(Entries)
    BY <1>1, <2>4, <2>7, AppendProperties
  <2>9. Len(ring') = Len(rest) + 1
    BY <1>1, <2>4, <2>7, AppendProperties
  <2>10. ring'[Len(rest) + 1] = e
    BY <1>1, <2>4, <2>7, AppendProperties
  <2>11. ASSUME NEW i \in 1 .. Len(rest) PROVE ring'[i] = rest[i]
    BY <1>1, <2>4, <2>7, AppendProperties
  <2>12. Len(rest) \in Nat /\ Len(ring') = Len(ring)
    <3> DEFINE n == Len(ring)  m == Len(rest)  k == Len(ring')
    <3>1. n \in Nat /\ n > 0 /\ m = n - 1 /\ k = m + 1
      BY <1>3, <2>2, <2>5, <2>9
    <3>2. m \in Nat /\ k = n
      <4> HIDE DEF n, m, k
      <4> QED BY <3>1
    <3> QED BY <3>2
  <2>13. ASSUME NEW i \in 1 .. Len(ring')
        PROVE  ring'[i].serial + Len(ring') = serial' + i
    <3>1. CASE i = Len(rest) + 1
      BY <1>1, <1>3, <2>5, <2>10, <2>12, <3>1
    <3>2. CASE i # Len(rest) + 1
      <4> DEFINE n == Len(ring)  m == Len(rest)
      <4>0. n \in Nat /\ m = n - 1 /\ i \in 1 .. n /\ i # m + 1
        BY <1>3, <2>5, <2>12, <3>2
      <4>1. i \in 1 .. m /\ i + 1 \in 1 .. n
        <5> HIDE DEF n, m
        <5> QED BY <4>0
      <4>2. ring'[i] = ring[i + 1]
        BY <2>6, <2>11, <4>1
      <4>3. ring[i + 1].serial \in Nat /\ ring[i + 1].serial + Len(ring) = serial + (i + 1)
        BY <1>5, <4>1
      <4> QED
        BY <1>3, <2>12, <4>2, <4>3
    <3> QED
      BY <3>1, <3>2
  <2> QED
    BY <1>3, <2>2, <2>8, <2>12, <2>13, EmptySeq DEF RingInv
<1> QED
  BY <1>6, <1>7

Recorded ==
  /\ ring' \in Seq(Entries) /\ Len(ring') <= MaxEntries
  /\ serial' \in Nat /\ focus' \in Nat
  /\ RingInv'
  /\ wpc' = wpc
  /\ ring # <<>> => ring' # <<>>
  /\ \A n \in Nat : NotBefore(n) => NotBefore(n)'

\* Recording an event takes the ring and the focus on, and no entry in sight back.
LEMMA RecordKeeps ==
  ASSUME LogInv, NEW type \in Types, NEW b \in BindingIds \cup {NoBinding}, RecordEvent(type, b)
  PROVE  Recorded
<1>1. LogTypes /\ RingInv
  BY DEF LogInv
<1>2. /\ serial' = serial + 1 /\ ring' = Pushed(Entry(serial + 1, type, b))
      /\ focus' = IF AtTail THEN Len(ring') ELSE focus
      /\ wpc' = wpc
  BY DEF RecordEvent
<1>3. ring' \in Seq(Entries) /\ ring' # <<>> /\ Len(ring') <= MaxEntries /\ RingInv'
  BY <1>1, <1>2, PushIsLast
<1>4. Len(ring') \in {Len(ring), Len(ring) + 1}
  BY <1>1, <1>2, PushIsLast
<1>5. Len(ring) \in Nat /\ Len(ring') \in Nat
  BY <1>1, <1>3, LenProperties DEF LogTypes
<1>6. serial \in Nat /\ focus \in Nat
  BY <1>1 DEF LogTypes
<1>7. ASSUME NEW n \in Nat, NotBefore(n)
      PROVE  NotBefore(n)'
  <2> DEFINE k == Len(ring)  m == Len(ring')
  <2>1. /\ n <= serial /\ (focus # 0 => n + k <= serial + focus)
        /\ k \in Nat /\ m \in {k, k + 1} /\ serial' = serial + 1
        /\ focus' = IF focus = 0 \/ focus = k THEN m ELSE focus
    BY <1>2, <1>4, <1>5, <1>7 DEF NotBefore, AtTail
  <2>2. n <= serial' /\ (focus' # 0 => n + m <= serial' + focus')
    <3> HIDE DEF k, m
    <3> QED
      BY <1>6, <2>1
  <2> QED
    BY <2>2 DEF NotBefore
<1>8. \A n \in Nat : NotBefore(n) => NotBefore(n)'
  BY <1>7
<1>9. serial' \in Nat
  BY <1>2, <1>6
<1>10. focus' \in Nat
  BY <1>2, <1>5, <1>6
<1> QED
  BY <1>2, <1>3, <1>8, <1>9, <1>10 DEF Recorded

\* Neither does an announcement, recorded or not.
LEMMA AnnounceKeeps ==
  ASSUME LogInv, Announce
  PROVE  Recorded
<1>1. CASE Unrecorded
  BY <1>1 DEF Unrecorded, LogInv, LogTypes, RingInv, NotBefore, Recorded
<1>2. ASSUME NEW b \in BindingIds, RecordEvent("spoken", b)
      PROVE  Recorded
  <2>1. "spoken" \in Types /\ b \in BindingIds \cup {NoBinding}
    BY DEF Types
  <2> QED
    BY <1>2, <2>1, RecordKeeps
<1> QED
  BY <1>1, <1>2 DEF Announce

LEMMA UnrecordedKeeps ==
  ASSUME LogInv, Unrecorded
  PROVE  Recorded
BY DEF Unrecorded, LogInv, LogTypes, RingInv, NotBefore, Recorded

\* What a key does besides leaves the invariant alone, unless it walks.
LEMMA StandingKeeps ==
  ASSUME LogInv, Recorded, loaded' = loaded, heard' = heard,
         kpc \notin {"tell_up", "tell_down"},
         kpc' \notin {"load_up", "store_up", "tell_up", "tell_down"}
  PROVE  LogInv'
<1>1. LogTypes' /\ RingInv' /\ LeavingInv'
  BY DEF LogInv, LogTypes, LeavingInv, Recorded
<1>2. heard.last \in Nat /\ NotBefore(heard.last)
  BY DEF LogInv, LogTypes, HeardInv
<1>3. NotBefore(heard.last)'
  BY <1>2 DEF Recorded, NotBefore
<1> QED
  BY <1>1, <1>3 DEF LogInv, HeardInv, NotBefore
-----------------------------------------------------------------------------
\* Keys that leave the focus to the worker.
Standing ==
  \/ \E key \in Keys \cup {"open"} : PressKey(key)
  \/ Close \/ AnnounceChange \/ ChangeMode
  \/ BeginQuickEdit \/ ExtendQuickEdit \/ CommitQuickEdit \/ RefuseQuickEdit
  \/ CancelQuickEdit \/ Replay \/ AnnounceReplay \/ Invoked \/ Submit

LEMMA StandingStep ==
  ASSUME LogInv, Standing
  PROVE  LogInv'
<1> DEFINE Tells == {"tell_up", "tell_down"}
           Walks == {"load_up", "store_up", "tell_up", "tell_down"}
<1>1. NoBinding \in BindingIds \cup {NoBinding}
  OBVIOUS
<1>2. {"key", "focus", "action", "submit"} \subseteq Types
  BY DEF Types
<1>3. ASSUME NEW key \in Keys \cup {"open"}, PressKey(key)
      PROVE  LogInv'
  <2>1. RecordEvent("key", NoBinding) /\ kpc = "idle" /\ kpc' = key /\ key \notin Walks
        /\ loaded' = loaded /\ heard' = heard
    BY <1>3 DEF PressKey, Keys
  <2> QED
    BY <1>1, <1>2, <2>1, RecordKeeps, StandingKeeps
<1>4. CASE Close \/ ExtendQuickEdit \/ RefuseQuickEdit \/ CancelQuickEdit \/ BeginQuickEdit
  <2>1. Unrecorded /\ kpc \notin Tells /\ kpc' \notin Walks /\ loaded' = loaded /\ heard' = heard
    BY <1>4 DEF Close, ExtendQuickEdit, RefuseQuickEdit, CancelQuickEdit, BeginQuickEdit
  <2> QED
    BY <2>1, UnrecordedKeeps, StandingKeeps
<1>5. CASE AnnounceChange \/ CommitQuickEdit \/ AnnounceReplay
  <2>1. Announce /\ kpc \notin Tells /\ kpc' \notin Walks /\ loaded' = loaded /\ heard' = heard
    BY <1>5 DEF AnnounceChange, CommitQuickEdit, AnnounceReplay
  <2> QED
    BY <2>1, AnnounceKeeps, StandingKeeps
<1>6. CASE Replay
  <2>1. (Announce \/ Unrecorded) /\ kpc \notin Tells /\ kpc' \notin Walks
        /\ loaded' = loaded /\ heard' = heard
    BY <1>6 DEF Replay
  <2> QED
    BY <2>1, AnnounceKeeps, UnrecordedKeeps, StandingKeeps
<1>7. CASE ChangeMode
  <2>1. RecordEvent("focus", NoBinding) /\ kpc \notin Tells /\ kpc' \notin Walks
        /\ loaded' = loaded /\ heard' = heard
    BY <1>7 DEF ChangeMode
  <2> QED
    BY <1>1, <1>2, <2>1, RecordKeeps, StandingKeeps
<1>8. CASE Invoked
  <2>1. RecordEvent("action", NoBinding) /\ kpc \notin Tells /\ kpc' \notin Walks
        /\ loaded' = loaded /\ heard' = heard
    BY <1>8 DEF Invoked
  <2> QED
    BY <1>1, <1>2, <2>1, RecordKeeps, StandingKeeps
<1>9. CASE Submit
  <2>1. RecordEvent("submit", NoBinding) /\ kpc \notin Tells /\ kpc' \notin Walks
        /\ loaded' = loaded /\ heard' = heard
    BY <1>9 DEF Submit
  <2> QED
    BY <1>1, <1>2, <2>1, RecordKeeps, StandingKeeps
<1> QED
  BY <1>3, <1>4, <1>5, <1>6, <1>7, <1>8, <1>9 DEF Standing

\* Opening the viewer starts from the latest entry, with nothing announced.
LEMMA OpenStep == ASSUME LogInv, Open PROVE LogInv'
<1>1. LogTypes /\ RingInv /\ LeavingInv /\ Len(ring) \in Nat
  BY LenProperties DEF LogInv, LogTypes
<1>2. UNCHANGED <<ring, serial, loaded, wpc>> /\ focus' = Len(ring) /\ kpc' = "changing"
      /\ heard' = [before |-> 0, last |-> 0]
  BY DEF Open
<1>3. LogTypes'
  BY <1>1, <1>2 DEF LogTypes
<1>4. serial \in Nat
  BY <1>1 DEF LogTypes
<1>5. HeardInv'
  BY <1>1, <1>2, <1>4 DEF HeardInv, NotBefore
<1> QED
  BY <1>1, <1>2, <1>3, <1>5 DEF LogInv, RingInv, LeavingInv

\* The three steps before the focus is announced.
LEMMA WalkStep ==
  ASSUME LogInv, (\E key \in {"up", "down"} : Compare(key)) \/ Load \/ MoveFocus
  PROVE  LogInv'
<1>1. LogTypes /\ RingInv /\ LeavingInv /\ HeardInv /\ Len(ring) \in Nat
  BY LenProperties DEF LogInv, LogTypes
<1>2. focus \in Nat /\ loaded \in Nat
  BY <1>1 DEF LogTypes
<1>3. CASE \E key \in {"up", "down"} : Compare(key)
  <2>1. UNCHANGED <<ring, serial, focus, loaded, wpc, heard>> /\ kpc \in {"up", "down"}
    BY <1>3 DEF Compare, Unrecorded
  <2>2. kpc' \in {"done", "latest", "load_up", "load_down"}
        /\ (kpc' = "load_up" => focus # 0)
    BY <1>3 DEF Compare
  <2>3. LeavingInv'
    BY <1>1, <1>2, <2>1, <2>2 DEF LeavingInv
  <2> QED
    BY <1>1, <2>1, <2>2, <2>3 DEF LogInv, LogTypes, RingInv, HeardInv, NotBefore
<1>4. CASE Load
  <2>1. UNCHANGED <<ring, serial, focus, wpc, heard>> /\ loaded' = focus
        /\ kpc \in {"load_up", "load_down"}
        /\ kpc' = IF kpc = "load_up" THEN "store_up" ELSE "store_down"
    BY <1>4 DEF Load, Unrecorded
  <2> QED
    BY <1>1, <1>2, <2>1 DEF LogInv, LogTypes, RingInv, LeavingInv, HeardInv, NotBefore
<1>5. CASE MoveFocus
  <2>1. UNCHANGED <<ring, serial, loaded, wpc, heard>>
        /\ kpc' \in {"tell_up", "tell_down"}
    BY <1>5 DEF MoveFocus
  <2>2. focus' \in Nat
    <3>1. CASE kpc = "latest"
      BY <1>1, <1>5, <3>1 DEF MoveFocus
    <3>2. CASE kpc = "store_up"
      BY <1>1, <1>2, <1>5, <3>2 DEF MoveFocus, LeavingInv
    <3>3. CASE kpc = "store_down"
      BY <1>2, <1>5, <3>3 DEF MoveFocus
    <3> QED
      BY <1>5, <3>1, <3>2, <3>3 DEF MoveFocus
  <2> QED
    BY <1>1, <2>1, <2>2 DEF LogInv, LogTypes, RingInv, LeavingInv, HeardInv
<1> QED
  BY <1>3, <1>4, <1>5

\* What is announced is the entry in focus, if there is one.
LEMMA PublishStep == ASSUME LogInv, PublishFocused PROVE LogInv'
<1>1. LogTypes /\ RingInv /\ LeavingInv /\ HeardInv
  BY DEF LogInv
<1>2. Len(ring) \in Nat /\ serial \in Nat /\ focus \in Nat /\ heard.last \in Nat
      /\ heard.last <= serial
  BY <1>1, LenProperties DEF LogTypes, HeardInv
<1>3. Recorded /\ loaded' = loaded /\ kpc' \in {"done_up", "done"}
  BY AnnounceKeeps DEF PublishFocused
<1>4. heard' \in [before : Nat, last : Nat] /\ NotBefore(heard'.last)
  <2>1. CASE HasSelected
    <3>1. focus \in 1 .. Len(ring)
      BY <2>1 DEF HasSelected
    <3>2. ring[focus] \in Entries
      BY <1>1, <3>1, ElementOfSeq DEF LogTypes
    <3>3. ring[focus].serial \in Nat
      BY <3>2 DEF Entries
    <3>4. ring[focus].serial + Len(ring) = serial + focus
      BY <1>1, <3>1 DEF RingInv
    <3>5. heard' = [before |-> heard.last, last |-> ring[focus].serial]
      BY <2>1 DEF PublishFocused, selected_entry
    <3> DEFINE k == Len(ring)  e == ring[focus].serial
    <3>6. e <= serial /\ e + k <= serial + focus
      <4>1. e \in Nat /\ k \in Nat /\ focus \in 1 .. k /\ e + k = serial + focus
        BY <1>2, <3>1, <3>3, <3>4
      <4> HIDE DEF k, e
      <4> QED
        BY <1>2, <4>1
    <3> QED
      BY <1>2, <3>3, <3>5, <3>6 DEF NotBefore
  <2>2. CASE ~HasSelected
    <3>1. heard' = heard
      BY <2>2 DEF PublishFocused
    <3>2. focus # 0 => focus > Len(ring)
      BY <1>2, <2>2 DEF HasSelected
    <3> QED
      BY <1>1, <1>2, <3>1, <3>2 DEF LogTypes, NotBefore
  <2> QED
    BY <2>1, <2>2
<1>5. NotBefore(heard.last)'
  <2>1. heard'.last \in Nat
    BY <1>4
  <2> QED
    BY <1>3, <1>4, <2>1 DEF Recorded, NotBefore
<1>6. LogTypes' /\ RingInv' /\ LeavingInv'
  BY <1>1, <1>3, <1>4 DEF LogTypes, LeavingInv, Recorded
<1> QED
  BY <1>5, <1>6 DEF LogInv, HeardInv, NotBefore

\* The worker's event moves the ring under the focus, and the focus only to the end.
LEMMA WorkerStep ==
  ASSUME LogInv, WorkerTests \/ WorkerAppends \/ WorkerFollows
  PROVE  LogInv'
<1>1. LogTypes /\ RingInv /\ LeavingInv /\ HeardInv
  BY DEF LogInv
<1>2. Len(ring) \in Nat /\ serial \in Nat /\ focus \in Nat /\ heard.last \in Nat
      /\ heard.last <= serial
  BY <1>1, LenProperties DEF LogTypes, HeardInv
<1>3. CASE WorkerTests
  BY <1>1, <1>3 DEF WorkerTests, LogInv, LogTypes, RingInv, LeavingInv, HeardInv, NotBefore
<1>4. CASE WorkerAppends
  <2>1. /\ serial' = serial + 1
        /\ ring' = Pushed(Entry(serial + 1, "output", NoBinding))
        /\ UNCHANGED <<focus, kpc, loaded, heard>>
    BY <1>4 DEF WorkerAppends
  <2>2. "output" \in Types /\ NoBinding \in BindingIds \cup {NoBinding}
    BY DEF Types
  <2>3. ring' \in Seq(Entries) /\ ring' # <<>> /\ Len(ring') <= MaxEntries /\ RingInv'
    BY <1>1, <2>1, <2>2, PushIsLast
  <2>4. Len(ring') \in {Len(ring), Len(ring) + 1}
    BY <1>1, <2>1, <2>2, PushIsLast
  <2>5. LogTypes' /\ LeavingInv'
    BY <1>1, <1>2, <2>1, <2>3 DEF LogTypes, LeavingInv
  <2>6. HeardInv'
    <3> DEFINE k == Len(ring)  m == Len(ring')  n == heard.last
    <3>1. k \in Nat /\ m \in {k, k + 1} /\ n \in Nat /\ n <= serial
      BY <1>2, <2>4
    <3>2. ASSUME NotBefore(n) PROVE NotBefore(n)'
      <4>1. n <= serial /\ (focus # 0 => n + k <= serial + focus)
        BY <3>2 DEF NotBefore
      <4>2. n <= serial' /\ (focus # 0 => n + m <= serial' + focus)
        <5> HIDE DEF k, m, n
        <5> QED
          BY <1>2, <2>1, <3>1, <4>1
      <4> QED
        BY <2>1, <4>2 DEF NotBefore
    <3> QED
      BY <1>1, <1>2, <2>1, <3>2 DEF HeardInv, NotBefore
  <2> QED
    BY <2>3, <2>5, <2>6 DEF LogInv
<1>5. CASE WorkerFollows
  <2>1. wpc = "follow" /\ focus' = Len(ring) /\ wpc' = "idle"
        /\ UNCHANGED <<ring, serial, kpc, loaded, heard>>
    BY <1>5 DEF WorkerFollows
  <2>2. Len(ring) > 0
    BY <1>1, <1>2, <2>1, EmptySeq DEF LeavingInv, LogTypes
  <2> QED
    BY <1>1, <1>2, <2>1, <2>2 DEF LogInv, LogTypes, RingInv, LeavingInv, HeardInv, NotBefore
<1> QED
  BY <1>3, <1>4, <1>5

\* The invariant of the ring, the focus and what was announced.
THEOREM LogInvariance == EventLogViewerSpec => []LogInv
<1>1. EventLogViewerInit => LogInv
  <2> SUFFICES ASSUME EventLogViewerInit PROVE LogInv
    OBVIOUS
  <2>1. ring \in Seq(Entries) /\ Len(ring) = 0
    BY EmptySeq DEF EventLogViewerInit
  <2> QED
    BY <2>1, EventLogAssumption
    DEF EventLogViewerInit, LogInv, LogTypes, RingInv, LeavingInv, HeardInv, NotBefore
<1>2. LogInv /\ [EventLogViewerNext]_viewerVars => LogInv'
  <2> SUFFICES ASSUME LogInv, [EventLogViewerNext]_viewerVars PROVE LogInv'
    OBVIOUS
  <2>1. CASE UNCHANGED viewerVars
    BY <2>1 DEF viewerVars, LogInv, LogTypes, RingInv, LeavingInv, HeardInv, NotBefore
  <2>2. CASE EventLogViewerNext
    BY <2>2, StandingStep, OpenStep, WalkStep, PublishStep, WorkerStep
    DEF EventLogViewerNext, Standing
  <2> QED
    BY <2>1, <2>2
<1> QED
  BY <1>1, <1>2, PTL DEF EventLogViewerSpec

\* What t replays and e edits is never older than what was announced, however the
\* ring moves and whenever the worker takes the focus along.
THEOREM NothingOlderIsActedOn == EventLogViewerSpec => []NeverOlderThanTold
<1>1. LogInv => NeverOlderThanTold
  <2> SUFFICES ASSUME LogInv, kpc \in {"idle", "replay", "begin_edit"}, HasSelected
               PROVE  selected_entry.serial >= heard.last
    BY DEF NeverOlderThanTold
  <2>1. LogTypes /\ RingInv /\ HeardInv /\ focus \in 1 .. Len(ring)
    BY DEF LogInv, HasSelected
  <2>2. ring[focus] \in Entries
    BY <2>1, ElementOfSeq DEF LogTypes
  <2> DEFINE k == Len(ring)  e == ring[focus].serial  n == heard.last
  <2>3. e \in Nat /\ n \in Nat /\ serial \in Nat
    BY <2>1, <2>2 DEF LogTypes, Entries
  <2>4. k \in Nat /\ focus \in 1 .. k
    BY <2>1, LenProperties DEF LogTypes
  <2>5. e + k = serial + focus
    BY <2>1 DEF RingInv
  <2>6. n + k <= serial + focus
    BY <2>1, <2>4 DEF HeardInv, NotBefore
  <2>7. e >= n
    <3> HIDE DEF k, e, n
    <3> QED
      BY <2>3, <2>4, <2>5, <2>6
  <2> QED
    BY <2>7 DEF selected_entry
<1> QED
  BY <1>1, LogInvariance, PTL
=============================================================================
