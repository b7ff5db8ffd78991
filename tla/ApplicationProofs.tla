------------------------- MODULE ApplicationProofs -------------------------
(***************************************************************************)
(* Proofs about the program as a whole: how it lives and how it is used.   *)
(*                                                                         *)
(* Lifetime, for any notebooks, edits, launches and crashes: what was ever *)
(* saved stays saved, nobody is marked as greeted who was not, and every   *)
(* submission is accounted for.  Console, for any keys pressed in any      *)
(* order: the mode and what is open agree, Escape leads out of everything, *)
(* and the walk through the history gives the draft back.                  *)
(***************************************************************************)
EXTENDS Lifetime, Console, SequenceTheorems, TLAPS
-----------------------------------------------------------------------------
(* The life of the program. *)

Places ==
  {"down", "init", "initialising", "choose", "creating", "load", "record", "recording",
   "greet", "mark", "tour", "key", "drain", "saving", "adding", "close", "last save",
   "release"}

\* The session has been read from its file, or was begun because there is none.
InSession ==
  pc \in {"record", "recording", "greet", "mark", "tour", "key", "drain", "saving",
          "adding", "close", "last save", "release"}

Types ==
  /\ pc \in Places
  /\ launch \in [workspace : BOOLEAN, path : Paths \cup {NoPath}, welcome : BOOLEAN]
  /\ files \in [Paths -> Contents \cup {Missing, Torn}]
  /\ held \in [Paths -> Contents]
  /\ work \in Contents
  /\ edits \in 0..MaxEdits
  /\ greeted \in Nat /\ faults \in Nat
  /\ sentinel \in BOOLEAN

\* The history of one file agrees with what is in it.
Kept(content, past) ==
  /\ content = Missing => past = {}
  /\ Whole(content) => past \subseteq content

FilesInv == \A p \in Paths : Kept(files[p], held[p])

\* A write_text is on the file of the session, or on one that never held anything.
WritingInv ==
  /\ pc \in {"saving", "last save"} => writing = launch.path /\ writing \in Paths
  /\ pc \in {"creating", "adding"} => writing \in Paths /\ held[writing] = {}

\* The session has everything its file ever held.
SessionInv == InSession /\ launch.path # NoPath => held[launch.path] \subseteq work

\* A greeting that was not marked was cut off by a fault, or is being marked.
GreetInv ==
  /\ sentinel \/ pc = "mark" => greeted > 0
  /\ ~sentinel /\ pc # "mark" => greeted <= faults
  /\ greeted <= faults + 1

IInv == Types /\ FilesInv /\ WritingInv /\ SessionInv /\ GreetInv
-----------------------------------------------------------------------------
(* Files. *)

\* Opening a file to write it leaves it torn: neither missing nor whole.
LEMMA EmptiesKeeps ==
  ASSUME Types, FilesInv, NEW p \in Paths, Empties(p)
  PROVE  /\ files' \in [Paths -> Contents \cup {Missing, Torn}]
         /\ held' = held /\ writing' = p
         /\ FilesInv'
<1>1. files' = [files EXCEPT ![p] = Torn] /\ held' = held /\ writing' = p
  BY DEF Empties
<1>2. files' \in [Paths -> Contents \cup {Missing, Torn}]
  BY <1>1 DEF Types
<1>3. ASSUME NEW q \in Paths PROVE Kept(files'[q], held'[q])
  <2>1. CASE q = p
    BY <1>1, <2>1, LifetimeAssumption DEF Kept, Whole, Types
  <2>2. CASE q # p
    BY <1>1, <2>2 DEF FilesInv, Types
  <2> QED
    BY <2>1, <2>2
<1> QED
  BY <1>1, <1>2, <1>3 DEF FilesInv

\* A write that ends with all the file ever held keeps the agreement.
LEMMA FillsKeeps ==
  ASSUME Types, FilesInv, writing \in Paths, NEW content \in Contents, Fills(content),
         held[writing] \subseteq content
  PROVE  /\ files' \in [Paths -> Contents \cup {Missing, Torn}]
         /\ held' \in [Paths -> Contents]
         /\ held' = [held EXCEPT ![writing] = content]
         /\ FilesInv'
<1>1. /\ files' = [files EXCEPT ![writing] = content]
      /\ held' = [held EXCEPT ![writing] = @ \cup content]
  BY DEF Fills
<1>2. held[writing] \cup content = content
  OBVIOUS
<1>3. held' = [held EXCEPT ![writing] = content]
  BY <1>1, <1>2
<1>4. /\ files' \in [Paths -> Contents \cup {Missing, Torn}]
      /\ held' \in [Paths -> Contents]
  BY <1>1, <1>3 DEF Types
<1>5. ASSUME NEW q \in Paths PROVE Kept(files'[q], held'[q])
  <2>1. CASE q = writing
    BY <1>1, <1>3, <2>1, LifetimeAssumption DEF Kept, Whole, Types
  <2>2. CASE q # writing
    BY <1>1, <1>3, <2>2 DEF FilesInv, Types
  <2> QED
    BY <2>1, <2>2
<1> QED
  BY <1>3, <1>4, <1>5 DEF FilesInv

\* Without a write nothing about the files changes.
LEMMA SameFiles ==
  ASSUME Types, FilesInv, files' = files, held' = held
  PROVE  /\ files' \in [Paths -> Contents \cup {Missing, Torn}]
         /\ held' \in [Paths -> Contents]
         /\ FilesInv'
BY DEF Types, FilesInv
-----------------------------------------------------------------------------
(* The invariant. *)

\* It holds at first.
LEMMA InitInv == Init => IInv
<1> SUFFICES ASSUME Init PROVE IInv
  OBVIOUS
<1>1. Types
  <2>1. files \in [Paths -> Contents \cup {Missing, Torn}] /\ held \in [Paths -> Contents]
    BY DEF Init, Contents
  <2>2. work \in Contents /\ launch.path \in Paths \cup {NoPath}
    BY DEF Init, Contents
  <2>3. edits \in 0..MaxEdits /\ greeted \in Nat /\ faults \in Nat
    BY LifetimeAssumption DEF Init
  <2>4. /\ launch \in [workspace : BOOLEAN, path : Paths \cup {NoPath}, welcome : BOOLEAN]
        /\ sentinel \in BOOLEAN /\ pc \in Places
    BY DEF Init, Places
  <2> QED
    BY <2>1, <2>2, <2>3, <2>4 DEF Types
<1>2. FilesInv
  BY LifetimeAssumption DEF Init, FilesInv, Kept, Whole
<1>3. WritingInv /\ SessionInv /\ GreetInv
  BY DEF Init, WritingInv, SessionInv, InSession, GreetInv
<1> QED
  BY <1>1, <1>2, <1>3 DEF IInv

\* A step that leaves the files and their history alone, and brings no file to write,
\* keeps the invariant if the session and the greetings agree.
LEMMA QuietStep ==
  ASSUME IInv, files' = files, held' = held,
         pc' \in Places \ {"saving", "last save", "creating", "adding"},
         launch' \in [workspace : BOOLEAN, path : Paths \cup {NoPath}, welcome : BOOLEAN],
         work' \in Contents, edits' \in 0..MaxEdits,
         greeted' \in Nat, faults' \in Nat, sentinel' \in BOOLEAN,
         SessionInv', GreetInv'
  PROVE  IInv'
<1>1. Types /\ FilesInv
  BY DEF IInv
<1>2. /\ files' \in [Paths -> Contents \cup {Missing, Torn}]
      /\ held' \in [Paths -> Contents]
      /\ FilesInv'
  BY <1>1, SameFiles
<1>3. Types'
  BY <1>2 DEF Types
<1>4. WritingInv'
  BY DEF WritingInv
<1> QED
  BY <1>2, <1>3, <1>4 DEF IInv

\* The command line is read, with nothing of a session there yet.
LEMMA StartsKeep ==
  ASSUME IInv,
         StartPlain \/ StartInitialising \/ StartInDirectory \/ StartOnNotebook
  PROVE  IInv'
<1>1. PICK first \in {"init", "choose", "load"}, w \in BOOLEAN, p \in Paths \cup {NoPath} :
        Start(first, w, p)
  BY DEF StartPlain, StartInitialising, StartInDirectory, StartOnNotebook, Paths
<1>2. /\ files' = files /\ held' = held /\ pc' \in {"init", "choose", "load"}
      /\ sentinel' = sentinel /\ work' = {} /\ pc = "down"
      /\ edits' = edits /\ greeted' = greeted /\ faults' = faults
  BY <1>1 DEF Start, disk, notebooks
<1>3. launch' \in [workspace : BOOLEAN, path : Paths \cup {NoPath}, welcome : BOOLEAN]
  BY <1>1 DEF Start
<1>4. work' \in Contents
  BY <1>2 DEF Contents
<1>5. SessionInv' /\ GreetInv'
  BY <1>2 DEF SessionInv, InSession, GreetInv, IInv
<1> QED
  BY <1>2, <1>3, <1>4, <1>5, QuietStep DEF IInv, Types, Places

\* From the command line to the first key.
LEMMA StartupKeeps ==
  ASSUME IInv, Startup
  PROVE  IInv'
<1> USE DEF Goes, disk, notebooks, loop
<1>1. CASE BeginInit \/ EndInit
  <2>1. GreetInv'
    <3>1. CASE BeginInit
      BY <3>1 DEF BeginInit, Configures, GreetInv, IInv, Types
    <3>2. CASE EndInit
      BY <3>2 DEF EndInit, Configures, GreetInv, IInv, Types
    <3> QED
      BY <1>1, <3>1, <3>2
  <2>2. SessionInv'
    BY <1>1 DEF BeginInit, EndInit, Configures, SessionInv, InSession, IInv
  <2> QED
    BY <1>1, <2>1, <2>2, QuietStep DEF BeginInit, EndInit, Configures, IInv, Types, Places
<1>2. CASE Choose
  <2>1. PICK p \in Paths : OpenPath(p)
    BY <1>2 DEF Choose, Notebooks, Paths
  <2>2. launch' \in [workspace : BOOLEAN, path : Paths \cup {NoPath}, welcome : BOOLEAN]
    BY <2>1 DEF OpenPath, IInv, Types
  <2>3. SessionInv' /\ GreetInv'
    BY <1>2 DEF Choose, SessionInv, InSession, GreetInv, IInv
  <2> QED
    BY <1>2, <2>2, <2>3, QuietStep DEF Choose, IInv, Types, Places
<1>3. CASE BeginDefault
  <2>1. Default \in Paths /\ files[Default] = Missing
    BY <1>3, LifetimeAssumption DEF BeginDefault, Paths, Exists
  <2>2. held[Default] = {}
    BY <2>1 DEF IInv, FilesInv, Kept
  <2>3. /\ files' \in [Paths -> Contents \cup {Missing, Torn}]
        /\ held' = held /\ writing' = Default
        /\ FilesInv'
    BY <1>3, <2>1, EmptiesKeeps DEF BeginDefault, IInv
  <2>4. launch' \in [workspace : BOOLEAN, path : Paths \cup {NoPath}, welcome : BOOLEAN]
    BY <1>3, <2>1 DEF BeginDefault, OpenPath, IInv, Types
  <2>5. Types'
    BY <1>3, <2>3, <2>4 DEF BeginDefault, Empties, IInv, Types, Places
  <2>6. WritingInv' /\ SessionInv' /\ GreetInv'
    BY <1>3, <2>1, <2>2, <2>3
       DEF BeginDefault, Empties, IInv, WritingInv, SessionInv, InSession, GreetInv
  <2> QED
    BY <2>3, <2>5, <2>6 DEF IInv
<1>4. CASE EndDefault
  <2>1. writing \in Paths /\ held[writing] = {} /\ {} \in Contents
    BY <1>4 DEF EndDefault, IInv, WritingInv, Contents
  <2>2. /\ files' \in [Paths -> Contents \cup {Missing, Torn}]
        /\ held' \in [Paths -> Contents]
        /\ FilesInv'
    BY <1>4, <2>1, FillsKeeps DEF EndDefault, IInv
  <2>3. Types'
    BY <1>4, <2>2 DEF EndDefault, Fills, IInv, Types, Places
  <2>4. WritingInv' /\ SessionInv' /\ GreetInv'
    BY <1>4 DEF EndDefault, Fills, IInv, WritingInv, SessionInv, InSession, GreetInv
  <2> QED
    BY <2>2, <2>3, <2>4 DEF IInv
<1>5. CASE Load
  <2>1. launch.path \in Paths \cup {NoPath}
    BY DEF IInv, Types
  <2>2. /\ work' \in Contents
        /\ launch.path # NoPath => held[launch.path] \subseteq work'
    <3>1. CASE launch.path = NoPath
      BY <1>5, <3>1 DEF Load, Contents, Whole, Exists, IInv, Types
    <3>2. CASE launch.path # NoPath
      <4>1. Kept(files[launch.path], held[launch.path])
        BY <2>1, <3>2 DEF IInv, FilesInv
      <4>2. files[launch.path] \in Contents \cup {Missing, Torn}
        BY <2>1, <3>2 DEF IInv, Types
      <4> QED
        BY <1>5, <3>2, <4>1, <4>2 DEF Load, Exists, Kept, Whole, Contents
    <3> QED
      BY <3>1, <3>2
  <2>3. SessionInv'
    BY <1>5, <2>2 DEF Load, SessionInv
  <2>4. GreetInv'
    BY <1>5 DEF Load, AfterLoad, GreetInv, IInv
  <2> QED
    BY <1>5, <2>2, <2>3, <2>4, QuietStep DEF Load, AfterLoad, IInv, Types, Places
<1>6. CASE LoadFails
  <2>1. SessionInv' /\ GreetInv'
    BY <1>6 DEF LoadFails, SessionInv, InSession, GreetInv, IInv
  <2> QED
    BY <1>6, <2>1, QuietStep DEF LoadFails, IInv, Types, Places
<1>7. CASE BeginRecord \/ EndRecord
  <2>1. GreetInv'
    <3>1. CASE BeginRecord
      BY <3>1 DEF BeginRecord, Configures, GreetInv, IInv, Types
    <3>2. CASE EndRecord
      BY <3>2 DEF EndRecord, Configures, GreetInv, IInv, Types
    <3> QED
      BY <1>7, <3>1, <3>2
  <2>2. SessionInv'
    BY <1>7 DEF BeginRecord, EndRecord, Configures, SessionInv, InSession, IInv
  <2> QED
    BY <1>7, <2>1, <2>2, QuietStep DEF BeginRecord, EndRecord, Configures, IInv, Types, Places
<1>8. CASE Greet
  <2>1. SessionInv' /\ GreetInv'
    BY <1>8 DEF Greet, IsFirstRun, SessionInv, InSession, GreetInv, IInv, Types
  <2> QED
    BY <1>8, <2>1, QuietStep DEF Greet, IInv, Types, Places
<1>9. CASE Mark
  <2>1. SessionInv' /\ GreetInv'
    BY <1>9 DEF Mark, SessionInv, InSession, GreetInv, IInv, Types
  <2> QED
    BY <1>9, <2>1, QuietStep DEF Mark, IInv, Types, Places
<1>10. CASE GreetNobody \/ Tour
  <2>1. GreetInv'
    <3>1. CASE GreetNobody
      BY <3>1 DEF GreetNobody, GreetInv, IInv, Types
    <3>2. CASE Tour
      BY <3>2 DEF Tour, GreetInv, IInv, Types
    <3> QED
      BY <1>10, <3>1, <3>2
  <2>2. SessionInv'
    BY <1>10 DEF GreetNobody, Tour, SessionInv, InSession, IInv
  <2> QED
    BY <1>10, <2>1, <2>2, QuietStep DEF GreetNobody, Tour, IInv, Types, Places
<1> QED
  BY <1>1, <1>2, <1>3, <1>4, <1>5, <1>6, <1>7, <1>8, <1>9, <1>10 DEF Startup

\* Whoever was greeted stays so, whatever fails, once the sentinel was dealt with.
LEMMA GreetStep ==
  ASSUME Types, GreetInv, sentinel' = sentinel, greeted' = greeted,
         faults' \in {faults, faults + 1}, pc # "mark", pc' # "mark"
  PROVE  GreetInv' /\ faults' \in Nat
<1>1. CASE faults' = faults
  BY <1>1 DEF GreetInv, Types
<1>2. CASE faults' = faults + 1
  <2>1. faults' \in Nat /\ greeted \in Nat /\ faults \in Nat
    BY <1>2 DEF Types
  <2>2. sentinel => greeted > 0
    BY DEF GreetInv
  <2>3. greeted <= faults'
    <3>1. CASE sentinel
      BY <1>2, <2>1 DEF GreetInv
    <3>2. CASE ~sentinel
      BY <1>2, <2>1, <3>2 DEF GreetInv
    <3> QED
      BY <3>1, <3>2
  <2>4. greeted <= faults' + 1
    BY <1>2, <2>1 DEF GreetInv
  <2> QED
    BY <2>1, <2>2, <2>3, <2>4 DEF GreetInv
<1> QED
  BY <1>1, <1>2

\* A key, and what the loop does before the next one.
LEMMA LoopKeeps ==
  ASSUME IInv
  PROVE  /\ EditKey \/ SubmitKey \/ DeleteKey \/ QuitKey => IInv'
         /\ EndInput \/ Draining => IInv'
<1>1. ASSUME EditKey \/ SubmitKey \/ DeleteKey \/ QuitKey PROVE IInv'
  <2>1. /\ pc = "key" /\ pc' \in {"drain", "key"} /\ launch' = launch
        /\ files' = files /\ held' = held /\ sentinel' = sentinel /\ greeted' = greeted
        /\ faults' \in {faults, faults + 1}
    BY <1>1 DEF EditKey, SubmitKey, DeleteKey, QuitKey, Key, Handled, Fault, disk, notebooks
  <2>2. work \subseteq work' /\ work' \in Contents /\ edits' \in 0..MaxEdits
    <3>1. CASE EditKey
      <4>1. work \in SUBSET (1..MaxEdits) /\ edits \in 0..MaxEdits /\ MaxEdits \in Nat
        BY LifetimeAssumption DEF IInv, Types, Contents
      <4>2. edits < MaxEdits /\ edits' = edits + 1 /\ work' = work \cup {edits'}
        BY <3>1 DEF EditKey
      <4>3. edits' \in 1..MaxEdits
        BY <4>1, <4>2
      <4> QED
        BY <4>1, <4>2, <4>3 DEF Contents
    <3>2. CASE SubmitKey \/ DeleteKey \/ QuitKey
      BY <3>2 DEF SubmitKey, DeleteKey, QuitKey, IInv, Types
    <3> QED
      BY <1>1, <3>1, <3>2
  <2>3. GreetInv' /\ faults' \in Nat
    BY <2>1, GreetStep DEF IInv
  <2>4. SessionInv'
    BY <2>1, <2>2 DEF SessionInv, InSession, IInv
  <2> QED
    BY <2>1, <2>2, <2>3, <2>4, QuietStep DEF IInv, Types, Places
<1>2. ASSUME EndInput \/ Draining PROVE IInv'
  <2>1. /\ pc \in {"key", "drain"} /\ pc' \in {"key", "drain", "close"} /\ launch' = launch
        /\ files' = files /\ held' = held /\ sentinel' = sentinel /\ greeted' = greeted
        /\ faults' = faults /\ work' = work /\ edits' = edits
    BY <1>2 DEF EndInput, Draining, Drain, Execute, ExecuteFails, Drained, InLoop, disk,
           notebooks, ghosts
  <2>2. SessionInv'
    BY <2>1 DEF SessionInv, InSession, IInv
  <2>3. GreetInv' /\ faults' \in Nat
    BY <2>1, GreetStep DEF IInv
  <2> QED
    BY <2>1, <2>2, <2>3, QuietStep DEF IInv, Types, Places
<1> QED
  BY <1>1, <1>2

\* The session is written to its file, by :save and at the end.
LEMMA SavesKeep ==
  ASSUME IInv, SaveKey \/ EndSaveKey \/ CloseBeginsSave \/ CloseEndsSave
  PROVE  IInv'
<1> USE DEF Goes, Key, loop
<1>1. CASE SaveKey \/ CloseBeginsSave
  <2>1. /\ pc \in {"key", "close"} /\ pc' \in {"saving", "last save"}
        /\ launch.path # NoPath /\ Empties(launch.path)
        /\ launch' = launch /\ work' = work /\ edits' = edits
        /\ greeted' = greeted /\ faults' = faults
    BY <1>1 DEF SaveKey, CloseBeginsSave, Saves
  <2>2. launch.path \in Paths
    BY <2>1 DEF IInv, Types
  <2>3. /\ files' \in [Paths -> Contents \cup {Missing, Torn}]
        /\ held' = held /\ writing' = launch.path
        /\ FilesInv'
    BY <2>1, <2>2, EmptiesKeeps DEF IInv
  <2>4. sentinel' = sentinel
    BY <2>1 DEF Empties
  <2>5. Types'
    BY <2>1, <2>3, <2>4 DEF IInv, Types, Places
  <2>6. WritingInv' /\ SessionInv'
    BY <2>1, <2>2, <2>3 DEF WritingInv, SessionInv, InSession, IInv
  <2>7. GreetInv'
    BY <2>1, <2>4, GreetStep DEF IInv
  <2> QED
    BY <2>3, <2>5, <2>6, <2>7 DEF IInv
<1>2. CASE EndSaveKey \/ CloseEndsSave
  <2>1. /\ pc \in {"saving", "last save"} /\ pc' \in {"drain", "key", "release"}
        /\ Fills(work) /\ launch' = launch /\ work' = work /\ edits' = edits
        /\ greeted' = greeted /\ faults' \in {faults, faults + 1}
    BY <1>2 DEF EndSaveKey, CloseEndsSave, Handled, Fault
  <2>2. writing = launch.path /\ writing \in Paths
    BY <2>1 DEF IInv, WritingInv
  <2>3. launch.path # NoPath
    BY <2>2, LifetimeAssumption
  <2>4. held[writing] \subseteq work /\ work \in Contents
    BY <2>1, <2>2, <2>3 DEF IInv, SessionInv, InSession, Types
  <2>5. /\ files' \in [Paths -> Contents \cup {Missing, Torn}]
        /\ held' \in [Paths -> Contents]
        /\ held' = [held EXCEPT ![writing] = work]
        /\ FilesInv'
    BY <2>1, <2>2, <2>4, FillsKeeps DEF IInv
  <2>6. sentinel' = sentinel
    BY <2>1 DEF Fills
  <2>7. GreetInv' /\ faults' \in Nat
    BY <2>1, <2>6, GreetStep DEF IInv
  <2>8. Types'
    BY <2>1, <2>5, <2>6, <2>7 DEF IInv, Types, Places
  <2>9. held'[launch.path] = work
    BY <2>2, <2>5 DEF IInv, Types
  <2>10. WritingInv' /\ SessionInv'
    BY <2>1, <2>9 DEF WritingInv, SessionInv
  <2> QED
    BY <2>5, <2>7, <2>8, <2>10 DEF IInv
<1> QED
  BY <1>1, <1>2

\* A new notebook is written, where there was no file.
LEMMA NewNotebookKeeps ==
  ASSUME IInv, NewNotebookKey \/ EndNewNotebookKey
  PROVE  IInv'
<1> USE DEF Key
<1>1. CASE NewNotebookKey
  <2>1. PICK n \in Notebooks : ~Exists(n) /\ Empties(n)
    BY <1>1 DEF NewNotebookKey
  <2>2. n \in Paths /\ held[n] = {}
    BY <2>1 DEF Paths, Exists, IInv, FilesInv, Kept
  <2>3. /\ pc = "key" /\ pc' = "adding" /\ launch' = launch /\ work' = work
        /\ edits' = edits /\ greeted' = greeted /\ faults' = faults
    BY <1>1 DEF NewNotebookKey
  <2>4. /\ files' \in [Paths -> Contents \cup {Missing, Torn}]
        /\ held' = held /\ writing' = n
        /\ FilesInv'
    BY <2>1, <2>2, EmptiesKeeps DEF IInv
  <2>5. sentinel' = sentinel
    BY <2>1 DEF Empties
  <2>6. Types'
    BY <2>3, <2>4, <2>5 DEF IInv, Types, Places
  <2>7. WritingInv' /\ SessionInv'
    BY <2>2, <2>3, <2>4 DEF WritingInv, SessionInv, InSession, IInv
  <2>8. GreetInv'
    BY <2>3, <2>5, GreetStep DEF IInv
  <2> QED
    BY <2>4, <2>6, <2>7, <2>8 DEF IInv
<1>2. CASE EndNewNotebookKey
  <2>1. /\ pc = "adding" /\ pc' \in {"drain", "key"} /\ Fills({}) /\ launch' = launch
        /\ work' = work /\ edits' = edits /\ greeted' = greeted
        /\ faults' \in {faults, faults + 1}
    BY <1>2 DEF EndNewNotebookKey, Handled, Fault
  <2>2. writing \in Paths /\ held[writing] = {} /\ {} \in Contents
    BY <2>1 DEF IInv, WritingInv, Contents
  <2>3. /\ files' \in [Paths -> Contents \cup {Missing, Torn}]
        /\ held' \in [Paths -> Contents]
        /\ held' = [held EXCEPT ![writing] = {}]
        /\ FilesInv'
    BY <2>1, <2>2, FillsKeeps DEF IInv
  <2>4. sentinel' = sentinel
    BY <2>1 DEF Fills
  <2>5. GreetInv' /\ faults' \in Nat
    BY <2>1, <2>4, GreetStep DEF IInv
  <2>6. Types'
    BY <2>1, <2>3, <2>4, <2>5 DEF IInv, Types, Places
  <2>7. \A p \in Paths : held'[p] \subseteq held[p]
    BY <2>2, <2>3 DEF IInv, Types
  <2>8. WritingInv'
    BY <2>1 DEF WritingInv
  <2>9. SessionInv'
    BY <2>1, <2>7 DEF SessionInv, InSession, IInv, Types
  <2> QED
    BY <2>3, <2>5, <2>6, <2>8, <2>9 DEF IInv
<1> QED
  BY <1>1, <1>2

\* The disk is full, or the program is ended from outside: what was being written
\* stays torn.
LEMMA FaultsKeep ==
  ASSUME IInv, WriteFails \/ Crash
  PROVE  IInv'
<1>1. CASE WriteFails
  <2>1. /\ pc \in {"saving", "adding"} /\ pc' = "key" /\ launch' = launch
        /\ files' = files /\ held' = held /\ sentinel' = sentinel /\ greeted' = greeted
        /\ faults' = faults + 1 /\ work' = work /\ edits' = edits
    BY <1>1 DEF WriteFails, Key, Fault
  <2>2. GreetInv' /\ faults' \in Nat
    BY <2>1, GreetStep DEF IInv
  <2>3. SessionInv'
    BY <2>1 DEF SessionInv, InSession, IInv
  <2> QED
    BY <2>1, <2>2, <2>3, QuietStep DEF IInv, Types, Places
<1>2. CASE Crash
  <2>1. /\ pc' = "down" /\ launch' = launch
        /\ files' = files /\ held' = held /\ sentinel' = sentinel /\ greeted' = greeted
        /\ faults' = faults + 1 /\ work' = work /\ edits' = edits
    BY <1>2 DEF Crash, Fault
  <2>2. faults' \in Nat
    BY <2>1 DEF IInv, Types
  <2>3. greeted' <= faults' /\ greeted' <= faults' + 1
    <3>1. greeted \in Nat /\ faults \in Nat /\ greeted <= faults + 1
      BY DEF IInv, Types, GreetInv
    <3> QED
      BY <2>1, <3>1
  <2>4. sentinel' => greeted' > 0
    BY <2>1 DEF IInv, GreetInv
  <2>5. GreetInv' /\ SessionInv'
    BY <2>1, <2>3, <2>4 DEF GreetInv, SessionInv, InSession
  <2> QED
    BY <2>1, <2>2, <2>5, QuietStep DEF IInv, Types, Places
<1> QED
  BY <1>1, <1>2

\* Release and CloseWithoutSave touch nothing.
LEMMA EndsKeep ==
  ASSUME IInv, CloseWithoutSave \/ Release
  PROVE  IInv'
<1>1. /\ pc \in {"close", "release"} /\ pc' \in {"release", "down"} /\ launch' = launch
      /\ files' = files /\ held' = held /\ sentinel' = sentinel /\ greeted' = greeted
      /\ faults' = faults /\ work' = work /\ edits' = edits
  BY DEF CloseWithoutSave, Release, Goes, disk, notebooks
<1>2. GreetInv' /\ faults' \in Nat
  BY <1>1, GreetStep DEF IInv
<1>3. SessionInv'
  BY <1>1 DEF SessionInv, InSession, IInv
<1> QED
  BY <1>1, <1>2, <1>3, QuietStep DEF IInv, Types, Places

\* Every step keeps the invariant.
LEMMA StepInv == IInv /\ [Next]_vars => IInv'
<1> SUFFICES ASSUME IInv, [Next]_vars PROVE IInv'
  OBVIOUS
<1>1. CASE StartPlain \/ StartInitialising \/ StartInDirectory \/ StartOnNotebook
  BY <1>1, StartsKeep
<1>2. CASE Startup
  BY <1>2, StartupKeeps
<1>3. CASE EditKey \/ SubmitKey \/ DeleteKey \/ QuitKey \/ EndInput \/ Draining
  BY <1>3, LoopKeeps
<1>4. CASE SaveKey \/ EndSaveKey \/ CloseBeginsSave \/ CloseEndsSave
  BY <1>4, SavesKeep
<1>5. CASE NewNotebookKey \/ EndNewNotebookKey
  BY <1>5, NewNotebookKeeps
<1>6. CASE WriteFails \/ Crash
  BY <1>6, FaultsKeep
<1>7. CASE CloseWithoutSave \/ Release
  BY <1>7, EndsKeep
<1>8. CASE UNCHANGED vars
  <2>1. /\ pc' = pc /\ launch' = launch /\ files' = files /\ held' = held
        /\ work' = work /\ edits' = edits /\ greeted' = greeted /\ faults' = faults
        /\ sentinel' = sentinel /\ writing' = writing
    BY <1>8 DEF vars, disk, notebooks, loop, ghosts
  <2>2. Types' /\ FilesInv'
    BY <2>1, SameFiles DEF IInv, Types
  <2>3. WritingInv' /\ SessionInv'
    BY <2>1 DEF IInv, WritingInv, SessionInv, InSession
  <2>4. GreetInv'
    BY <2>1 DEF IInv, GreetInv
  <2> QED
    BY <2>2, <2>3, <2>4 DEF IInv
<1> QED
  BY <1>1, <1>2, <1>3, <1>4, <1>5, <1>6, <1>7, <1>8 DEF Next, Closing

\* The invariant of every behaviour: files, writes, session and greetings agree.
THEOREM Invariance == Spec => []IInv
<1>1. Init => IInv
  BY InitInv
<1>2. IInv /\ [Next]_vars => IInv'
  BY StepInv
<1> QED
  BY <1>1, <1>2, PTL DEF Spec

\* Whatever a notebook file ever held is in it as long as it can be read: no start,
\* new notebook, save or crash loses an edit that was saved.
THEOREM SavedStaysSaved == Spec => []NothingSavedIsLost
<1>1. IInv => NothingSavedIsLost
  BY DEF IInv, FilesInv, Kept, NothingSavedIsLost
<1> QED
  BY <1>1, Invariance, PTL

\* The welcome was published before the sentinel was written, and again only after
\* a fault.
THEOREM NobodyIsSkipped == Spec => []GreetedBeforeMarked
<1>1. IInv => GreetedBeforeMarked
  BY DEF IInv, GreetInv, GreetedBeforeMarked
<1> QED
  BY <1>1, Invariance, PTL
-----------------------------------------------------------------------------
(* What is submitted.                                                      *)

\* Later submissions have larger numbers.
Increasing(q) == \A i, j \in 1..Len(q) : i < j => q[i] < q[j]
Elements(q) == {q[i] : i \in 1..Len(q)}

\* The places of main in which this launch can still hand submissions over.
Serving ==
  {"init", "initialising", "choose", "creating", "load", "record", "recording", "greet",
   "mark", "tour", "key", "drain", "saving", "adding"}

SubmissionsInv ==
  /\ submits \in Nat
  /\ handed \in Seq(1..submits) /\ batch \in Seq(1..submits) /\ pending \in Seq(1..submits)
  /\ Increasing(Submissions)
  /\ pc \in Serving /\ ~dropped => Elements(Submissions) = 1..submits

\* What is in three sequences one after the other, place by place.
LEMMA ThreeParts ==
  ASSUME NEW S, NEW a \in Seq(S), NEW b \in Seq(S), NEW c \in Seq(S)
  PROVE  /\ a \o b \in Seq(S) /\ a \o b \o c \in Seq(S)
         /\ Len(a) \in Nat /\ Len(b) \in Nat /\ Len(c) \in Nat
         /\ Len(a \o b \o c) = Len(a) + Len(b) + Len(c)
         /\ \A i \in 1..Len(a) : (a \o b \o c)[i] = a[i]
         /\ \A i \in 1..Len(b) : (a \o b \o c)[Len(a) + i] = b[i]
         /\ \A i \in 1..Len(c) : (a \o b \o c)[Len(a) + Len(b) + i] = c[i]
<1>1. Len(a) \in Nat /\ Len(b) \in Nat /\ Len(c) \in Nat
  BY LenProperties
<1> DEFINE ab == a \o b
<1>2. /\ ab \in Seq(S) /\ Len(ab) = Len(a) + Len(b)
      /\ \A i \in 1..Len(a) + Len(b) : ab[i] = IF i <= Len(a) THEN a[i] ELSE b[i - Len(a)]
  BY ConcatProperties
<1> HIDE DEF ab
<1>3. ab \in Seq(S)
  BY <1>2
<1>4. /\ ab \o c \in Seq(S) /\ Len(ab \o c) = Len(ab) + Len(c)
      /\ \A i \in 1..Len(ab) + Len(c) :
            (ab \o c)[i] = IF i <= Len(ab) THEN ab[i] ELSE c[i - Len(ab)]
  BY <1>3, ConcatProperties
<1>5. \A i \in 1..Len(a) : (ab \o c)[i] = a[i]
  BY <1>1, <1>2, <1>4
<1>6. \A i \in 1..Len(b) : (ab \o c)[Len(a) + i] = b[i]
  BY <1>1, <1>2, <1>4
<1>7. \A i \in 1..Len(c) : (ab \o c)[Len(a) + Len(b) + i] = c[i]
  BY <1>1, <1>2, <1>4
<1> QED
  BY <1>1, <1>2, <1>4, <1>5, <1>6, <1>7 DEF ab

\* One more at the end of the last.
LEMMA AppendToLast ==
  ASSUME NEW S, NEW a \in Seq(S), NEW b \in Seq(S), NEW c \in Seq(S), NEW x \in S
  PROVE  a \o b \o Append(c, x) = Append(a \o b \o c, x)
<1> DEFINE ab == a \o b
           one == <<x>>
           abc == ab \o c
<1>1. ab \in Seq(S) /\ abc \in Seq(S) /\ one \in Seq(S)
  BY ThreeParts
<1>2. Append(c, x) = c \o one
  BY AppendIsConcat
<1> HIDE DEF ab
<1>3. Append(abc, x) = abc \o one
  BY <1>1, AppendIsConcat
<1> HIDE DEF one, abc
<1>4. (ab \o c) \o one = ab \o (c \o one)
  BY <1>1, ConcatAssociative
<1> QED
  BY <1>2, <1>3, <1>4 DEF abc, ab

\* The first of the middle one goes to the end of the first.
LEMMA HandOver ==
  ASSUME NEW S, NEW a \in Seq(S), NEW b \in Seq(S), NEW c \in Seq(S), b # <<>>
  PROVE  /\ Head(b) \in S /\ Append(a, Head(b)) \in Seq(S) /\ Tail(b) \in Seq(S)
         /\ Append(a, Head(b)) \o Tail(b) \o c = a \o b \o c
<1> DEFINE h == Head(b)
           t == Tail(b)
           one == <<h>>
           oneT == one \o t
<1>1. /\ h \in S /\ t \in Seq(S) /\ Len(t) = Len(b) - 1 /\ Len(b) \in Nat /\ Len(b) >= 1
      /\ h = b[1] /\ \A i \in 1..Len(t) : t[i] = b[i + 1]
  BY HeadTailProperties, LenProperties, EmptySeq
<1>2. one \in Seq(S) /\ Len(one) = 1 /\ one[1] = h
  BY <1>1
<1>3. Append(a, h) \in Seq(S) /\ Append(a, h) = a \o one
  BY <1>1, AppendProperties, AppendIsConcat
<1> HIDE DEF h, t, one
<1>4. one \in Seq(S) /\ t \in Seq(S)
  BY <1>1, <1>2
<1>5. /\ oneT \in Seq(S) /\ Len(oneT) = Len(one) + Len(t)
      /\ \A i \in 1..Len(one) + Len(t) :
            oneT[i] = IF i <= Len(one) THEN one[i] ELSE t[i - Len(one)]
  BY <1>4, ConcatProperties
<1> HIDE DEF oneT
<1>6. ASSUME NEW i \in 1..Len(b) PROVE oneT[i] = b[i]
  <2>1. i \in 1..Len(one) + Len(t)
    BY <1>1, <1>2
  <2>2. CASE i = 1
    BY <1>1, <1>2, <1>5, <2>1, <2>2
  <2>3. CASE i # 1
    <3>1. i - 1 \in 1..Len(t) /\ i - 1 + 1 = i /\ ~(i <= 1)
      BY <1>1, <2>3
    <3>2. oneT[i] = t[i - 1]
      BY <1>2, <1>5, <2>1, <3>1
    <3> QED
      BY <1>1, <3>1, <3>2
  <2> QED
    BY <2>2, <2>3
<1>7. Len(oneT) = Len(b)
  BY <1>1, <1>2, <1>5
<1>8. oneT = b
  BY <1>5, <1>6, <1>7, SeqEqual
<1>9. (a \o one) \o t = a \o oneT
  BY <1>4, ConcatAssociative DEF oneT
<1> QED
  BY <1>1, <1>3, <1>8, <1>9 DEF h, t

\* The middle one is lost: the rest is still in order.
LEMMA MiddleLost ==
  ASSUME NEW n \in Nat, NEW a \in Seq(1..n), NEW b \in Seq(1..n), NEW c \in Seq(1..n),
         Increasing(a \o b \o c)
  PROVE  Increasing(a \o <<>> \o c)
<1> DEFINE q == a \o b \o c
           none == <<>>
           r == a \o none \o c
<1>1. none \in Seq(1..n) /\ Len(none) = 0
  BY EmptySeq
<1> HIDE DEF none
<1>2. /\ Len(a) \in Nat /\ Len(b) \in Nat /\ Len(c) \in Nat
      /\ Len(q) = Len(a) + Len(b) + Len(c)
      /\ \A i \in 1..Len(a) : q[i] = a[i]
      /\ \A i \in 1..Len(c) : q[Len(a) + Len(b) + i] = c[i]
  BY ThreeParts
<1>3. /\ Len(r) = Len(a) + Len(none) + Len(c)
      /\ \A i \in 1..Len(a) : r[i] = a[i]
      /\ \A i \in 1..Len(c) : r[Len(a) + Len(none) + i] = c[i]
  BY <1>1, ThreeParts
<1> HIDE DEF q, r
<1> DEFINE At(i) == IF i <= Len(a) THEN i ELSE i + Len(b)
<1>4. ASSUME NEW i \in 1..Len(r) PROVE At(i) \in 1..Len(q) /\ r[i] = q[At(i)]
  <2>1. Len(r) = Len(a) + Len(c) /\ i \in Nat
    BY <1>1, <1>2, <1>3
  <2>2. CASE i <= Len(a)
    BY <1>2, <1>3, <2>1, <2>2
  <2>3. CASE i > Len(a)
    <3>1. i - Len(a) \in 1..Len(c)
      BY <1>2, <2>1, <2>3
    <3>2. r[i] = c[i - Len(a)]
      <4>1. Len(a) + Len(none) + (i - Len(a)) = i
        BY <1>1, <1>2, <2>1
      <4> QED
        BY <1>3, <3>1, <4>1
    <3>3. q[i + Len(b)] = c[i - Len(a)]
      <4>1. Len(a) + Len(b) + (i - Len(a)) = i + Len(b)
        BY <1>2, <2>1
      <4> QED
        BY <1>2, <3>1, <4>1
    <3> QED
      BY <1>2, <2>1, <2>3, <3>2, <3>3
  <2> QED
    BY <1>2, <2>1, <2>2, <2>3
<1>5. ASSUME NEW i \in 1..Len(r), NEW j \in 1..Len(r), i < j PROVE At(i) < At(j)
  BY <1>1, <1>2, <1>3, <1>5
<1>6. Increasing(q)
  BY DEF q
<1>7. ASSUME NEW i \in 1..Len(r), NEW j \in 1..Len(r), i < j PROVE r[i] < r[j]
  <2>1. At(i) \in 1..Len(q) /\ At(j) \in 1..Len(q) /\ r[i] = q[At(i)] /\ r[j] = q[At(j)]
    BY <1>4
  <2>2. At(i) < At(j)
    BY <1>5, <1>7
  <2> QED
    BY <1>6, <2>1, <2>2 DEF Increasing
<1> QED
  BY <1>7 DEF Increasing, r, none

\* It holds at first.
LEMMA SubmissionsInit == Init => SubmissionsInv
<1> SUFFICES ASSUME Init PROVE SubmissionsInv
  OBVIOUS
<1>1. submits = 0 /\ handed = <<>> /\ batch = <<>> /\ pending = <<>> /\ pc \notin Serving
  BY DEF Init, Serving
<1>2. Submissions = <<>>
  BY <1>1, EmptySeq, ConcatEmptySeq DEF Submissions
<1> QED
  BY <1>1, <1>2, EmptySeq DEF SubmissionsInv, Increasing

\* A step that leaves the submissions alone, and does not bring main back to the
\* loop or take a report back.
LEMMA SubmissionsSame ==
  ASSUME SubmissionsInv, UNCHANGED <<pending, batch, handed, submits>>,
         pc' \in Serving /\ ~dropped' => pc \in Serving /\ ~dropped
  PROVE  SubmissionsInv'
<1>1. UNCHANGED Submissions
  BY DEF Submissions
<1> QED
  BY <1>1 DEF SubmissionsInv

\* So it is with every step but the start of a launch, a submission and the drain.
LEMMA SubmissionsElsewhere ==
  ASSUME SubmissionsInv,
         \/ Startup \/ Closing \/ EditKey \/ DeleteKey \/ QuitKey \/ SaveKey \/ EndSaveKey
         \/ NewNotebookKey \/ EndNewNotebookKey \/ WriteFails \/ EndInput \/ Drained
         \/ Crash \/ UNCHANGED vars
  PROVE  SubmissionsInv'
<1> USE DEF Serving
<1>1. CASE Startup
  BY <1>1, SubmissionsSame
  DEF Startup, BeginInit, EndInit, Choose, BeginDefault, EndDefault, Load, LoadFails,
      BeginRecord, EndRecord, Greet, Mark, GreetNobody, Tour, Goes, AfterLoad, loop
<1>2. CASE Closing
  BY <1>2, SubmissionsSame
  DEF Closing, CloseBeginsSave, CloseEndsSave, CloseWithoutSave, Release, Goes, loop
<1>3. CASE EditKey \/ DeleteKey \/ QuitKey \/ EndSaveKey \/ EndNewNotebookKey
  BY <1>3, SubmissionsSame
  DEF EditKey, DeleteKey, QuitKey, EndSaveKey, EndNewNotebookKey, Key, Handled
<1>4. CASE SaveKey \/ NewNotebookKey \/ WriteFails
  BY <1>4, SubmissionsSame DEF SaveKey, NewNotebookKey, WriteFails, Key
<1>5. CASE EndInput \/ Drained \/ Crash \/ UNCHANGED vars
  BY <1>5, SubmissionsSame DEF EndInput, Drained, Crash, InLoop, loop, ghosts, vars
<1> QED
  BY <1>1, <1>2, <1>3, <1>4, <1>5

\* A launch begins with nothing submitted.
LEMMA SubmissionsFresh ==
  ASSUME StartPlain \/ StartInitialising \/ StartInDirectory \/ StartOnNotebook
  PROVE  SubmissionsInv'
<1>1. submits' = 0 /\ handed' = <<>> /\ batch' = <<>> /\ pending' = <<>>
  BY DEF StartPlain, StartInitialising, StartInDirectory, StartOnNotebook, Start
<1>2. Submissions' = <<>>
  BY <1>1, EmptySeq, ConcatEmptySeq DEF Submissions
<1> QED
  BY <1>1, <1>2, EmptySeq DEF SubmissionsInv, Increasing, Elements

\* The next number at the end of numbers up to it.
LEMMA NextNumber ==
  ASSUME NEW n \in Nat, NEW q \in Seq(1..n), Increasing(q)
  PROVE  /\ Increasing(Append(q, n + 1))
         /\ Elements(q) = 1..n => Elements(Append(q, n + 1)) = 1..n + 1
<1> DEFINE r == Append(q, n + 1)
<1>1. /\ Len(q) \in Nat /\ q \in Seq(1..n + 1) /\ n + 1 \in 1..n + 1
      /\ \A i \in 1..Len(q) : q[i] \in 1..n
  BY LenProperties, ElementOfSeq, SeqMonotonic
<1>2. /\ Len(r) = Len(q) + 1 /\ r[Len(q) + 1] = n + 1
      /\ \A i \in 1..Len(q) : r[i] = q[i]
  BY <1>1, AppendProperties
<1> HIDE DEF r
<1>3. ASSUME NEW i \in 1..Len(r), NEW j \in 1..Len(r), i < j PROVE r[i] < r[j]
  <2>1. i \in 1..Len(q) /\ r[i] = q[i] /\ q[i] \in 1..n
    BY <1>1, <1>2, <1>3
  <2>2. CASE j = Len(q) + 1
    BY <1>2, <2>1, <2>2
  <2>3. CASE j \in 1..Len(q)
    BY <1>2, <1>3, <2>1, <2>3 DEF Increasing
  <2> QED
    BY <1>1, <1>2, <2>2, <2>3
<1>4. ASSUME Elements(q) = 1..n PROVE Elements(r) = 1..n + 1
  <2>1. Elements(r) \subseteq 1..n + 1
    BY <1>1, <1>2 DEF Elements
  <2>2. ASSUME NEW k \in 1..n + 1 PROVE k \in Elements(r)
    <3>1. CASE k = n + 1
      BY <1>1, <1>2, <3>1 DEF Elements
    <3>2. CASE k \in 1..n
      <4>1. PICK i \in 1..Len(q) : q[i] = k
        BY <1>4, <3>2 DEF Elements
      <4> QED
        BY <1>1, <1>2, <4>1 DEF Elements
    <3> QED
      BY <3>1, <3>2
  <2> QED
    BY <2>1, <2>2
<1> QED
  BY <1>3, <1>4 DEF Increasing, r

\* A submission is one more at the end.
LEMMA SubmissionsSubmit ==
  ASSUME SubmissionsInv, SubmitKey
  PROVE  SubmissionsInv'
<1> DEFINE n == submits
           S == 1..submits + 1
<1>1. /\ n \in Nat /\ submits' = n + 1 /\ handed' = handed /\ batch' = batch
      /\ pending' = Append(pending, n + 1)
      /\ pc \in Serving /\ (~dropped' => ~dropped)
  BY DEF SubmitKey, Key, Handled, SubmissionsInv, Serving
<1>2. 1..n \subseteq S /\ n + 1 \in S
  BY <1>1
<1>3. handed \in Seq(S) /\ batch \in Seq(S) /\ pending \in Seq(S)
  BY <1>2, SeqMonotonic DEF SubmissionsInv
<1>4. pending' \in Seq(S)
  BY <1>1, <1>2, <1>3, AppendProperties
<1>5. handed \o batch \o Append(pending, n + 1) = Append(handed \o batch \o pending, n + 1)
  <2> DEFINE x == n + 1
  <2>1. x \in S
    BY <1>2
  <2> HIDE DEF x, S
  <2>2. handed \o batch \o Append(pending, x) = Append(handed \o batch \o pending, x)
    BY <1>3, <2>1, AppendToLast
  <2> QED
    BY <2>2 DEF x
<1>6. Submissions' = Append(Submissions, n + 1)
  BY <1>1, <1>5 DEF Submissions
<1>7. Submissions \in Seq(1..n) /\ Increasing(Submissions)
  BY ThreeParts DEF SubmissionsInv, Submissions
<1>8. /\ Increasing(Append(Submissions, n + 1))
      /\ Elements(Submissions) = 1..n => Elements(Append(Submissions, n + 1)) = 1..n + 1
  BY <1>1, <1>7, NextNumber
<1> QED
  BY <1>1, <1>3, <1>4, <1>6, <1>8 DEF SubmissionsInv

\* The drain takes what is pending, hands over what it took, and loses it only if
\* it reports a failure.
LEMMA SubmissionsDrain ==
  ASSUME SubmissionsInv, Drain \/ Execute \/ ExecuteFails
  PROVE  SubmissionsInv'
<1> DEFINE S == 1..submits
<1>1. /\ submits \in Nat /\ submits' = submits /\ pc = "drain"
      /\ handed \in Seq(S) /\ batch \in Seq(S) /\ pending \in Seq(S)
      /\ <<>> \in Seq(S)
  BY EmptySeq DEF SubmissionsInv, Drain, Execute, ExecuteFails, InLoop
<1>2. CASE Drain
  <2>1. batch = <<>> /\ batch' = pending /\ pending' = <<>> /\ handed' = handed
        /\ dropped' = dropped
    BY <1>2 DEF Drain, TakePending
  <2>2. handed \o <<>> = handed
    BY <1>1, ConcatEmptySeq
  <2>3. handed \o pending \in Seq(S)
    BY <1>1, ConcatProperties
  <2>4. handed \o pending \o <<>> = handed \o pending
    BY <2>3, ConcatEmptySeq
  <2>5. Submissions' = Submissions
    BY <2>1, <2>2, <2>4 DEF Submissions
  <2> QED
    BY <1>1, <2>1, <2>5 DEF SubmissionsInv, Serving
<1>3. CASE Execute
  <2>1. batch # <<>> /\ handed' = Append(handed, Head(batch)) /\ batch' = Tail(batch)
        /\ pending' = pending /\ dropped' = dropped
    BY <1>3 DEF Execute
  <2>2. /\ Append(handed, Head(batch)) \in Seq(S) /\ Tail(batch) \in Seq(S)
        /\ Append(handed, Head(batch)) \o Tail(batch) \o pending = handed \o batch \o pending
    <3> HIDE DEF S
    <3> QED
      BY <1>1, <2>1, HandOver
  <2>3. Submissions' = Submissions
    BY <2>1, <2>2 DEF Submissions
  <2> QED
    BY <1>1, <2>1, <2>2, <2>3 DEF SubmissionsInv, Serving
<1>4. CASE ExecuteFails
  <2>1. batch' = <<>> /\ handed' = handed /\ pending' = pending /\ dropped' = TRUE
    BY <1>4 DEF ExecuteFails
  <2>2. Increasing(handed \o <<>> \o pending)
    BY <1>1, MiddleLost DEF SubmissionsInv, Submissions
  <2>3. Increasing(Submissions)'
    BY <2>1, <2>2 DEF Submissions, Increasing
  <2> QED
    BY <1>1, <2>1, <2>3 DEF SubmissionsInv
<1> QED
  BY <1>2, <1>3, <1>4

\* What is submitted in a launch is handed over once and in the order of submission,
\* and nothing of it gets lost until execute has refused a cell.
THEOREM EverySubmissionCounts == Spec => []SubmissionsAccounted
<1>1. Init => SubmissionsInv
  BY SubmissionsInit
<1>2. SubmissionsInv /\ [Next]_vars => SubmissionsInv'
  BY SubmissionsElsewhere, SubmissionsFresh, SubmissionsSubmit, SubmissionsDrain
  DEF Next, Draining
<1>3. SubmissionsInv => SubmissionsAccounted
  BY DEF SubmissionsInv, Increasing, Elements, Serving, SubmissionsAccounted
<1> QED
  BY <1>1, <1>2, <1>3, PTL DEF Spec
-----------------------------------------------------------------------------
(* The console: what a key can mean in each layer. *)

NotebookActions == {
  "open_action_menu", "repeat_last_narration", "move_up", "move_down",
  "move_to_top", "move_to_bottom", "enter_input", "new_cell", "view_output",
  "open_settings", "open_event_log", "delete_cell", "duplicate_cell",
  "move_cell_up", "move_cell_down", "next_heading", "prev_heading",
  "next_parent_heading", "prev_parent_heading", "toggle_fold_heading",
  "next_heading_1", "next_heading_2", "next_heading_3", "next_heading_4",
  "next_heading_5", "next_heading_6", "begin_text_input"}

InputActions == {
  "open_action_menu", "repeat_last_narration", "backspace", "delete_forward",
  "cursor_left", "cursor_right", "cursor_home", "cursor_end", "delete_word_left",
  "delete_to_start", "delete_to_end", "history_previous", "history_next",
  "cancel_command", "submit", "exit_input"}

TextInputActions == {
  "open_action_menu", "repeat_last_narration", "backspace", "delete_forward",
  "cursor_left", "cursor_right", "cursor_home", "cursor_end", "delete_word_left",
  "delete_to_start", "delete_to_end", "submit_text_input", "abandon_text_input"}

OutputActions == {
  "open_action_menu", "output_line_up", "output_line_down", "output_page_up",
  "output_page_down", "output_to_start", "output_to_end", "exit_output",
  "output_search_begin", "output_goto_begin", "output_search_next",
  "output_search_prev", "output_playback_toggle"}

SettingsActions == {
  "settings_prev", "settings_next", "settings_ascend", "settings_descend",
  "settings_begin_edit", "settings_search_begin", "settings_search_next",
  "settings_search_prev", "settings_save", "settings_close", "settings_undo",
  "settings_redo", "settings_reset_begin"}

EventLogActions == {
  "event_log_previous", "event_log_next", "event_log_jump_to_binding",
  "event_log_close", "event_log_begin_quick_edit", "event_log_replay"}

MenuOpenActions == {
  "menu_prev", "menu_next", "menu_activate", "menu_close"}

ComposerActions == {
  "output_composer_commit", "output_composer_cancel", "output_composer_backspace"}

EditActions == {
  "settings_edit_commit", "settings_edit_cancel", "settings_edit_backspace"}

SearchActions == {
  "settings_search_commit", "settings_search_cancel", "settings_search_backspace"}

ResetActions == {
  "settings_reset_confirm", "settings_reset_cancel"}

QuickEditActions == {
  "event_log_quick_edit_commit", "event_log_quick_edit_cancel",
  "event_log_quick_edit_backspace", "event_log_begin_quick_edit"}

\* What a key can mean in each layer, and what Escape means there.
ActionsIn == [
  notebook |-> NotebookActions,
  input |-> InputActions,
  text_input |-> TextInputActions,
  output |-> OutputActions,
  settings |-> SettingsActions,
  event_log |-> EventLogActions,
  menu |-> MenuOpenActions,
  composer |-> ComposerActions,
  edit |-> EditActions,
  search |-> SearchActions,
  reset |-> ResetActions,
  quick_edit |-> QuickEditActions]

EscapeIn == [
  notebook |-> "none",
  input |-> "exit_input",
  text_input |-> "abandon_text_input",
  output |-> "exit_output",
  settings |-> "settings_ascend",
  event_log |-> "event_log_close",
  menu |-> "menu_close",
  composer |-> "output_composer_cancel",
  edit |-> "settings_edit_cancel",
  search |-> "settings_search_cancel",
  reset |-> "settings_reset_cancel",
  quick_edit |-> "event_log_quick_edit_cancel"]

-----------------------------------------------------------------------------
(* The tables.  What a key means in one layer are its actions, and Escape  *)
(* means one of them.                                                      *)

\* An action that a key is mapped to is one of the actions.
LEMMA MappedIsAnAction ==
  ASSUME NEW layer \in Layers, NEW key, NEW action, <<key, action>> \in KeyMap[layer]
  PROVE  action \in Actions /\ key \in Keys
<1>1. <<key, action>>[2] = action /\ <<key, action>>[1] = key
  OBVIOUS
<1>2. /\ action \in {pair[2] : pair \in KeyMap[layer]}
      /\ key \in {pair[1] : pair \in KeyMap[layer]}
  BY <1>1
<1> QED
  BY <1>2 DEF Actions, Keys

\* What a key means in the layer "notebook".
LEMMA NotebookKeysMean ==
  /\ NotebookActions \subseteq Actions
  /\ \A key, action : <<key, action>> \in NotebookKeys =>
       action \in NotebookActions /\ (key = "escape" => action = EscapeIn["notebook"])
<1>1. ASSUME NEW key, NEW action, <<key, action>> \in NotebookKeys
      PROVE  /\ action \in NotebookActions
             /\ key = "escape" => action = EscapeIn["notebook"]
  BY <1>1 DEF NotebookKeys, MenuKeys, Repeat, NotebookActions, EscapeIn
<1>2. "notebook" \in Layers /\ KeyMap["notebook"] = NotebookKeys
  BY DEF Layers, Modes, SubModes, KeyMap
<1>3. \A key, action : <<key, action>> \in NotebookKeys => action \in Actions
  BY <1>2, MappedIsAnAction
<1>4. {<<"f2", "open_action_menu">>, <<"ctrl+r", "repeat_last_narration">>,
       <<"up", "move_up">>, <<"down", "move_down">>,
       <<"home", "move_to_top">>, <<"end", "move_to_bottom">>,
       <<"enter", "enter_input">>, <<"ctrl+n", "new_cell">>,
       <<"ctrl+o", "view_output">>, <<"ctrl+,", "open_settings">>,
       <<"ctrl+e", "open_event_log">>, <<"d", "delete_cell">>,
       <<"y", "duplicate_cell">>, <<"alt+up", "move_cell_up">>,
       <<"alt+down", "move_cell_down">>, <<"]", "next_heading">>,
       <<"[", "prev_heading">>, <<"}", "next_parent_heading">>,
       <<"{", "prev_parent_heading">>, <<"z", "toggle_fold_heading">>,
       <<"1", "next_heading_1">>, <<"2", "next_heading_2">>,
       <<"3", "next_heading_3">>, <<"4", "next_heading_4">>,
       <<"5", "next_heading_5">>, <<"6", "next_heading_6">>,
       <<"i", "begin_text_input">>}
        \subseteq NotebookKeys
  BY DEF NotebookKeys, MenuKeys, Repeat
<1>5. ASSUME NEW action \in NotebookActions PROVE action \in Actions
  BY <1>3, <1>4, <1>5 DEF NotebookActions
<1> QED
  BY <1>1, <1>5

\* What a key means in the layer "input".
LEMMA InputKeysMean ==
  /\ InputActions \subseteq Actions
  /\ \A key, action : <<key, action>> \in InputKeys =>
       action \in InputActions /\ (key = "escape" => action = EscapeIn["input"])
<1>1. ASSUME NEW key, NEW action, <<key, action>> \in InputKeys
      PROVE  /\ action \in InputActions
             /\ key = "escape" => action = EscapeIn["input"]
  BY <1>1 DEF InputKeys, LineKeys, MenuKeys, Repeat, InputActions, EscapeIn
<1>2. "input" \in Layers /\ KeyMap["input"] = InputKeys
  BY DEF Layers, Modes, SubModes, KeyMap
<1>3. \A key, action : <<key, action>> \in InputKeys => action \in Actions
  BY <1>2, MappedIsAnAction
<1>4. {<<"f2", "open_action_menu">>, <<"ctrl+r", "repeat_last_narration">>,
       <<"backspace", "backspace">>, <<"delete", "delete_forward">>,
       <<"left", "cursor_left">>, <<"right", "cursor_right">>,
       <<"home", "cursor_home">>, <<"end", "cursor_end">>,
       <<"ctrl+w", "delete_word_left">>, <<"ctrl+u", "delete_to_start">>,
       <<"ctrl+k", "delete_to_end">>, <<"up", "history_previous">>,
       <<"down", "history_next">>, <<"ctrl+c", "cancel_command">>,
       <<"enter", "submit">>, <<"escape", "exit_input">>}
        \subseteq InputKeys
  BY DEF InputKeys, LineKeys, MenuKeys, Repeat
<1>5. ASSUME NEW action \in InputActions PROVE action \in Actions
  BY <1>3, <1>4, <1>5 DEF InputActions
<1> QED
  BY <1>1, <1>5

\* What a key means in the layer "text_input".
LEMMA TextInputKeysMean ==
  /\ TextInputActions \subseteq Actions
  /\ \A key, action : <<key, action>> \in TextInputKeys =>
       action \in TextInputActions /\ (key = "escape" => action = EscapeIn["text_input"])
<1>1. ASSUME NEW key, NEW action, <<key, action>> \in TextInputKeys
      PROVE  /\ action \in TextInputActions
             /\ key = "escape" => action = EscapeIn["text_input"]
  BY <1>1 DEF TextInputKeys, LineKeys, MenuKeys, Repeat, TextInputActions, EscapeIn
<1>2. "text_input" \in Layers /\ KeyMap["text_input"] = TextInputKeys
  BY DEF Layers, Modes, SubModes, KeyMap
<1>3. \A key, action : <<key, action>> \in TextInputKeys => action \in Actions
  BY <1>2, MappedIsAnAction
<1>4. {<<"f2", "open_action_menu">>, <<"ctrl+r", "repeat_last_narration">>,
       <<"backspace", "backspace">>, <<"delete", "delete_forward">>,
       <<"left", "cursor_left">>, <<"right", "cursor_right">>,
       <<"home", "cursor_home">>, <<"end", "cursor_end">>,
       <<"ctrl+w", "delete_word_left">>, <<"ctrl+u", "delete_to_start">>,
       <<"ctrl+k", "delete_to_end">>, <<"enter", "submit_text_input">>,
       <<"escape", "abandon_text_input">>}
        \subseteq TextInputKeys
  BY DEF TextInputKeys, LineKeys, MenuKeys, Repeat
<1>5. ASSUME NEW action \in TextInputActions PROVE action \in Actions
  BY <1>3, <1>4, <1>5 DEF TextInputActions
<1> QED
  BY <1>1, <1>5

\* What a key means in the layer "output".
LEMMA OutputKeysMean ==
  /\ OutputActions \subseteq Actions
  /\ \A key, action : <<key, action>> \in OutputKeys =>
       action \in OutputActions /\ (key = "escape" => action = EscapeIn["output"])
<1>1. ASSUME NEW key, NEW action, <<key, action>> \in OutputKeys
      PROVE  /\ action \in OutputActions
             /\ key = "escape" => action = EscapeIn["output"]
  BY <1>1 DEF OutputKeys, MenuKeys, OutputActions, EscapeIn
<1>2. "output" \in Layers /\ KeyMap["output"] = OutputKeys
  BY DEF Layers, Modes, SubModes, KeyMap
<1>3. \A key, action : <<key, action>> \in OutputKeys => action \in Actions
  BY <1>2, MappedIsAnAction
<1>4. {<<"f2", "open_action_menu">>, <<"up", "output_line_up">>,
       <<"down", "output_line_down">>, <<"page_up", "output_page_up">>,
       <<"page_down", "output_page_down">>, <<"home", "output_to_start">>,
       <<"end", "output_to_end">>, <<"escape", "exit_output">>,
       <<"/", "output_search_begin">>, <<"g", "output_goto_begin">>,
       <<"n", "output_search_next">>, <<"N", "output_search_prev">>,
       <<"p", "output_playback_toggle">>}
        \subseteq OutputKeys
  BY DEF OutputKeys, MenuKeys
<1>5. ASSUME NEW action \in OutputActions PROVE action \in Actions
  BY <1>3, <1>4, <1>5 DEF OutputActions
<1> QED
  BY <1>1, <1>5

\* What a key means in the layer "settings".
LEMMA SettingsKeysMean ==
  /\ SettingsActions \subseteq Actions
  /\ \A key, action : <<key, action>> \in SettingsKeys =>
       action \in SettingsActions /\ (key = "escape" => action = EscapeIn["settings"])
<1>1. ASSUME NEW key, NEW action, <<key, action>> \in SettingsKeys
      PROVE  /\ action \in SettingsActions
             /\ key = "escape" => action = EscapeIn["settings"]
  BY <1>1 DEF SettingsKeys, SettingsActions, EscapeIn
<1>2. "settings" \in Layers /\ KeyMap["settings"] = SettingsKeys
  BY DEF Layers, Modes, SubModes, KeyMap
<1>3. \A key, action : <<key, action>> \in SettingsKeys => action \in Actions
  BY <1>2, MappedIsAnAction
<1>4. {<<"up", "settings_prev">>, <<"down", "settings_next">>,
       <<"left", "settings_ascend">>, <<"right", "settings_descend">>,
       <<"e", "settings_begin_edit">>, <<"/", "settings_search_begin">>,
       <<"n", "settings_search_next">>, <<"N", "settings_search_prev">>,
       <<"ctrl+s", "settings_save">>, <<"ctrl+q", "settings_close">>,
       <<"ctrl+z", "settings_undo">>, <<"ctrl+y", "settings_redo">>,
       <<"ctrl+r", "settings_reset_begin">>}
        \subseteq SettingsKeys
  BY DEF SettingsKeys
<1>5. ASSUME NEW action \in SettingsActions PROVE action \in Actions
  BY <1>3, <1>4, <1>5 DEF SettingsActions
<1> QED
  BY <1>1, <1>5

\* What a key means in the layer "event_log".
LEMMA EventLogKeysMean ==
  /\ EventLogActions \subseteq Actions
  /\ \A key, action : <<key, action>> \in EventLogKeys =>
       action \in EventLogActions /\ (key = "escape" => action = EscapeIn["event_log"])
<1>1. ASSUME NEW key, NEW action, <<key, action>> \in EventLogKeys
      PROVE  /\ action \in EventLogActions
             /\ key = "escape" => action = EscapeIn["event_log"]
  BY <1>1 DEF EventLogKeys, EventLogActions, EscapeIn
<1>2. "event_log" \in Layers /\ KeyMap["event_log"] = EventLogKeys
  BY DEF Layers, Modes, SubModes, KeyMap
<1>3. \A key, action : <<key, action>> \in EventLogKeys => action \in Actions
  BY <1>2, MappedIsAnAction
<1>4. {<<"up", "event_log_previous">>, <<"down", "event_log_next">>,
       <<"enter", "event_log_jump_to_binding">>, <<"escape", "event_log_close">>,
       <<"e", "event_log_begin_quick_edit">>, <<"t", "event_log_replay">>}
        \subseteq EventLogKeys
  BY DEF EventLogKeys
<1>5. ASSUME NEW action \in EventLogActions PROVE action \in Actions
  BY <1>3, <1>4, <1>5 DEF EventLogActions
<1> QED
  BY <1>1, <1>5

\* What a key means in the layer "menu".
LEMMA MenuOpenKeysMean ==
  /\ MenuOpenActions \subseteq Actions
  /\ \A key, action : <<key, action>> \in MenuOpenKeys =>
       action \in MenuOpenActions /\ (key = "escape" => action = EscapeIn["menu"])
<1>1. ASSUME NEW key, NEW action, <<key, action>> \in MenuOpenKeys
      PROVE  /\ action \in MenuOpenActions
             /\ key = "escape" => action = EscapeIn["menu"]
  BY <1>1 DEF MenuOpenKeys, MenuOpenActions, EscapeIn
<1>2. "menu" \in Layers /\ KeyMap["menu"] = MenuOpenKeys
  BY DEF Layers, Modes, SubModes, KeyMap
<1>3. \A key, action : <<key, action>> \in MenuOpenKeys => action \in Actions
  BY <1>2, MappedIsAnAction
<1>4. {<<"up", "menu_prev">>, <<"down", "menu_next">>,
       <<"enter", "menu_activate">>, <<"escape", "menu_close">>}
        \subseteq MenuOpenKeys
  BY DEF MenuOpenKeys
<1>5. ASSUME NEW action \in MenuOpenActions PROVE action \in Actions
  BY <1>3, <1>4, <1>5 DEF MenuOpenActions
<1> QED
  BY <1>1, <1>5

\* What a key means in the layer "composer".
LEMMA ComposerKeysMean ==
  /\ ComposerActions \subseteq Actions
  /\ \A key, action : <<key, action>> \in ComposerKeys =>
       action \in ComposerActions /\ (key = "escape" => action = EscapeIn["composer"])
<1>1. ASSUME NEW key, NEW action, <<key, action>> \in ComposerKeys
      PROVE  /\ action \in ComposerActions
             /\ key = "escape" => action = EscapeIn["composer"]
  BY <1>1 DEF ComposerKeys, ComposerActions, EscapeIn
<1>2. "composer" \in Layers /\ KeyMap["composer"] = ComposerKeys
  BY DEF Layers, Modes, SubModes, KeyMap
<1>3. \A key, action : <<key, action>> \in ComposerKeys => action \in Actions
  BY <1>2, MappedIsAnAction
<1>4. {<<"enter", "output_composer_commit">>, <<"escape", "output_composer_cancel">>,
       <<"backspace", "output_composer_backspace">>}
        \subseteq ComposerKeys
  BY DEF ComposerKeys
<1>5. ASSUME NEW action \in ComposerActions PROVE action \in Actions
  BY <1>3, <1>4, <1>5 DEF ComposerActions
<1> QED
  BY <1>1, <1>5

\* What a key means in the layer "edit".
LEMMA EditKeysMean ==
  /\ EditActions \subseteq Actions
  /\ \A key, action : <<key, action>> \in EditKeys =>
       action \in EditActions /\ (key = "escape" => action = EscapeIn["edit"])
<1>1. ASSUME NEW key, NEW action, <<key, action>> \in EditKeys
      PROVE  /\ action \in EditActions
             /\ key = "escape" => action = EscapeIn["edit"]
  BY <1>1 DEF EditKeys, EditActions, EscapeIn
<1>2. "edit" \in Layers /\ KeyMap["edit"] = EditKeys
  BY DEF Layers, Modes, SubModes, KeyMap
<1>3. \A key, action : <<key, action>> \in EditKeys => action \in Actions
  BY <1>2, MappedIsAnAction
<1>4. {<<"enter", "settings_edit_commit">>, <<"escape", "settings_edit_cancel">>,
       <<"backspace", "settings_edit_backspace">>}
        \subseteq EditKeys
  BY DEF EditKeys
<1>5. ASSUME NEW action \in EditActions PROVE action \in Actions
  BY <1>3, <1>4, <1>5 DEF EditActions
<1> QED
  BY <1>1, <1>5

\* What a key means in the layer "search".
LEMMA SearchKeysMean ==
  /\ SearchActions \subseteq Actions
  /\ \A key, action : <<key, action>> \in SearchKeys =>
       action \in SearchActions /\ (key = "escape" => action = EscapeIn["search"])
<1>1. ASSUME NEW key, NEW action, <<key, action>> \in SearchKeys
      PROVE  /\ action \in SearchActions
             /\ key = "escape" => action = EscapeIn["search"]
  BY <1>1 DEF SearchKeys, SearchActions, EscapeIn
<1>2. "search" \in Layers /\ KeyMap["search"] = SearchKeys
  BY DEF Layers, Modes, SubModes, KeyMap
<1>3. \A key, action : <<key, action>> \in SearchKeys => action \in Actions
  BY <1>2, MappedIsAnAction
<1>4. {<<"enter", "settings_search_commit">>, <<"escape", "settings_search_cancel">>,
       <<"backspace", "settings_search_backspace">>}
        \subseteq SearchKeys
  BY DEF SearchKeys
<1>5. ASSUME NEW action \in SearchActions PROVE action \in Actions
  BY <1>3, <1>4, <1>5 DEF SearchActions
<1> QED
  BY <1>1, <1>5

\* What a key means in the layer "reset".
LEMMA ResetKeysMean ==
  /\ ResetActions \subseteq Actions
  /\ \A key, action : <<key, action>> \in ResetKeys =>
       action \in ResetActions /\ (key = "escape" => action = EscapeIn["reset"])
<1>1. ASSUME NEW key, NEW action, <<key, action>> \in ResetKeys
      PROVE  /\ action \in ResetActions
             /\ key = "escape" => action = EscapeIn["reset"]
  BY <1>1 DEF ResetKeys, ResetActions, EscapeIn
<1>2. "reset" \in Layers /\ KeyMap["reset"] = ResetKeys
  BY DEF Layers, Modes, SubModes, KeyMap
<1>3. \A key, action : <<key, action>> \in ResetKeys => action \in Actions
  BY <1>2, MappedIsAnAction
<1>4. {<<"enter", "settings_reset_confirm">>, <<"escape", "settings_reset_cancel">>}
        \subseteq ResetKeys
  BY DEF ResetKeys
<1>5. ASSUME NEW action \in ResetActions PROVE action \in Actions
  BY <1>3, <1>4, <1>5 DEF ResetActions
<1> QED
  BY <1>1, <1>5

\* What a key means in the layer "quick_edit".
LEMMA QuickEditKeysMean ==
  /\ QuickEditActions \subseteq Actions
  /\ \A key, action : <<key, action>> \in QuickEditKeys =>
       action \in QuickEditActions /\ (key = "escape" => action = EscapeIn["quick_edit"])
<1>1. ASSUME NEW key, NEW action, <<key, action>> \in QuickEditKeys
      PROVE  /\ action \in QuickEditActions
             /\ key = "escape" => action = EscapeIn["quick_edit"]
  BY <1>1 DEF QuickEditKeys, QuickEditActions, EscapeIn
<1>2. "quick_edit" \in Layers /\ KeyMap["quick_edit"] = QuickEditKeys
  BY DEF Layers, Modes, SubModes, KeyMap
<1>3. \A key, action : <<key, action>> \in QuickEditKeys => action \in Actions
  BY <1>2, MappedIsAnAction
<1>4. {<<"enter", "event_log_quick_edit_commit">>, <<"escape", "event_log_quick_edit_cancel">>,
       <<"backspace", "event_log_quick_edit_backspace">>, <<"e", "event_log_begin_quick_edit">>}
        \subseteq QuickEditKeys
  BY DEF QuickEditKeys
<1>5. ASSUME NEW action \in QuickEditActions PROVE action \in Actions
  BY <1>3, <1>4, <1>5 DEF QuickEditActions
<1> QED
  BY <1>1, <1>5
-----------------------------------------------------------------------------
(* What is open, and how many presses of Escape it takes.                  *)

SubLayers == {"none", "edit", "search", "reset"}

CellItems == <<"enter_input", "view_output">>
LineItems == <<"submit", "exit_input">>
OutputItems == <<"copy_line", "copy_all", "copy_stderr", "exit_output">>
EmptyOutputItems == <<"copy_all", "copy_stderr", "exit_output">>

Menus == [items : {<<>>, CellItems, LineItems, OutputItems, EmptyOutputItems}, at : 0..4]
Sessions == [open : BOOLEAN, level : Levels, sub : SubLayers, origin : Levels]
Viewers == [open : BOOLEAN, quick : BOOLEAN]

PaneTypes ==
  /\ mode \in Modes
  /\ menu \in Menus
  /\ composing \in BOOLEAN
  /\ settings \in Sessions
  /\ viewer \in Viewers
  /\ escapes \in 0..4

\* The focused item of the menu is one of its items.
MenuInv == menu.items # <<>> => menu.at \in 1..Len(menu.items) /\ ~composing

\* How many presses of Escape lead out of where the user is.
LevelDepth(level) == CASE level = "section" -> 1 [] level = "record" -> 2 [] OTHER -> 3

ModeDepth ==
  CASE mode = "notebook" -> 0
    [] mode = "settings" ->
         IF settings.sub = "none" THEN LevelDepth(settings.level)
         ELSE IF settings.sub = "search" THEN 1 + LevelDepth(settings.origin)
         ELSE 1 + LevelDepth(settings.level)
    [] mode = "event_log" -> IF viewer.quick THEN 2 ELSE 1
    [] mode = "output" -> IF composing THEN 2 ELSE 1
    [] OTHER -> 1

Depth == IF menu.items = <<>> THEN ModeDepth ELSE 1 + ModeDepth

DepthInv == Depth + escapes <= 4

PaneInv == PaneTypes /\ MenuInv /\ ModalAgrees /\ DepthInv

AnyAction ==
  UNION {NotebookActions, InputActions, TextInputActions, OutputActions, SettingsActions,
         EventLogActions, MenuOpenActions, ComposerActions, EditActions, SearchActions,
         ResetActions, QuickEditActions}

\* What is open says which layer a key reaches, and the other way round.
LEMMA LayerFacts ==
  ASSUME PaneInv
  PROVE  /\ Layer \in Layers
         /\ Layer = "menu" <=> menu.items # <<>>
         /\ Layer \in Modes => mode = Layer
         /\ Layer \in {"settings", "edit", "search", "reset"} <=>
              mode = "settings" /\ menu.items = <<>>
         /\ Layer \in {"event_log", "quick_edit"} <=> mode = "event_log" /\ menu.items = <<>>
         /\ Layer \in {"output", "composer"} <=> mode = "output" /\ menu.items = <<>>
         /\ Layer \in {"edit", "search", "reset"} => settings.sub = Layer
         /\ Layer = "settings" => settings.sub = "none"
         /\ Layer = "event_log" => ~viewer.quick
         /\ Layer = "quick_edit" => viewer.quick
         /\ Layer = "output" => ~composing
         /\ Layer = "composer" => composing
BY DEF PaneInv, PaneTypes, ModalAgrees, Layer, Layers, Modes, SubModes, SubLayers, Sessions

\* The layer a pressed key was found in, and what it does to the count of Escapes.
LEMMA Keyed ==
  ASSUME Layer \in Layers, NEW action \in AnyAction, Pressed(action)
  PROVE  /\ appRunning /\ action \in ActionsIn[Layer]
         /\ escapes' = 0 \/ (action = EscapeIn[Layer] /\ escapes' = Escapes("escape"))
<1>1. action \in Actions
  BY NotebookKeysMean, InputKeysMean, TextInputKeysMean, OutputKeysMean, SettingsKeysMean,
     EventLogKeysMean, MenuOpenKeysMean, ComposerKeysMean, EditKeysMean, SearchKeysMean,
     ResetKeysMean, QuickEditKeysMean DEF AnyAction
<1>2. KeysOf[Layer][action] = {key \in Keys : <<key, action>> \in KeyMap[Layer]}
  BY <1>1 DEF KeysOf
<1>3. PICK key \in Keys : <<key, action>> \in KeyMap[Layer] /\ escapes' = Escapes(key)
  BY <1>2 DEF Pressed
<1>4. action \in ActionsIn[Layer] /\ (key = "escape" => action = EscapeIn[Layer])
  BY <1>3, NotebookKeysMean, InputKeysMean, TextInputKeysMean, OutputKeysMean, SettingsKeysMean,
     EventLogKeysMean, MenuOpenKeysMean, ComposerKeysMean, EditKeysMean, SearchKeysMean,
     ResetKeysMean, QuickEditKeysMean DEF Layers, Modes, SubModes, KeyMap, ActionsIn
<1> QED
  BY <1>3, <1>4 DEF Pressed, Escapes

\* The layers have few actions in common.
LEMMA Apart ==
  ASSUME NEW layer \in Layers, NEW action \in ActionsIn[layer]
  PROVE  /\ action \in NotebookActions \ InputActions =>
              layer = "notebook" \/ action = "open_action_menu"
         /\ action \in InputActions \ TextInputActions => layer = "input"
         /\ action \in TextInputActions \ InputActions => layer = "text_input"
         /\ action \in InputActions \ NotebookActions => layer \in {"input", "text_input"}
         /\ action \in OutputActions \ InputActions => layer = "output"
         /\ action \in SettingsActions => layer = "settings"
         /\ action \in EventLogActions \ QuickEditActions => layer = "event_log"
         /\ action \in QuickEditActions \ EventLogActions => layer = "quick_edit"
         /\ action = "event_log_begin_quick_edit" => layer \in {"event_log", "quick_edit"}
         /\ action \in MenuOpenActions => layer = "menu"
         /\ action \in ComposerActions => layer = "composer"
         /\ action \in EditActions => layer = "edit"
         /\ action \in SearchActions => layer = "search"
         /\ action \in ResetActions => layer = "reset"
         /\ action = "open_action_menu" => layer \in {"notebook", "input", "text_input", "output"}
         /\ action = "repeat_last_narration" => layer \in {"notebook", "input", "text_input"}
BY DEF Layers, Modes, SubModes, ActionsIn, NotebookActions, InputActions, TextInputActions,
   OutputActions, SettingsActions, EventLogActions, MenuOpenActions, ComposerActions,
   EditActions, SearchActions, ResetActions, QuickEditActions

\* Nothing is open but the mode.
Closed ==
  /\ ~composing
  /\ ~settings.open /\ settings.sub = "none"
  /\ ~viewer.open /\ ~viewer.quick

Bare == menu.items = <<>> /\ Closed

\* A key that is found takes the count of Escapes up by one at most, and to zero
\* unless it is Escape.
LEMMA Counted ==
  ASSUME PaneInv, NEW action \in AnyAction, Pressed(action)
  PROVE  /\ appRunning /\ Layer \in Layers /\ action \in ActionsIn[Layer]
         /\ escapes' \in 0..4 /\ escapes' <= escapes + 1
         /\ action # EscapeIn[Layer] => escapes' = 0
<1>1. Layer \in Layers /\ escapes \in 0..4
  BY LayerFacts DEF PaneInv, PaneTypes
<1> QED
  BY <1>1, Keyed DEF Escapes

\* A key that is not Escape and changes no layer.
LEMMA PanesStay ==
  ASSUME PaneInv, UNCHANGED <<mode, cell, menu, panes>>, escapes' = 0
  PROVE  PaneInv'
<1>1. PaneTypes' /\ MenuInv' /\ ModalAgrees'
  BY DEF PaneInv, PaneTypes, MenuInv, ModalAgrees, HasCommand, Offered, panes
<1>2. Depth' = Depth /\ Depth \in 0..4
  BY DEF PaneInv, PaneTypes, DepthInv, Depth, ModeDepth, LevelDepth, panes
<1> QED
  BY <1>1, <1>2 DEF PaneInv, DepthInv

\* In the notebook and in a line nothing else is open.
LEMMA BareInNotebook ==
  ASSUME PaneInv, mode \in {"notebook", "input", "text_input"}, menu.items = <<>>
  PROVE  Bare
BY DEF PaneInv, PaneTypes, ModalAgrees, Bare, Closed, Modes

\* As many presses of Escape as there are layers left fit into four.
LEMMA Fits ==
  ASSUME NEW d \in Nat, NEW e \in 0..4,
         d = 0 \/ (d = 1 /\ e <= 3) \/ (d = 2 /\ e <= 2)
  PROVE  d + e <= 4
OBVIOUS

\* A key that goes to the notebook, a line or the output leaves nothing open behind.
LEMMA Landing ==
  ASSUME PaneInv, Bare', menu' \in {menu, NoMenu}, settings' \in {settings, NoSettings},
         viewer' \in {viewer, NoViewer}, composing' \in BOOLEAN,
         mode' \in {"notebook", "input", "text_input", "output"},
         mode' = "input" => HasCommand', mode' = "output" => cell' # NoCell,
         escapes' \in 0..4, mode' # "notebook" => escapes' <= 3
  PROVE  PaneInv'
<1>1. PaneTypes'
  <2>1. menu' \in Menus
    BY DEF PaneInv, PaneTypes, NoMenu, Menus
  <2>2. settings' \in Sessions
    <3>1. CASE settings' = settings
      BY <3>1 DEF PaneInv, PaneTypes
    <3>2. CASE settings' = NoSettings
      BY <3>2, Zenon DEF NoSettings, Sessions, SubLayers, Levels
    <3> QED BY <3>1, <3>2
  <2>3. viewer' \in Viewers
    <3>1. NoViewer \in Viewers
      BY Zenon DEF NoViewer, Viewers
    <3> QED
      BY <3>1 DEF PaneInv, PaneTypes
  <2>4. mode' \in Modes
    BY DEF Modes
  <2> QED
    BY <2>1, <2>2, <2>3, <2>4 DEF PaneTypes
<1>2. ModalAgrees' /\ MenuInv'
  BY DEF MenuInv, ModalAgrees, Bare, Closed
<1>3. CASE mode' = "notebook"
  <2>1. Depth' = 0
    BY <1>3 DEF Depth, ModeDepth, Bare, Closed
  <2> QED
    BY <1>1, <1>2, <2>1, Fits DEF PaneInv, DepthInv
<1>4. CASE mode' # "notebook"
  <2>1. Depth' = 1
    BY <1>4 DEF Depth, ModeDepth, Bare, Closed
  <2> QED
    BY <1>1, <1>2, <1>4, <2>1, Fits DEF PaneInv, DepthInv
<1> QED
  BY <1>3, <1>4

\* Escape takes one layer off.
LEMMA Nearer ==
  ASSUME NEW d \in Nat, NEW e \in Nat, NEW d2 \in Nat, NEW e2 \in Nat,
         d + e <= 4, d2 + 1 = d, e2 <= e + 1
  PROVE  d2 + e2 <= 4
OBVIOUS

\* A key that goes to SETTINGS mode or stays there.
LEMMA InSettings ==
  ASSUME PaneInv, mode' = "settings", menu' = menu, menu.items = <<>>, composing' = FALSE,
         settings' \in Sessions,
         settings'.open, settings'.sub = "edit" => settings'.level = "field",
         viewer' = [open |-> FALSE, quick |-> FALSE],
         escapes' \in 0..4, ModeDepth' + escapes' <= 4
  PROVE  PaneInv'
<1>1. PaneTypes'
  BY DEF PaneInv, PaneTypes, Modes, Viewers
<1>2. ModalAgrees' /\ MenuInv'
  BY DEF MenuInv, ModalAgrees
<1>3. Depth' = ModeDepth'
  BY DEF Depth
<1> QED
  BY <1>1, <1>2, <1>3 DEF PaneInv, DepthInv

\* A key that goes to EVENT_LOG mode or stays there.
LEMMA InLog ==
  ASSUME PaneInv, mode' = "event_log", menu' = menu, menu.items = <<>>, composing' = FALSE,
         settings' \in Sessions,
         ~settings'.open, settings'.sub = "none",
         viewer' \in [open : {TRUE}, quick : BOOLEAN],
         escapes' \in 0..4, escapes' <= 3, viewer'.quick => escapes' = 0
  PROVE  PaneInv'
<1>1. PaneTypes'
  BY DEF PaneInv, PaneTypes, Modes, Viewers
<1>2. ModalAgrees' /\ MenuInv'
  BY DEF MenuInv, ModalAgrees
<1>3. CASE viewer'.quick
  <2>1. Depth' = 2 /\ escapes' <= 2
    BY <1>3 DEF Depth, ModeDepth
  <2> QED
    BY <1>1, <1>2, <2>1, Fits DEF PaneInv, DepthInv
<1>4. CASE ~viewer'.quick
  <2>1. Depth' = 1
    BY <1>4 DEF Depth, ModeDepth
  <2> QED
    BY <1>1, <1>2, <2>1, Fits DEF PaneInv, DepthInv
<1> QED
  BY <1>3, <1>4

-----------------------------------------------------------------------------
(* Where the user is when a key means something. *)

\* What Escape means.
EscapeActions ==
  {"exit_input", "abandon_text_input", "exit_output", "settings_ascend", "event_log_close",
   "menu_close", "output_composer_cancel", "settings_edit_cancel", "settings_search_cancel",
   "settings_reset_cancel", "event_log_quick_edit_cancel"}

\* Only an action that Escape means leaves a count.
LEMMA NotEscape ==
  ASSUME PaneInv, NEW action \in AnyAction \ EscapeActions, Pressed(action)
  PROVE  escapes' = 0
<1>1. Layer \in Layers /\ (action # EscapeIn[Layer] => escapes' = 0)
  BY Counted
<1>2. EscapeIn[Layer] \in EscapeActions \cup {"none"}
  BY <1>1 DEF EscapeIn, EscapeActions, Layers, Modes, SubModes
<1>3. action # "none"
  BY DEF AnyAction, NotebookActions, InputActions, TextInputActions, OutputActions,
     SettingsActions, EventLogActions, MenuOpenActions, ComposerActions, EditActions,
     SearchActions, ResetActions, QuickEditActions
<1> QED
  BY <1>1, <1>2, <1>3

\* The keys of the notebook.
LEMMA InTheNotebook ==
  ASSUME PaneInv, NEW action \in NotebookActions \ {"open_action_menu", "repeat_last_narration"},
         Pressed(action)
  PROVE  mode = "notebook" /\ Bare /\ appRunning /\ escapes' = 0
<1>1. action \in AnyAction \ EscapeActions
  BY DEF AnyAction, NotebookActions, EscapeActions
<1>2. Layer \in Layers /\ action \in ActionsIn[Layer] /\ appRunning
  BY <1>1, Counted
<1>3. action \in NotebookActions \ InputActions
  BY DEF NotebookActions, InputActions
<1>4. Layer = "notebook"
  BY <1>2, <1>3, Apart
<1> QED
  BY <1>1, <1>2, <1>4, LayerFacts, BareInNotebook, NotEscape DEF Modes

\* The keys of INPUT and TEXT_INPUT.
LEMMA InALine ==
  ASSUME PaneInv,
         NEW action \in (InputActions \cup TextInputActions)
                          \ {"open_action_menu", "repeat_last_narration"},
         Pressed(action)
  PROVE  /\ mode \in {"input", "text_input"} /\ Bare /\ appRunning
         /\ action \in InputActions \ TextInputActions => mode = "input"
         /\ action \in TextInputActions \ InputActions => mode = "text_input"
         /\ action \notin {"exit_input", "abandon_text_input"} => escapes' = 0
         /\ escapes' \in 0..4
<1>1. action \in AnyAction
  BY DEF AnyAction
<1>2. Layer \in Layers /\ action \in ActionsIn[Layer] /\ appRunning /\ escapes' \in 0..4
  BY <1>1, Counted
<1>3. action \notin NotebookActions
  BY DEF NotebookActions, InputActions, TextInputActions
<1>4. /\ Layer \in {"input", "text_input"}
      /\ action \in InputActions \ TextInputActions => Layer = "input"
      /\ action \in TextInputActions \ InputActions => Layer = "text_input"
  BY <1>2, <1>3, Apart
<1>5. mode = Layer /\ menu.items = <<>>
  BY <1>4, LayerFacts DEF Modes
<1>6. action \notin {"exit_input", "abandon_text_input"} => action \notin EscapeActions
  BY DEF InputActions, TextInputActions, EscapeActions
<1> QED
  BY <1>1, <1>2, <1>4, <1>5, <1>6, BareInNotebook, NotEscape

\* An item of the menu belongs to the mode the menu was opened in.
LEMMA FromTheMenu ==
  ASSUME PaneInv, NEW item, Activated(item)
  PROVE  /\ appRunning /\ escapes' = 0 /\ menu' = NoMenu /\ Closed
         /\ item \in {"enter_input", "view_output"} => mode = "notebook" /\ cell # NoCell
         /\ item \in {"submit", "exit_input"} => mode = "input"
         /\ item = "exit_output" => mode = "output"
<1>1. /\ "menu_activate" \in AnyAction \ EscapeActions /\ Pressed("menu_activate")
      /\ "menu_activate" \in MenuOpenActions
  BY DEF Activated, AnyAction, MenuOpenActions, EscapeActions
<1>2. appRunning /\ escapes' = 0 /\ Layer = "menu"
  BY <1>1, Counted, NotEscape, Apart
<1>3. /\ menu.items # <<>> /\ menu.items \in Offered /\ ~composing
      /\ menu.at \in 1 .. Len(menu.items)
  BY <1>2, LayerFacts DEF PaneInv, ModalAgrees, MenuInv
<1>4. mode \in {"notebook", "input", "output"} /\ Closed
  BY <1>3 DEF Offered, PaneInv, PaneTypes, Modes, ModalAgrees, Closed
<1>5. menu' = NoMenu /\ item = menu.items[menu.at]
  BY DEF Activated
<1>6. CASE mode = "notebook"
  <2>1. menu.items = CellItems /\ cell # NoCell
    BY <1>3, <1>6 DEF Offered, CellItems
  <2>2. item \in {"enter_input", "view_output"}
    BY <1>3, <1>5, <2>1 DEF CellItems
  <2> QED
    BY <1>2, <1>4, <1>5, <1>6, <2>1, <2>2
<1>7. CASE mode = "input"
  <2>1. menu.items = LineItems
    BY <1>3, <1>7 DEF Offered, LineItems
  <2>2. item \in {"submit", "exit_input"}
    BY <1>3, <1>5, <2>1 DEF LineItems
  <2> QED
    BY <1>2, <1>4, <1>5, <1>7, <2>2
<1>8. CASE mode = "output"
  <2>1. menu.items \in {OutputItems, EmptyOutputItems}
    BY <1>3, <1>8 DEF Offered, OutputItems, EmptyOutputItems
  <2>2. item \in {"copy_line", "copy_all", "copy_stderr", "exit_output"}
    <3>1. CASE menu.items = OutputItems
      BY <1>3, <1>5, <3>1 DEF OutputItems
    <3>2. CASE menu.items = EmptyOutputItems
      BY <1>3, <1>5, <3>2 DEF EmptyOutputItems
    <3> QED
      BY <2>1, <3>1, <3>2
  <2> QED
    BY <1>2, <1>4, <1>5, <1>8, <2>2
<1> QED
  BY <1>4, <1>6, <1>7, <1>8

-----------------------------------------------------------------------------
(* A key at a time. *)

StayingActions == {"duplicate_cell", "move_cell_up", "move_cell_down", "toggle_fold_heading",
       "repeat_last_narration", "cancel_command", "output_line_up", "output_line_down",
       "output_page_up", "output_page_down", "output_to_start", "output_to_end",
       "output_search_next", "output_search_prev", "output_playback_toggle",
       "output_composer_backspace", "settings_prev", "settings_next",
       "settings_edit_backspace", "settings_save", "event_log_previous", "event_log_next",
       "event_log_replay", "event_log_quick_edit_backspace",
       "backspace", "delete_forward", "cursor_left", "cursor_right", "cursor_home",
       "cursor_end", "delete_word_left", "delete_to_start", "delete_to_end",
       "history_previous", "history_next"}

\* A key that changes a line, or nothing the console keeps.
LEMMA StayingStep ==
  ASSUME PaneInv, Elsewhere \/ EditLine \/ MoveCaret \/ WalkHistory \/ TypeCharacter
  PROVE  PaneInv'
<1>1. StayingActions \subseteq AnyAction \ EscapeActions
  BY DEF StayingActions, AnyAction, EscapeActions, NotebookActions, InputActions,
     OutputActions, SettingsActions, EventLogActions, ComposerActions, EditActions,
     QuickEditActions
<1>2. /\ UNCHANGED <<mode, cell, menu, panes>>
      /\ (\E action \in StayingActions : Pressed(action)) \/ escapes' = 0
  <2>1. CASE Elsewhere
    BY <2>1 DEF Elsewhere, PressedAny, StayingActions
  <2>2. CASE EditLine
    BY <2>2 DEF EditLine, Edits, PressedAny, StayingActions
  <2>3. CASE MoveCaret \/ WalkHistory
    BY <2>3 DEF MoveCaret, WalkHistory, Shows, PressedAny, StayingActions
  <2>4. CASE TypeCharacter
    BY <2>4 DEF TypeCharacter, TypedInto
  <2> QED
    BY <2>1, <2>2, <2>3, <2>4
<1> QED
  BY <1>1, <1>2, NotEscape, PanesStay

\* Escape means something in every layer but the notebook.
LEMMA EscapeLeadsOut ==
  \A layer \in Layers \ {"notebook"} : \E action : <<"escape", action>> \in KeyMap[layer]
<1>1. /\ <<"escape", "exit_input">> \in InputKeys
      /\ <<"escape", "abandon_text_input">> \in TextInputKeys
      /\ <<"escape", "exit_output">> \in OutputKeys
      /\ <<"escape", "settings_ascend">> \in SettingsKeys
      /\ <<"escape", "event_log_close">> \in EventLogKeys
  BY DEF InputKeys, TextInputKeys, OutputKeys, SettingsKeys, EventLogKeys
<1>2. /\ <<"escape", "menu_close">> \in MenuOpenKeys
      /\ <<"escape", "output_composer_cancel">> \in ComposerKeys
      /\ <<"escape", "settings_edit_cancel">> \in EditKeys
      /\ <<"escape", "settings_search_cancel">> \in SearchKeys
      /\ <<"escape", "settings_reset_cancel">> \in ResetKeys
      /\ <<"escape", "event_log_quick_edit_cancel">> \in QuickEditKeys
  BY DEF MenuOpenKeys, ComposerKeys, EditKeys, SearchKeys, ResetKeys, QuickEditKeys
<1>3. ASSUME NEW layer \in Layers \ {"notebook"}
      PROVE  <<"escape", EscapeIn[layer]>> \in KeyMap[layer]
  BY <1>1, <1>2 DEF Layers, Modes, SubModes, KeyMap, EscapeIn
<1> QED
  BY <1>3

\* A key that is not mapped: Escape is one in the notebook alone.
LEMMA SwallowStep ==
  ASSUME PaneInv, Swallow
  PROVE  PaneInv'
<1>1. UNCHANGED <<mode, cell, menu, panes>> /\ Layer \in Layers
  BY LayerFacts DEF Swallow
<1>2. PICK key : key \notin {pair[1] : pair \in KeyMap[Layer]} /\ escapes' = Escapes(key)
  BY DEF Swallow
<1>3. CASE key # "escape"
  BY <1>1, <1>2, <1>3, PanesStay DEF Escapes
<1>4. CASE key = "escape"
  <2>1. \A action : <<"escape", action>> \notin KeyMap[Layer]
    BY <1>2, <1>4
  <2>2. Layer = "notebook"
    BY <1>1, <2>1, EscapeLeadsOut
  <2>3. mode = "notebook" /\ Bare
    BY <2>2, LayerFacts, BareInNotebook DEF Modes
  <2>4. escapes' \in 0..4
    BY <1>2, <1>4 DEF Escapes, PaneInv, PaneTypes
  <2> QED
    BY <1>1, <2>3, <2>4, Landing DEF panes, Bare, Closed, PaneInv, PaneTypes
<1> QED
  BY <1>3, <1>4

\* The keys of the notebook, and the items of its menu.
LEMMA NotebookStep ==
  ASSUME PaneInv,
         \/ enter_input \/ new_cell \/ begin_text_input \/ view_output \/ MoveFocus
         \/ delete_cell
  PROVE  PaneInv'
<1>1. composing \in BOOLEAN
  BY DEF PaneInv, PaneTypes
<1>2. CASE enter_input
  <2>1. mode = "notebook" /\ Closed /\ menu'.items = <<>> /\ menu' \in {menu, NoMenu} /\ escapes' = 0
    BY <1>2, InTheNotebook, FromTheMenu
    DEF enter_input, Chosen, NotebookActions, NoMenu, Bare
  <2>2. Bare' /\ mode' \in {"notebook", "input"} /\ (mode' = "input" => HasCommand')
    BY <1>2, <2>1 DEF enter_input, EnterInput, HasCommand, panes, Bare, Closed, text
  <2> QED
    BY <1>1, <1>2, <2>1, <2>2, Landing DEF enter_input, panes
<1>3. CASE new_cell
  <2>1. mode = "notebook" /\ Bare /\ menu' = menu /\ escapes' = 0
    BY <1>3, InTheNotebook DEF new_cell, PressedAny, NotebookActions
  <2>2. Bare' /\ mode' = "input" /\ HasCommand'
    BY <1>3, <2>1, ConsoleAssumption DEF new_cell, EnterInput, HasCommand, panes, Bare, Closed
  <2> QED
    BY <1>1, <1>3, <2>1, <2>2, Landing DEF new_cell, panes
<1>4. CASE begin_text_input
  <2>1. mode = "notebook" /\ Bare /\ menu' = menu /\ escapes' = 0
    BY <1>4, InTheNotebook DEF begin_text_input, PressedAny, NotebookActions
  <2>2. Bare' /\ mode' = "text_input"
    BY <1>4, <2>1 DEF begin_text_input, Leave, panes, Bare, Closed
  <2> QED
    BY <1>1, <1>4, <2>1, <2>2, Landing DEF begin_text_input, panes
<1>5. CASE view_output
  <2>1. mode = "notebook" /\ Closed /\ menu'.items = <<>> /\ menu' \in {menu, NoMenu} /\ escapes' = 0
    BY <1>5, InTheNotebook, FromTheMenu
    DEF view_output, Chosen, NotebookActions, NoMenu, Bare
  <2>2. /\ Bare' /\ mode' \in {"notebook", "output"} /\ (mode' = "output" => cell' # NoCell)
        /\ composing' \in BOOLEAN /\ settings' = settings /\ viewer' = viewer
    <3>1. CASE cell # NoCell /\ Leave("output") /\ composing' = FALSE
      BY <1>5, <2>1, <3>1 DEF view_output, Leave, Bare, Closed
    <3>2. CASE cell = NoCell /\ UNCHANGED <<mode, text, composing>>
      BY <1>1, <1>5, <2>1, <3>2 DEF view_output, Bare, Closed
    <3> QED
      BY <1>5, <3>1, <3>2 DEF view_output
  <2> QED
    BY <2>1, <2>2, Landing
<1>6. CASE MoveFocus \/ delete_cell
  <2>1. PICK action \in Motions \cup {"delete_cell"} : Pressed(action) /\ UNCHANGED menu
    BY <1>6 DEF MoveFocus, delete_cell, PressedAny
  <2>2. action \in NotebookActions \ {"open_action_menu", "repeat_last_narration"}
    BY <2>1 DEF Motions, NotebookActions
  <2>3. mode = "notebook" /\ Bare /\ escapes' = 0
    BY <2>1, <2>2, InTheNotebook
  <2>4. UNCHANGED <<mode, panes>>
    BY <1>6 DEF MoveFocus, delete_cell
  <2>5. Bare'
    BY <2>1, <2>3, <2>4 DEF Bare, Closed, panes
  <2> QED
    BY <1>1, <2>1, <2>3, <2>4, <2>5, Landing DEF panes
<1> QED
  BY <1>2, <1>3, <1>4, <1>5, <1>6

\* The keys that end a line, and the items of its menu.
LEMMA LineStep ==
  ASSUME PaneInv, exit_input \/ submit_text_input \/ abandon_text_input \/ submit
  PROVE  PaneInv'
<1>1. composing \in BOOLEAN
  BY DEF PaneInv, PaneTypes
<1>2. CASE exit_input
  <2>1. Closed /\ menu'.items = <<>> /\ menu' \in {menu, NoMenu} /\ escapes' \in 0..4
    BY <1>2, InALine, FromTheMenu DEF exit_input, Chosen, InputActions, NoMenu, Bare
  <2>2. Bare' /\ mode' = "notebook"
    BY <1>2, <2>1 DEF exit_input, Leave, panes, Bare, Closed
  <2> QED
    BY <1>1, <1>2, <2>1, <2>2, Landing DEF exit_input, panes
<1>3. CASE submit_text_input \/ abandon_text_input
  <2>1. PICK action \in {"submit_text_input", "abandon_text_input"} :
          Pressed(action) /\ UNCHANGED menu
    BY <1>3 DEF submit_text_input, abandon_text_input, PressedAny
  <2>2. Bare /\ escapes' \in 0..4
    BY <2>1, InALine DEF TextInputActions
  <2>3. UNCHANGED panes /\ mode' = "notebook"
    BY <1>3 DEF submit_text_input, abandon_text_input, Leave
  <2>4. Bare'
    BY <2>1, <2>2, <2>3 DEF panes, Bare, Closed
  <2> QED
    BY <1>1, <2>1, <2>2, <2>3, <2>4, Landing DEF panes
<1>4. CASE submit
  <2>1. Closed /\ menu'.items = <<>> /\ menu' \in {menu, NoMenu} /\ escapes' = 0
    BY <1>4, InALine, FromTheMenu DEF submit, InputActions, NoMenu, Bare
  <2>2. mode' \in {"notebook", "input"} /\ (mode' = "input" => HasCommand')
    BY <1>4, ConsoleAssumption
    DEF submit, SubmitCommand, SubmitLastCommand, Leave, EnterInput, HasCommand
  <2>3. UNCHANGED panes
    BY <1>4 DEF submit
  <2>4. Bare'
    BY <2>1, <2>3 DEF panes, Bare, Closed
  <2> QED
    BY <1>1, <2>1, <2>2, <2>3, <2>4, Landing DEF panes
<1> QED
  BY <1>2, <1>3, <1>4

\* Enter on a line that has a colon command.
LEMMA MetaKey ==
  ASSUME PaneInv, NEW m, Meta(m)
  PROVE  /\ mode = "input" /\ Bare /\ appRunning /\ escapes' = 0
         /\ UNCHANGED <<menu, composing>>
BY InALine DEF Meta, PressedAny, InputActions, TextInputActions

\* A session that was opened is a session.
LEMMA SettingsOpen ==
  ASSUME NEW level \in Levels, NEW sub \in SubLayers
  PROVE  [open |-> TRUE, level |-> level, sub |-> sub, origin |-> "section"]
           \in Sessions
<1>1. "section" \in Levels
  BY DEF Levels
<1> QED
  BY <1>1, Zenon DEF Sessions

\* Any layer fits when no Escape was counted.
LEMMA Within ==
  ASSUME NEW d \in 0..4, NEW e, e = 0
  PROVE  d + e <= 4
OBVIOUS

\* Enter on a line with a colon command.
LEMMA MetaStep ==
  ASSUME PaneInv, MetaAmbient \/ MetaLog \/ MetaSettings \/ MetaInTheNotebook \/ MetaQuit
  PROVE  PaneInv'
<1>1. PICK m : Meta(m)
  BY DEF MetaAmbient, MetaLog, MetaSettings, MetaInTheNotebook, MetaQuit
<1>2. /\ mode = "input" /\ Bare /\ escapes' = 0 /\ ~composing /\ menu.items = <<>>
      /\ menu' = menu /\ composing' = composing /\ HasCommand
  BY <1>1, MetaKey DEF Bare, Closed, PaneInv, ModalAgrees
<1>3. /\ settings \in Sessions
      /\ viewer \in Viewers /\ composing \in BOOLEAN
  BY DEF PaneInv, PaneTypes
<1>. composing' = FALSE /\ escapes' \in 0..4 /\ escapes' <= 3
  BY <1>2, <1>3
<1>4. CASE MetaAmbient \/ MetaInTheNotebook \/ MetaQuit
  <2>1. /\ settings' = settings /\ viewer' = viewer /\ mode' \in {"notebook", "input"}
        /\ mode' = "input" => cell' = cell
    BY <1>4 DEF MetaAmbient, MetaInTheNotebook, MetaQuit, Leave
  <2>2. Bare' /\ (mode' = "input" => HasCommand')
    BY <1>2, <2>1 DEF Bare, Closed, HasCommand
  <2> QED
    BY <1>2, <1>3, <2>1, <2>2, Landing
<1>5. CASE MetaLog
  <2>1. /\ mode' = "event_log" /\ settings' = settings
        /\ viewer' = [NoViewer EXCEPT !.open = TRUE]
    BY <1>5 DEF MetaLog, Leave
  <2>2. viewer' = [open |-> TRUE, quick |-> FALSE]
    BY <2>1 DEF NoViewer
  <2>3. viewer' \in [open : {TRUE}, quick : BOOLEAN] /\ ~viewer'.quick
    BY <2>2
  <2> QED
    BY <1>2, <1>3, <2>1, <2>3, InLog DEF Bare, Closed
<1>6. CASE MetaSettings
  <2>1. PICK sub \in {"none", "reset"} : OpenSettings("section", sub)
    BY <1>6 DEF MetaSettings
  <2>2. mode' = "settings" /\ viewer' = viewer
    BY <1>6 DEF MetaSettings, Leave
  <2>3. settings' \in Sessions
    BY <2>1, SettingsOpen DEF OpenSettings, SubLayers, Levels
  <2>4. ModeDepth' \in 0..4
    BY <2>1, <2>2 DEF OpenSettings, ModeDepth, LevelDepth
  <2>5. viewer' = [open |-> FALSE, quick |-> FALSE]
    BY <1>2, <1>3, <2>2 DEF Bare, Closed, Viewers
  <2>6. settings'.open /\ settings'.sub # "edit"
    BY <2>1 DEF OpenSettings
  <2>7. ModeDepth' + escapes' <= 4
    BY <1>2, <2>4, Within
  <2> QED
    BY <1>2, <2>2, <2>3, <2>5, <2>6, <2>7, InSettings
<1> QED
  BY <1>4, <1>5, <1>6

\* The output view and its composer.
LEMMA InTheOutput ==
  ASSUME PaneInv, NEW action \in (OutputActions \cup ComposerActions) \ {"open_action_menu"},
         Pressed(action)
  PROVE  /\ mode = "output" /\ menu.items = <<>> /\ appRunning
         /\ action \in OutputActions => ~composing
         /\ action \in ComposerActions => composing
         /\ escapes' \in 0..4 /\ escapes' <= escapes + 1
         /\ action \notin {"exit_output", "output_composer_cancel"} => escapes' = 0
<1>1. action \in AnyAction
  BY DEF AnyAction
<1>2. /\ Layer \in Layers /\ action \in ActionsIn[Layer] /\ appRunning
      /\ escapes' \in 0..4 /\ escapes' <= escapes + 1
  BY <1>1, Counted
<1>3. action \in OutputActions \ InputActions \/ action \in ComposerActions
  BY DEF OutputActions, InputActions, ComposerActions
<1>4. /\ action \in OutputActions => Layer = "output"
      /\ action \in ComposerActions => Layer = "composer"
  BY <1>2, <1>3, Apart DEF OutputActions, ComposerActions
<1>5. action \notin {"exit_output", "output_composer_cancel"} => action \notin EscapeActions
  BY DEF OutputActions, ComposerActions, EscapeActions
<1> QED
  BY <1>1, <1>2, <1>4, <1>5, LayerFacts, NotEscape DEF Modes

\* A key that stays in the output view.
LEMMA OutputOpen ==
  ASSUME PaneInv, mode = "output", menu.items = <<>>,
         UNCHANGED <<mode, cell, menu, settings, viewer>>,
         composing' \in BOOLEAN, escapes' \in 0..4, escapes' <= 3,
         composing' => escapes' = 0
  PROVE  PaneInv'
<1>1. PaneTypes' /\ ModalAgrees' /\ MenuInv'
  BY DEF PaneInv, PaneTypes, ModalAgrees, MenuInv, HasCommand
<1>2. CASE composing'
  <2>1. Depth' = 2 /\ escapes' <= 2
    BY <1>2 DEF Depth, ModeDepth
  <2> QED
    BY <1>1, <2>1, Fits DEF PaneInv, DepthInv
<1>3. CASE ~composing'
  <2>1. Depth' = 1
    BY <1>3 DEF Depth, ModeDepth
  <2> QED
    BY <1>1, <2>1, Fits DEF PaneInv, DepthInv
<1> QED
  BY <1>2, <1>3

\* The keys of the output view, its composer and its menu.
LEMMA OutputStep ==
  ASSUME PaneInv, exit_output \/ BeginComposing \/ EndComposing \/ ExtendComposer
  PROVE  PaneInv'
<1>1. composing \in BOOLEAN /\ escapes \in 0..4
  BY DEF PaneInv, PaneTypes
<1>2. CASE exit_output
  <2>1. Closed /\ menu'.items = <<>> /\ menu' \in {menu, NoMenu} /\ escapes' \in 0..4
    <3>1. CASE Pressed("exit_output") /\ UNCHANGED menu
      BY <3>1, InTheOutput DEF OutputActions, PaneInv, PaneTypes, ModalAgrees, Closed
    <3>2. CASE Activated("exit_output")
      BY <3>2, FromTheMenu DEF NoMenu
    <3> QED
      BY <1>2, <3>1, <3>2 DEF exit_output, Chosen
  <2>2. Bare' /\ mode' = "notebook"
    BY <1>2, <2>1 DEF exit_output, Leave, panes, Bare, Closed
  <2> QED
    BY <1>1, <1>2, <2>1, <2>2, Landing DEF exit_output, panes
<1>3. CASE BeginComposing
  <2>1. PICK action \in {"output_search_begin", "output_goto_begin"} :
          Pressed(action) /\ UNCHANGED menu
    BY <1>3 DEF BeginComposing, PressedAny
  <2>2. mode = "output" /\ menu.items = <<>> /\ escapes' = 0
    BY <2>1, InTheOutput DEF OutputActions
  <2>3. UNCHANGED <<mode, cell, settings, viewer>> /\ composing' \in BOOLEAN
    BY <1>3 DEF BeginComposing, Composer
  <2> QED
    BY <2>1, <2>2, <2>3, OutputOpen
<1>4. CASE EndComposing
  <2>1. PICK action \in {"output_composer_commit", "output_composer_cancel"} :
          Pressed(action) /\ UNCHANGED menu
    BY <1>4 DEF EndComposing, PressedAny
  <2>2. /\ mode = "output" /\ menu.items = <<>> /\ composing
        /\ escapes' \in 0..4 /\ escapes' <= escapes + 1
    BY <2>1, InTheOutput DEF ComposerActions
  <2>3. UNCHANGED <<mode, cell, settings, viewer>> /\ composing' = FALSE
    BY <1>4 DEF EndComposing, Composer
  <2>4. Depth = 2
    BY <2>2 DEF Depth, ModeDepth
  <2>5. escapes' <= 3
    BY <1>1, <2>2, <2>4 DEF PaneInv, DepthInv
  <2> QED
    BY <2>1, <2>2, <2>3, <2>5, OutputOpen
<1>5. CASE ExtendComposer
  <2>1. /\ Layer = "composer" /\ escapes' = 0 /\ composing' = TRUE
        /\ UNCHANGED <<mode, cell, menu, settings, viewer>>
    BY <1>5 DEF ExtendComposer, TypedInto, Composer
  <2> QED
    BY <2>1, LayerFacts, OutputOpen
<1> QED
  BY <1>2, <1>3, <1>4, <1>5

\* With the menu open.
LEMMA InTheMenu ==
  ASSUME PaneInv, NEW action \in MenuOpenActions, Pressed(action)
  PROVE  /\ menu.items # <<>> /\ appRunning
         /\ escapes' \in 0..4 /\ escapes' <= escapes + 1
         /\ action # "menu_close" => escapes' = 0
<1>1. action \in AnyAction
  BY DEF AnyAction
<1>2. action # "menu_close" => action \notin EscapeActions
  BY DEF MenuOpenActions, EscapeActions
<1> QED
  BY <1>1, <1>2, Counted, Apart, LayerFacts, NotEscape

\* The menu opens, closes or moves; what is under it stays.
LEMMA UnderTheMenu ==
  ASSUME PaneInv, UNCHANGED <<mode, cell, panes>>,
         menu' \in Menus,
         menu'.items # <<>> => /\ menu'.items \in Offered
                               /\ menu'.at \in 1 .. Len(menu'.items) /\ ~composing,
         escapes' \in 0..4, Depth' + escapes' <= 4
  PROVE  PaneInv'
BY DEF PaneInv, PaneTypes, ModalAgrees, MenuInv, DepthInv, HasCommand, Offered, panes

\* The menu adds one layer to the modes it opens in.
LEMMA OneMore ==
  ASSUME NEW d \in 0..1
  PROVE  1 + d \in 0..4 /\ d \in 0..4
OBVIOUS

\* No menu is longer than four items.
LEMMA AtMostFour ==
  ASSUME NEW n \in 1..4, NEW a \in 1..n
  PROVE  a \in 0..4
OBVIOUS

\* The key that opens the menu and those inside it.
LEMMA MenuStep ==
  ASSUME PaneInv, open_action_menu \/ MoveInMenu \/ CloseMenu \/ Copy
  PROVE  PaneInv'
<1>1. menu \in Menus /\ escapes \in 0..4 /\ mode \in Modes
  BY DEF PaneInv, PaneTypes
<1>2. UNCHANGED <<mode, cell, panes>>
  BY DEF open_action_menu, MoveInMenu, CloseMenu, Copy
<1>3. NoMenu \in Menus
  <2>1. 0 \in 0..4
    OBVIOUS
  <2> QED
    BY <2>1, Zenon DEF NoMenu, Menus
<1>4. Offered \subseteq {<<>>, CellItems, LineItems, OutputItems, EmptyOutputItems}
  BY DEF Offered, CellItems, LineItems, OutputItems, EmptyOutputItems
<1>5. CASE open_action_menu
  <2>1. Pressed("open_action_menu")
    BY <1>5 DEF open_action_menu
  <2>2. "open_action_menu" \in AnyAction \ EscapeActions
    BY DEF AnyAction, NotebookActions, EscapeActions
  <2>3. escapes' = 0 /\ Layer \in {"notebook", "input", "text_input", "output"}
    BY <2>1, <2>2, Counted, NotEscape, Apart
  <2>4. mode \in {"notebook", "input", "text_input", "output"} /\ ~composing
    BY <2>3, LayerFacts DEF Modes, PaneInv, ModalAgrees
  <2>5. PICK items \in Offered : menu' = [items |-> items, at |-> IF items = <<>> THEN 0 ELSE 1]
    BY <1>5 DEF open_action_menu
  <2>6. menu' \in Menus
    BY <1>4, <2>5 DEF Menus
  <2>7. menu'.items # <<>> => menu'.items \in Offered /\ menu'.at \in 1 .. Len(menu'.items)
    BY <1>4, <2>5 DEF CellItems, LineItems, OutputItems, EmptyOutputItems
  <2>8. ModeDepth' \in 0..1
    BY <1>2, <2>4 DEF ModeDepth, panes
  <2>9. Depth' \in 0..4
    BY <2>8, OneMore DEF Depth
  <2>10. Depth' + escapes' <= 4
    BY <2>3, <2>9, Within
  <2>11. escapes' \in 0..4
    BY <2>3
  <2> QED
    BY <1>2, <2>4, <2>6, <2>7, <2>10, <2>11, UnderTheMenu
<1>6. CASE MoveInMenu
  <2>1. PICK action \in {"menu_prev", "menu_next"} : Pressed(action)
    BY <1>6 DEF MoveInMenu
  <2>2. menu.items # <<>> /\ escapes' = 0
    BY <2>1, InTheMenu DEF MenuOpenActions
  <2>3. /\ menu.items \in Offered /\ menu.at \in 1 .. Len(menu.items) /\ ~composing
        /\ Len(menu.items) \in 1 .. 4
    BY <1>4, <2>2 DEF PaneInv, ModalAgrees, MenuInv, CellItems, LineItems, OutputItems,
       EmptyOutputItems
  <2>4. /\ menu'.items = menu.items /\ menu'.at \in 1 .. Len(menu.items)
        /\ menu' = [items |-> menu'.items, at |-> menu'.at]
    BY <1>1, <1>6, <2>3 DEF MoveInMenu, Menus
  <2>5. menu' \in Menus
    <3>1. menu'.at \in 0..4
      BY <2>3, <2>4, AtMostFour
    <3> QED
      BY <1>1, <2>4, <3>1 DEF Menus
  <2>6. Depth' = Depth /\ Depth \in 0..4
    BY <1>2, <2>4 DEF Depth, ModeDepth, LevelDepth, panes, PaneInv, PaneTypes, DepthInv
  <2> QED
    BY <1>2, <2>2, <2>3, <2>4, <2>5, <2>6, UnderTheMenu
<1>7. CASE CloseMenu
  <2>1. menu.items # <<>> /\ escapes' \in 0..4 /\ escapes' <= escapes + 1
    BY <1>7, InTheMenu DEF CloseMenu, MenuOpenActions
  <2>2. menu' = NoMenu /\ menu'.items = <<>>
    BY <1>7 DEF CloseMenu, NoMenu
  <2>3. Depth = 1 + ModeDepth /\ Depth' = ModeDepth /\ ModeDepth \in Nat
    BY <1>2, <2>1, <2>2 DEF Depth, ModeDepth, LevelDepth, panes
  <2>. ModeDepth + 1 = Depth /\ Depth \in Nat /\ Depth + escapes <= 4
    BY <2>3 DEF PaneInv, DepthInv
  <2>4. Depth' + escapes' <= 4
    <3>1. escapes \in Nat /\ escapes' \in Nat
      BY <1>1, <2>1
    <3>2. ModeDepth + escapes' <= 4
      BY <2>1, <2>3, <3>1, Nearer
    <3> QED
      BY <2>3, <3>2
  <2> QED
    BY <1>2, <1>3, <2>1, <2>2, <2>4, UnderTheMenu
<1>8. CASE Copy
  <2>1. PICK item : Activated(item)
    BY <1>8 DEF Copy
  <2>2. escapes' = 0 /\ menu' = NoMenu /\ menu'.items = <<>>
    BY <2>1, FromTheMenu DEF NoMenu
  <2>3. ModeDepth' \in 0..4
    BY <1>2 DEF ModeDepth, LevelDepth, panes
  <2>4. Depth' \in 0..4
    BY <2>2, <2>3 DEF Depth
  <2>5. Depth' + escapes' <= 4
    BY <2>2, <2>4, Within
  <2>6. escapes' \in 0..4
    BY <2>2
  <2> QED
    BY <1>2, <1>3, <2>2, <2>5, <2>6, UnderTheMenu
<1> QED
  BY <1>5, <1>6, <1>7, <1>8

\* SETTINGS mode and its three sub-modes.
LEMMA InTheSettings ==
  ASSUME PaneInv,
         NEW action \in SettingsActions \cup EditActions \cup SearchActions \cup ResetActions,
         Pressed(action)
  PROVE  /\ mode = "settings" /\ menu.items = <<>> /\ appRunning
         /\ action \in SettingsActions => settings.sub = "none"
         /\ action \in EditActions => settings.sub = "edit"
         /\ action \in SearchActions => settings.sub = "search"
         /\ action \in ResetActions => settings.sub = "reset"
         /\ escapes' \in 0..4 /\ escapes' <= escapes + 1
         /\ action \notin EscapeActions => escapes' = 0
<1>1. action \in AnyAction
  BY DEF AnyAction
<1>2. /\ Layer \in Layers /\ action \in ActionsIn[Layer] /\ appRunning
      /\ escapes' \in 0..4 /\ escapes' <= escapes + 1
  BY <1>1, Counted
<1>3. /\ action \in SettingsActions => Layer = "settings"
      /\ action \in EditActions => Layer = "edit"
      /\ action \in SearchActions => Layer = "search"
      /\ action \in ResetActions => Layer = "reset"
  BY <1>2, Apart
<1>4. action \notin EscapeActions => escapes' = 0
  BY <1>1, NotEscape
<1> QED
  BY <1>2, <1>3, <1>4, LayerFacts

\* Where an open session can be, and that nothing else is open then.
LEMMA SessionOpen ==
  ASSUME PaneInv, mode = "settings"
  PROVE  /\ settings \in Sessions /\ settings.open /\ composing = FALSE
         /\ viewer = [open |-> FALSE, quick |-> FALSE]
         /\ settings.sub = "edit" => settings.level = "field"
         /\ escapes \in 0..4
<1>1. /\ composing \in BOOLEAN /\ viewer \in Viewers
      /\ settings \in Sessions /\ escapes \in 0..4
  BY DEF PaneInv, PaneTypes
<1>2. /\ ~composing /\ ~viewer.open /\ ~viewer.quick /\ settings.open
      /\ settings.sub = "edit" => settings.level = "field"
  BY DEF PaneInv, ModalAgrees
<1> QED
  BY <1>1, <1>2 DEF Viewers

\* A key other than Escape leaves no more layers than there are.
LEMMA SessionStays ==
  ASSUME PaneInv, mode = "settings", menu.items = <<>>,
         UNCHANGED <<mode, cell, menu, composing, viewer>>,
         settings' \in Sessions, settings'.open,
         settings'.sub = "edit" => settings'.level = "field", escapes' = 0
  PROVE  PaneInv'
<1>1. ModeDepth' \in 0..4
  BY DEF ModeDepth, LevelDepth
<1>2. ModeDepth' + escapes' <= 4
  BY <1>1, Within
<1>3. escapes' \in 0..4
  OBVIOUS
<1> QED
  BY <1>2, <1>3, SessionOpen, InSettings

\* Escape leaves one layer less.
LEMMA OutOfSession ==
  ASSUME PaneInv, mode = "settings", menu.items = <<>>,
         UNCHANGED <<mode, cell, menu, composing, viewer>>,
         settings' \in Sessions, settings'.open, settings'.sub = "none",
         \/ settings.sub = "none" /\ settings.level = "field" /\ settings'.level = "record"
         \/ settings.sub = "none" /\ settings.level = "record" /\ settings'.level = "section"
         \/ settings.sub \in {"edit", "reset"} /\ settings'.level = settings.level
         \/ settings.sub = "search" /\ settings'.level = settings.origin,
         escapes' \in 0..4, escapes' <= escapes + 1
  PROVE  PaneInv'
<1>1. settings \in Sessions /\ escapes \in 0..4
  BY SessionOpen
<1>2. ModeDepth = Depth /\ Depth + escapes <= 4
  BY DEF Depth, PaneInv, DepthInv
<1>3. ModeDepth' = LevelDepth(settings'.level) /\ ModeDepth \in Nat
  BY <1>1 DEF ModeDepth, LevelDepth, Sessions, Levels, SubLayers
<1>4. ModeDepth = 1 + LevelDepth(settings'.level)
  BY <1>1 DEF ModeDepth, LevelDepth, Sessions, Levels, SubLayers
<1>5. LevelDepth(settings'.level) \in Nat
  BY DEF LevelDepth
<1>6. LevelDepth(settings'.level) + escapes' <= 4
  BY <1>1, <1>2, <1>3, <1>4, <1>5, Nearer
<1>7. ModeDepth' + escapes' <= 4
  BY <1>3, <1>6
<1> QED
  BY <1>7, SessionOpen, InSettings

\* What a key does within a session.
LEMMA EditorKey ==
  ASSUME PaneInv,
         NEW action \in SettingsActions \cup EditActions \cup SearchActions \cup ResetActions,
         NEW after, Editor(action, after)
  PROVE  /\ mode = "settings" /\ menu.items = <<>>
         /\ UNCHANGED <<mode, cell, menu, composing, viewer>>
         /\ settings' = after /\ settings \in Sessions /\ settings.open
         /\ settings.sub = "edit" => settings.level = "field"
         /\ action \in SettingsActions => settings.sub = "none"
         /\ action \in EditActions => settings.sub = "edit"
         /\ action \in SearchActions => settings.sub = "search"
         /\ action \in ResetActions => settings.sub = "reset"
         /\ escapes' \in 0..4 /\ escapes' <= escapes + 1
         /\ action \notin EscapeActions => escapes' = 0
<1>1. Pressed(action) /\ UNCHANGED menu
  BY DEF Editor, PressedAny
<1>2. mode = "settings"
  BY <1>1, InTheSettings
<1> QED
  BY <1>1, <1>2, InTheSettings, SessionOpen DEF Editor

\* The level changes.
LEMMA LevelChanges ==
  ASSUME settings \in Sessions, settings.open, NEW level \in Levels
  PROVE  /\ AtLevel(level) \in Sessions /\ AtLevel(level).open
         /\ AtLevel(level).sub = settings.sub /\ AtLevel(level).level = level
BY DEF Sessions, AtLevel

\* The sub-mode changes.
LEMMA SubChanges ==
  ASSUME settings \in Sessions, settings.open, NEW sub \in SubLayers
  PROVE  /\ InSub(sub) \in Sessions /\ InSub(sub).open
         /\ InSub(sub).sub = sub /\ InSub(sub).level = settings.level
         /\ InSub(sub).origin = settings.origin
BY DEF Sessions, InSub

\* The keys that go between the levels and into a sub-mode, and stay in the editor.
LEMMA WithinTheEditor ==
  ASSUME PaneInv,
         \/ settings_descend \/ settings_begin_edit \/ settings_reset_begin
         \/ settings_search_begin \/ UndoRedo \/ FollowMatches
  PROVE  PaneInv'
<1>1. /\ {"settings_descend", "settings_begin_edit", "settings_reset_begin",
          "settings_search_begin", "settings_undo", "settings_redo",
          "settings_search_next", "settings_search_prev"} \subseteq SettingsActions \ EscapeActions
      /\ "settings_search_backspace" \in SearchActions \ EscapeActions
  BY DEF SettingsActions, SearchActions, EscapeActions
<1>2. /\ "none" \in SubLayers /\ "edit" \in SubLayers /\ "search" \in SubLayers
      /\ "reset" \in SubLayers
      /\ "section" \in Levels /\ "record" \in Levels /\ "field" \in Levels
  BY DEF SubLayers, Levels
<1>3. CASE settings_descend \/ UndoRedo \/ FollowMatches
  <2>1. PICK action \in {"settings_descend", "settings_undo", "settings_redo",
                         "settings_search_next", "settings_search_prev",
                         "settings_search_backspace"},
             after \in {settings} \cup {AtLevel(level) : level \in Levels \cup {settings.level}} :
          Editor(action, after)
    BY <1>2, <1>3 DEF settings_descend, UndoRedo, FollowMatches
  <2>2. action \in (SettingsActions \cup SearchActions) \ EscapeActions
    BY <1>1, <2>1
  <2>3. /\ mode = "settings" /\ menu.items = <<>> /\ escapes' = 0
        /\ UNCHANGED <<mode, cell, menu, composing, viewer>>
        /\ settings' = after /\ settings \in Sessions /\ settings.open /\ settings.sub # "edit"
    BY <2>1, <2>2, EditorKey
  <2>4. settings.level \in Levels
    BY <2>3 DEF Sessions
  <2>5. settings' \in Sessions /\ settings'.open /\ settings'.sub # "edit"
    <3>1. CASE settings' = settings
      BY <2>3, <3>1
    <3>2. CASE \E level \in Levels : settings' = AtLevel(level)
      BY <1>2, <2>3, <3>2, LevelChanges
    <3> QED
      BY <2>1, <2>3, <2>4, <3>1, <3>2
  <2> QED
    BY <2>3, <2>5, SessionStays
<1>4. CASE settings_begin_edit
  <2>1. Editor("settings_begin_edit", IF settings.level = "field" THEN InSub("edit") ELSE settings)
    BY <1>4 DEF settings_begin_edit
  <2>2. /\ mode = "settings" /\ menu.items = <<>> /\ escapes' = 0
        /\ UNCHANGED <<mode, cell, menu, composing, viewer>>
        /\ settings' = IF settings.level = "field" THEN InSub("edit") ELSE settings
        /\ settings \in Sessions /\ settings.open /\ settings.sub = "none"
    BY <1>1, <2>1, EditorKey
  <2>3. /\ settings' \in Sessions /\ settings'.open
        /\ settings'.sub = "edit" => settings'.level = "field"
    BY <1>2, <2>2, SubChanges
  <2> QED
    BY <2>2, <2>3, SessionStays
<1>5. CASE settings_reset_begin
  <2>1. PICK sub \in {"none", "reset"} : Editor("settings_reset_begin", InSub(sub))
    BY <1>5 DEF settings_reset_begin
  <2>2. /\ mode = "settings" /\ menu.items = <<>> /\ escapes' = 0
        /\ UNCHANGED <<mode, cell, menu, composing, viewer>>
        /\ settings' = InSub(sub) /\ settings \in Sessions /\ settings.open
    BY <1>1, <2>1, EditorKey
  <2>3. settings' \in Sessions /\ settings'.open /\ settings'.sub # "edit"
    BY <1>2, <2>1, <2>2, SubChanges
  <2> QED
    BY <2>2, <2>3, SessionStays
<1>6. CASE settings_search_begin
  <2>1. PICK after \in {[InSub("search") EXCEPT !.origin = settings.level], settings} :
          Editor("settings_search_begin", after)
    BY <1>6 DEF settings_search_begin
  <2>2. /\ mode = "settings" /\ menu.items = <<>> /\ escapes' = 0
        /\ UNCHANGED <<mode, cell, menu, composing, viewer>>
        /\ settings' = after /\ settings \in Sessions /\ settings.open /\ settings.sub = "none"
    BY <1>1, <2>1, EditorKey
  <2>3. settings.level \in Levels
    BY <2>2 DEF Sessions
  <2>4. settings' \in Sessions /\ settings'.open /\ settings'.sub # "edit"
    <3>1. CASE settings' = settings
      BY <2>2, <3>1
    <3>2. CASE settings' = [InSub("search") EXCEPT !.origin = settings.level]
      <4>1. InSub("search") \in Sessions /\ InSub("search").open /\ InSub("search").sub = "search"
        BY <1>2, <2>2, SubChanges
      <4> QED
        BY <2>3, <3>2, <4>1 DEF Sessions
    <3> QED
      BY <2>1, <2>2, <3>1, <3>2
  <2> QED
    BY <2>2, <2>4, SessionStays
<1> QED
  BY <1>3, <1>4, <1>5, <1>6

\* The keys that end a sub-mode, keep it open or type into it.
LEMMA OutOfASubMode ==
  ASSUME PaneInv,
         \/ settings_edit_commit \/ settings_edit_cancel \/ settings_reset_confirm
         \/ settings_reset_cancel \/ settings_search_commit \/ settings_search_cancel
         \/ ExtendSettings
  PROVE  PaneInv'
<1>1. /\ {"settings_edit_commit", "settings_edit_cancel"} \subseteq EditActions
      /\ {"settings_reset_confirm", "settings_reset_cancel"} \subseteq ResetActions
      /\ {"settings_search_commit", "settings_search_cancel"} \subseteq SearchActions
      /\ {"settings_edit_commit", "settings_reset_confirm", "settings_search_commit"}
           \cap EscapeActions = {}
  BY DEF EditActions, ResetActions, SearchActions, EscapeActions
<1>2. /\ "none" \in SubLayers /\ "edit" \in SubLayers /\ "reset" \in SubLayers
      /\ "section" \in Levels /\ "record" \in Levels
  BY DEF SubLayers, Levels
<1>3. CASE settings_edit_commit \/ settings_reset_confirm
  <2>1. PICK action \in {"settings_edit_commit", "settings_reset_confirm"},
             sub \in {"none", "edit", "reset"} :
          /\ Editor(action, InSub(sub))
          /\ sub = "edit" => action = "settings_edit_commit"
    BY <1>3 DEF settings_edit_commit, settings_reset_confirm
  <2>2. /\ mode = "settings" /\ menu.items = <<>> /\ escapes' = 0
        /\ UNCHANGED <<mode, cell, menu, composing, viewer>>
        /\ settings' = InSub(sub) /\ settings \in Sessions /\ settings.open
        /\ settings.sub = "edit" => settings.level = "field"
        /\ sub = "edit" => settings.sub = "edit"
    BY <1>1, <2>1, EditorKey
  <2>3. /\ settings' \in Sessions /\ settings'.open
        /\ settings'.sub = sub /\ settings'.level = settings.level
    BY <1>2, <2>1, <2>2, SubChanges
  <2> QED
    BY <2>2, <2>3, SessionStays
<1>4. CASE settings_edit_cancel \/ settings_reset_cancel
  <2>1. PICK action \in {"settings_edit_cancel", "settings_reset_cancel"} :
          Editor(action, InSub("none"))
    BY <1>4 DEF settings_edit_cancel, settings_reset_cancel
  <2>2. /\ mode = "settings" /\ menu.items = <<>>
        /\ escapes' \in 0..4 /\ escapes' <= escapes + 1
        /\ UNCHANGED <<mode, cell, menu, composing, viewer>>
        /\ settings' = InSub("none") /\ settings \in Sessions /\ settings.open
        /\ settings.sub \in {"edit", "reset"}
    BY <1>1, <2>1, EditorKey
  <2>3. /\ settings' \in Sessions /\ settings'.open
        /\ settings'.sub = "none" /\ settings'.level = settings.level
    BY <1>2, <2>2, SubChanges
  <2> QED
    BY <2>2, <2>3, OutOfSession
<1>5. CASE settings_search_commit
  <2>1. Editor("settings_search_commit", [InSub("none") EXCEPT !.origin = "section"])
    BY <1>5 DEF settings_search_commit
  <2>2. /\ mode = "settings" /\ menu.items = <<>> /\ escapes' = 0
        /\ UNCHANGED <<mode, cell, menu, composing, viewer>>
        /\ settings' = [InSub("none") EXCEPT !.origin = "section"]
        /\ settings \in Sessions /\ settings.open
    BY <1>1, <2>1, EditorKey
  <2>3. InSub("none") \in Sessions /\ InSub("none").open /\ InSub("none").sub = "none"
    BY <1>2, <2>2, SubChanges
  <2>4. settings' \in Sessions /\ settings'.open /\ settings'.sub = "none"
    BY <1>2, <2>2, <2>3 DEF Sessions
  <2> QED
    BY <2>2, <2>4, SessionStays
<1>6. CASE settings_search_cancel
  <2>1. Editor("settings_search_cancel",
               [InSub("none") EXCEPT !.level = settings.origin, !.origin = "section"])
    BY <1>6 DEF settings_search_cancel
  <2>2. /\ mode = "settings" /\ menu.items = <<>> /\ settings.sub = "search"
        /\ escapes' \in 0..4 /\ escapes' <= escapes + 1
        /\ UNCHANGED <<mode, cell, menu, composing, viewer>>
        /\ settings' = [InSub("none") EXCEPT !.level = settings.origin, !.origin = "section"]
        /\ settings \in Sessions /\ settings.open
    BY <1>1, <2>1, EditorKey
  <2>3. InSub("none") \in Sessions /\ InSub("none").open /\ InSub("none").sub = "none"
    BY <1>2, <2>2, SubChanges
  <2>4. settings.origin \in Levels
    BY <2>2 DEF Sessions
  <2>5. /\ settings' \in Sessions /\ settings'.open /\ settings'.sub = "none"
        /\ settings'.level = settings.origin
    BY <1>2, <2>2, <2>3, <2>4 DEF Sessions
  <2> QED
    BY <2>2, <2>5, OutOfSession
<1>7. CASE ExtendSettings
  <2>1. /\ Layer \in {"edit", "search"} /\ escapes' = 0
        /\ UNCHANGED <<mode, cell, menu, composing, viewer>>
    BY <1>7 DEF ExtendSettings, TypedInto
  <2>2. mode = "settings" /\ menu.items = <<>> /\ (Layer = "search" => settings.sub = "search")
    BY <2>1, LayerFacts
  <2>3. /\ settings \in Sessions /\ settings.open
        /\ settings.sub = "edit" => settings.level = "field"
    BY <2>2, SessionOpen
  <2>4. CASE settings' = settings
    BY <2>1, <2>2, <2>3, <2>4, SessionStays
  <2>5. CASE Layer = "search" /\ \E level \in {settings.level, "record"} : settings' = AtLevel(level)
    <3>1. settings.level \in Levels
      BY <2>3 DEF Sessions
    <3>2. settings' \in Sessions /\ settings'.open /\ settings'.sub = "search"
      BY <1>2, <2>2, <2>3, <2>5, <3>1, LevelChanges
    <3> QED
      BY <2>1, <2>2, <3>2, SessionStays
  <2> QED
    BY <1>7, <2>4, <2>5 DEF ExtendSettings, TypedInto
<1> QED
  BY <1>3, <1>4, <1>5, <1>6, <1>7

\* The keys that open and close the editor.
LEMMA EditorStep ==
  ASSUME PaneInv, open_settings \/ settings_ascend \/ settings_close
  PROVE  PaneInv'
<1>1. {"settings_ascend", "settings_close"} \subseteq SettingsActions
  BY DEF SettingsActions
<1>2. "section" \in Levels /\ "record" \in Levels /\ "none" \in SubLayers
  BY DEF Levels, SubLayers
<1>3. CASE open_settings
  <2>1. mode = "notebook" /\ Bare /\ menu' = menu /\ escapes' = 0
    BY <1>3, InTheNotebook DEF open_settings, PressedAny, NotebookActions
  <2>2. mode' = "settings" /\ UNCHANGED <<composing, viewer>> /\ OpenSettings("section", "none")
    BY <1>3 DEF open_settings, Leave
  <2>3. composing \in BOOLEAN /\ viewer \in Viewers
    BY DEF PaneInv, PaneTypes
  <2>4. /\ composing' = FALSE /\ viewer' = [open |-> FALSE, quick |-> FALSE]
        /\ menu.items = <<>>
    BY <2>1, <2>2, <2>3 DEF Bare, Closed, Viewers
  <2>5. settings' \in Sessions /\ settings'.open /\ settings'.sub # "edit"
    BY <1>2, <2>2, SettingsOpen DEF OpenSettings
  <2>6. ModeDepth' \in 0..4
    BY <2>2 DEF ModeDepth, LevelDepth
  <2>7. ModeDepth' + escapes' <= 4
    BY <2>1, <2>6, Within
  <2>8. escapes' \in 0..4
    BY <2>1
  <2> QED
    BY <2>1, <2>2, <2>4, <2>5, <2>7, <2>8, InSettings
<1>4. CASE CloseSettings /\ (PressedAny({"settings_ascend"}) \/ PressedAny({"settings_close"}))
  <2>1. PICK action \in {"settings_ascend", "settings_close"} : Pressed(action) /\ UNCHANGED menu
    BY <1>4 DEF PressedAny
  <2>2. mode = "settings" /\ menu.items = <<>> /\ escapes' \in 0..4
    BY <1>1, <2>1, InTheSettings
  <2>3. composing = FALSE /\ viewer = [open |-> FALSE, quick |-> FALSE]
    BY <2>2, SessionOpen
  <2>4. settings' = NoSettings /\ mode' = "notebook" /\ UNCHANGED <<composing, viewer>>
    BY <1>4 DEF CloseSettings, Leave
  <2>5. Bare'
    BY <2>1, <2>2, <2>3, <2>4 DEF Bare, Closed, NoSettings
  <2> QED
    BY <2>1, <2>2, <2>3, <2>4, <2>5, Landing
<1>5. CASE \/ settings.level = "field" /\ Editor("settings_ascend", AtLevel("record"))
           \/ settings.level = "record" /\ Editor("settings_ascend", AtLevel("section"))
  <2>1. PICK level \in {"record", "section"} :
          /\ Editor("settings_ascend", AtLevel(level))
          /\ settings.level = IF level = "record" THEN "field" ELSE "record"
    BY <1>5
  <2>2. /\ mode = "settings" /\ menu.items = <<>> /\ settings.sub = "none"
        /\ escapes' \in 0..4 /\ escapes' <= escapes + 1
        /\ UNCHANGED <<mode, cell, menu, composing, viewer>>
        /\ settings' = AtLevel(level) /\ settings \in Sessions /\ settings.open
    BY <1>1, <2>1, EditorKey
  <2>3. /\ settings' \in Sessions /\ settings'.open
        /\ settings'.sub = "none" /\ settings'.level = level
    BY <1>2, <2>1, <2>2, LevelChanges
  <2> QED
    BY <2>1, <2>2, <2>3, OutOfSession
<1> QED
  BY <1>3, <1>4, <1>5 DEF settings_ascend, settings_close

\* EVENT_LOG mode and its quick edit.
LEMMA InTheLog ==
  ASSUME PaneInv, NEW action \in EventLogActions \cup QuickEditActions, Pressed(action)
  PROVE  /\ mode = "event_log" /\ menu.items = <<>> /\ appRunning
         /\ action = "event_log_quick_edit_cancel" => viewer.quick
         /\ escapes' \in 0..4 /\ escapes' <= escapes + 1
         /\ action \notin EscapeActions => escapes' = 0
<1>1. action \in AnyAction
  BY DEF AnyAction
<1>2. /\ Layer \in Layers /\ action \in ActionsIn[Layer] /\ appRunning
      /\ escapes' \in 0..4 /\ escapes' <= escapes + 1
  BY <1>1, Counted
<1>3. /\ Layer \in {"event_log", "quick_edit"}
      /\ action = "event_log_quick_edit_cancel" => Layer = "quick_edit"
  BY <1>2, Apart DEF EventLogActions, QuickEditActions
<1>4. action \notin EscapeActions => escapes' = 0
  BY <1>1, NotEscape
<1> QED
  BY <1>2, <1>3, <1>4, LayerFacts

\* Nothing but the viewer is open in its mode.
LEMMA ViewerOpen ==
  ASSUME PaneInv, mode = "event_log"
  PROVE  /\ settings \in Sessions /\ ~settings.open /\ settings.sub = "none"
         /\ composing = FALSE /\ escapes \in 0..4
<1>1. composing \in BOOLEAN /\ settings \in Sessions /\ escapes \in 0..4
  BY DEF PaneInv, PaneTypes
<1>2. ~composing /\ ~settings.open /\ settings.sub = "none"
  BY DEF PaneInv, PaneTypes, ModalAgrees, SubLayers
<1> QED
  BY <1>1, <1>2

\* The key that opens the viewer, those that leave it and those that stay.
LEMMA ViewerStep ==
  ASSUME PaneInv, open_event_log \/ event_log_close \/ JumpToBinding \/ QuickEdit
  PROVE  PaneInv'
<1>1. /\ {"event_log_close", "event_log_jump_to_binding", "event_log_begin_quick_edit"}
           \subseteq EventLogActions
      /\ {"event_log_quick_edit_commit", "event_log_quick_edit_cancel"}
           \subseteq QuickEditActions
      /\ {"event_log_jump_to_binding", "event_log_begin_quick_edit",
          "event_log_quick_edit_commit"} \cap EscapeActions = {}
  BY DEF EventLogActions, QuickEditActions, EscapeActions
<1>2. CASE open_event_log
  <2>1. mode = "notebook" /\ Bare /\ menu' = menu /\ escapes' = 0
    BY <1>2, InTheNotebook DEF open_event_log, PressedAny, NotebookActions
  <2>2. /\ mode' = "event_log" /\ UNCHANGED <<composing, settings>>
        /\ viewer' = [open |-> TRUE, quick |-> FALSE]
    BY <1>2 DEF open_event_log, Viewer, Leave
  <2>3. composing \in BOOLEAN /\ settings \in Sessions
    BY DEF PaneInv, PaneTypes
  <2>4. /\ composing' = FALSE /\ ~settings'.open /\ settings'.sub = "none"
        /\ settings' \in Sessions /\ menu.items = <<>>
    BY <2>1, <2>2, <2>3 DEF Bare, Closed
  <2>5. viewer' \in [open : {TRUE}, quick : BOOLEAN] /\ ~viewer'.quick
    BY <2>2
  <2>6. escapes' \in 0..4 /\ escapes' <= 3
    BY <2>1
  <2> QED
    BY <2>1, <2>2, <2>4, <2>5, <2>6, InLog
<1>3. CASE event_log_close
  <2>1. Pressed("event_log_close") /\ UNCHANGED menu
    BY <1>3 DEF event_log_close, PressedAny
  <2>2. mode = "event_log" /\ menu.items = <<>> /\ escapes' \in 0..4
    BY <1>1, <2>1, InTheLog
  <2>3. /\ mode' = "notebook" /\ UNCHANGED <<composing, settings>> /\ viewer' = NoViewer
    BY <1>3 DEF event_log_close, Viewer, Leave, NoViewer
  <2>4. Bare' /\ composing' \in BOOLEAN
    BY <2>1, <2>2, <2>3, ViewerOpen DEF Bare, Closed, NoViewer
  <2> QED
    BY <2>1, <2>2, <2>3, <2>4, Landing
<1>4. CASE JumpToBinding
  <2>1. Pressed("event_log_jump_to_binding") /\ UNCHANGED menu
    BY <1>4 DEF JumpToBinding, PressedAny
  <2>2. mode = "event_log" /\ menu.items = <<>> /\ escapes' = 0
    BY <1>1, <2>1, InTheLog
  <2>3. PICK level \in {"section", "record"} : OpenSettings(level, "none")
    BY <1>4 DEF JumpToBinding
  <2>4. /\ mode' = "settings" /\ UNCHANGED composing
        /\ viewer' = [open |-> FALSE, quick |-> FALSE]
    BY <1>4 DEF JumpToBinding, Viewer, Leave
  <2>5. settings' \in Sessions /\ settings'.open /\ settings'.sub # "edit"
    BY <2>3, SettingsOpen DEF OpenSettings, Sessions, Levels, SubLayers
  <2>6. ModeDepth' \in 0..4
    BY <2>4 DEF ModeDepth, LevelDepth
  <2>7. ModeDepth' + escapes' <= 4
    BY <2>2, <2>6, Within
  <2>8. escapes' \in 0..4 /\ composing' = FALSE
    BY <2>2, <2>4, ViewerOpen
  <2> QED
    BY <2>1, <2>2, <2>4, <2>5, <2>7, <2>8, InSettings
<1>5. CASE QuickEdit
  <2>1. UNCHANGED <<mode, composing, settings, menu, cell>>
    BY <1>5 DEF QuickEdit, PressedAny, TypedInto, Viewer
  <2>2. /\ mode = "event_log" /\ menu.items = <<>> /\ escapes' \in 0..4 /\ escapes' <= 3
        /\ viewer' \in [open : {TRUE}, quick : BOOLEAN]
        /\ viewer'.quick => escapes' = 0
    <3>1. CASE \/ PressedAny({"event_log_jump_to_binding"})
               \/ PressedAny({"event_log_begin_quick_edit", "event_log_quick_edit_commit"})
      <4>1. PICK action \in {"event_log_jump_to_binding", "event_log_begin_quick_edit",
                             "event_log_quick_edit_commit"} : Pressed(action)
        BY <3>1 DEF PressedAny
      <4>2. mode = "event_log" /\ menu.items = <<>> /\ escapes' = 0
        BY <1>1, <4>1, InTheLog
      <4>3. PICK quick \in BOOLEAN : viewer' = [open |-> TRUE, quick |-> quick]
        BY <1>5 DEF QuickEdit, Viewer
      <4>4. viewer' \in [open : {TRUE}, quick : BOOLEAN]
        BY <4>3
      <4>5. escapes' \in 0..4 /\ escapes' <= 3
        BY <4>2
      <4> QED
        BY <4>2, <4>4, <4>5
    <3>2. CASE PressedAny({"event_log_quick_edit_cancel"}) /\ Viewer(TRUE, FALSE)
      <4>1. Pressed("event_log_quick_edit_cancel")
        BY <3>2 DEF PressedAny
      <4>2. /\ mode = "event_log" /\ menu.items = <<>> /\ viewer.quick
            /\ escapes' \in 0..4 /\ escapes' <= escapes + 1
        BY <1>1, <4>1, InTheLog
      <4>3. viewer' \in [open : {TRUE}, quick : BOOLEAN] /\ ~viewer'.quick
        BY <3>2 DEF Viewer
      <4>4. Depth = 2
        BY <4>2 DEF Depth, ModeDepth
      <4>5. escapes' <= 3
        BY <4>2, <4>4, ViewerOpen DEF PaneInv, DepthInv
      <4> QED
        BY <4>2, <4>3, <4>5
    <3>3. CASE TypedInto("quick_edit") /\ Viewer(TRUE, TRUE)
      <4>1. Layer = "quick_edit" /\ escapes' = 0
        BY <3>3 DEF TypedInto
      <4>2. mode = "event_log" /\ menu.items = <<>>
        BY <4>1, LayerFacts
      <4>3. viewer' \in [open : {TRUE}, quick : BOOLEAN]
        BY <3>3 DEF Viewer
      <4>4. escapes' \in 0..4 /\ escapes' <= 3
        BY <4>1
      <4> QED
        BY <4>1, <4>2, <4>3, <4>4
    <3> QED
      BY <1>5, <3>1, <3>2, <3>3 DEF QuickEdit
  <2>3. settings' \in Sessions /\ ~settings'.open /\ settings'.sub = "none" /\ composing' = FALSE
    BY <2>1, <2>2, ViewerOpen
  <2> QED
    BY <2>1, <2>2, <2>3, InLog
<1> QED
  BY <1>2, <1>3, <1>4, <1>5
-----------------------------------------------------------------------------
\* One cell that is empty, or a saved notebook.
LEMMA PanesAtFirst ==
  ASSUME ConsoleInit
  PROVE  PaneInv
<1>1. PaneTypes
  <2>1. NoSettings \in Sessions
    BY Zenon DEF NoSettings, Sessions, Levels, SubLayers
  <2>2. NoViewer \in Viewers
    BY Zenon DEF NoViewer, Viewers
  <2>3. NoMenu \in Menus
    <3>1. 0 \in 0..4
      OBVIOUS
    <3> QED
      BY <3>1, Zenon DEF NoMenu, Menus
  <2>4. mode \in Modes /\ escapes \in 0..4
    BY DEF ConsoleInit, Modes
  <2>5. composing \in BOOLEAN
    BY DEF ConsoleInit
  <2> QED
    BY <2>1, <2>2, <2>3, <2>4, <2>5 DEF ConsoleInit, PaneTypes
<1>2. MenuInv /\ ModalAgrees
  BY ConsoleAssumption DEF ConsoleInit, MenuInv, ModalAgrees, NoMenu, NoSettings, NoViewer,
     HasCommand
<1>3. Depth \in 0..4 /\ escapes = 0
  BY DEF ConsoleInit, Depth, ModeDepth, NoMenu
<1>4. Depth + escapes <= 4
  BY <1>3
<1> QED
  BY <1>1, <1>2, <1>4 DEF PaneInv, DepthInv

\* What is open belongs to the mode and is within four presses of Escape, together
\* with the types that takes.
THEOREM PaneInvariance == ConsoleSpec => []PaneInv
<1>1. PaneInv /\ [ConsoleNext]_consoleVars => PaneInv'
  <2> SUFFICES ASSUME PaneInv, [ConsoleNext]_consoleVars PROVE PaneInv'
    OBVIOUS
  <2>1. CASE UNCHANGED consoleVars
    BY <2>1 DEF consoleVars, panes, PaneInv, PaneTypes, MenuInv, ModalAgrees, HasCommand, Offered,
       DepthInv, Depth, ModeDepth, LevelDepth
  <2>2. CASE \/ Swallow \/ Elsewhere \/ EditLine \/ MoveCaret \/ WalkHistory \/ TypeCharacter
    BY <2>2, SwallowStep, StayingStep
  <2>3. CASE \/ enter_input \/ new_cell \/ begin_text_input \/ view_output \/ MoveFocus
             \/ delete_cell \/ exit_input \/ submit_text_input \/ abandon_text_input \/ submit
    BY <2>3, NotebookStep, LineStep
  <2>4. CASE \/ MetaAmbient \/ MetaLog \/ MetaSettings \/ MetaInTheNotebook \/ MetaQuit
    BY <2>4, MetaStep
  <2>5. CASE \/ exit_output \/ BeginComposing \/ EndComposing \/ ExtendComposer
             \/ open_action_menu \/ MoveInMenu \/ CloseMenu \/ Copy
    BY <2>5, OutputStep, MenuStep
  <2>6. CASE \/ settings_descend \/ settings_begin_edit \/ settings_reset_begin
             \/ settings_search_begin \/ UndoRedo \/ FollowMatches
             \/ settings_edit_commit \/ settings_edit_cancel \/ settings_reset_confirm
             \/ settings_reset_cancel \/ settings_search_commit \/ settings_search_cancel
             \/ ExtendSettings
    BY <2>6, WithinTheEditor, OutOfASubMode
  <2>7. CASE \/ open_settings \/ settings_ascend \/ settings_close
             \/ open_event_log \/ event_log_close \/ JumpToBinding \/ QuickEdit
    BY <2>7, EditorStep, ViewerStep
  <2> QED
    BY <2>1, <2>2, <2>3, <2>4, <2>5, <2>6, <2>7 DEF ConsoleNext
<1> QED
  BY <1>1, PanesAtFirst, PTL DEF ConsoleSpec

\* After every key the mode and what the controllers have open agree: a session or a
\* viewer in its own mode alone, and a menu that offers what belongs there.
THEOREM ModesAgree == ConsoleSpec => []ModalAgrees
<1>1. PaneInv => ModalAgrees
  BY DEF PaneInv
<1> QED
  BY <1>1, PaneInvariance, PTL

\* Four presses of Escape in a row lead to the notebook from anywhere, with nothing
\* left open (onboarding.py:43).
THEOREM FourEscapesLeadHome == ConsoleSpec => []EscapeLeads
<1>1. PaneInv => EscapeLeads
  <2> SUFFICES ASSUME PaneInv, escapes = 4 PROVE AtHome
    BY DEF EscapeLeads
  <2>1. Depth <= 0 /\ mode \in Modes
    BY DEF PaneInv, PaneTypes, DepthInv, Depth, ModeDepth, LevelDepth
  <2> QED
    BY <2>1 DEF Depth, ModeDepth, LevelDepth, AtHome, Modes
<1> QED
  BY <1>1, PaneInvariance, PTL

-----------------------------------------------------------------------------
(* The line and the walk through the history. *)

\* The line is what the user typed, or the walk keeps that as the draft.
LineInv ==
  /\ line = [buffer |-> line.buffer, caret |-> line.caret, browse |-> line.browse,
             draft |-> line.draft]
  /\ line.browse \in Nat
  /\ typed = IF line.browse = 0 THEN line.buffer ELSE line.draft

HistoryInv == \E S : history \in Seq(S)

TextInv == LineInv /\ HistoryInv

\* A line that is just shown is the one the user typed.
LEMMA Fresh ==
  ASSUME NEW buffer, line' = Line(buffer), typed' = buffer
  PROVE  LineInv'
BY DEF LineInv, Line

\* An edit ends the walk.
LEMMA EditedIsTyped ==
  ASSUME LineInv, NEW before, NEW after, line' = Edited(before, after), typed' = line'.buffer
  PROVE  LineInv'
BY DEF LineInv, Edited

\* The keys that edit the line; one with nothing to do leaves the walk on.
LEMMA EditStep ==
  ASSUME LineInv, EditLine \/ TypeCharacter
  PROVE  LineInv' /\ UNCHANGED history
<1>1. CASE EditLine
  <2>1. PICK after : /\ after = line \/ \E b, a : after = Edited(b, a)
                     /\ line' = after /\ typed' = IF after = line THEN typed ELSE after.buffer
                     /\ UNCHANGED history
    <3>1. CASE Edits("backspace", backspace(line))
      BY <3>1 DEF Edits, backspace
    <3>2. CASE Edits("delete_forward", delete_forward(line))
      BY <3>2 DEF Edits, delete_forward
    <3>3. CASE Edits("delete_word_left", delete_word_left(line))
      BY <3>3 DEF Edits, delete_word_left
    <3>4. CASE Edits("delete_to_start", delete_to_start(line))
      BY <3>4 DEF Edits, delete_to_start
    <3>5. CASE Edits("delete_to_end", delete_to_end(line))
      BY <3>5 DEF Edits, delete_to_end
    <3> QED
      BY <1>1, <3>1, <3>2, <3>3, <3>4, <3>5 DEF EditLine
  <2>2. CASE after = line
    BY <2>1, <2>2 DEF LineInv
  <2>3. CASE after # line
    BY <2>1, <2>3, EditedIsTyped
  <2> QED
    BY <2>1, <2>2, <2>3
<1>2. CASE TypeCharacter
  <2>1. \E c : line' = insert_character(line, c) /\ typed' = line'.buffer /\ UNCHANGED history
    BY <1>2 DEF TypeCharacter
  <2> QED
    BY <2>1, EditedIsTyped DEF insert_character
<1> QED
  BY <1>1, <1>2

\* The caret and the walk show what is there, and change nothing the user typed.
LEMMA WalkStep ==
  ASSUME TextInv, MoveCaret \/ WalkHistory
  PROVE  LineInv' /\ UNCHANGED history
<1>1. typed' = typed /\ UNCHANGED history
  BY DEF MoveCaret, WalkHistory, Shows
<1>2. CASE MoveCaret
  <2>1. PICK c : line' = [line EXCEPT !.caret = c]
    BY <1>2 DEF MoveCaret, Shows, cursor_left, cursor_right, cursor_home, cursor_end
  <2> QED
    BY <1>1, <2>1 DEF TextInv, LineInv
<1>3. CASE WalkHistory
  <2>1. PICK S : history \in Seq(S)
    BY DEF TextInv, HistoryInv
  <2>2. Len(history) \in Nat /\ (history # <<>> => Len(history) # 0)
    BY <2>1, LenProperties, EmptySeq
  <2>3. CASE line' = history_previous(line, history)
    <3>1. CASE ~CanGoBack(line, history)
      BY <1>1, <2>3, <3>1 DEF history_previous, TextInv, LineInv
    <3>2. CASE CanGoBack(line, history) /\ line.browse = 0
      <4>1. line' = Recalled(line, history, Len(history), line.buffer)
        BY <2>3, <3>2 DEF history_previous
      <4> QED
        BY <1>1, <2>2, <3>2, <4>1 DEF CanGoBack, Recalled, TextInv, LineInv
    <3>3. CASE CanGoBack(line, history) /\ line.browse # 0
      <4>1. line' = Recalled(line, history, line.browse - 1, line.draft)
        BY <2>3, <3>3 DEF history_previous
      <4>2. line.browse - 1 \in Nat /\ line.browse - 1 # 0
        BY <3>3 DEF CanGoBack, TextInv, LineInv
      <4> QED
        BY <1>1, <3>3, <4>1, <4>2 DEF Recalled, TextInv, LineInv
    <3> QED
      BY <3>1, <3>2, <3>3
  <2>4. CASE line' = history_next(line, history)
    <3>1. CASE line.browse = 0
      BY <1>1, <2>4, <3>1 DEF history_next, TextInv, LineInv
    <3>2. CASE line.browse # 0 /\ line.browse = Len(history)
      BY <1>1, <2>4, <3>2, Fresh DEF history_next, TextInv, LineInv
    <3>3. CASE line.browse # 0 /\ line.browse # Len(history)
      <4>1. line' = Recalled(line, history, line.browse + 1, line.draft)
        BY <2>4, <3>3 DEF history_next
      <4>2. line.browse + 1 \in Nat /\ line.browse + 1 # 0
        BY DEF TextInv, LineInv
      <4> QED
        BY <1>1, <3>3, <4>1, <4>2 DEF Recalled, TextInv, LineInv
    <3> QED
      BY <3>1, <3>2, <3>3
  <2> QED
    BY <1>3, <2>3, <2>4 DEF WalkHistory, Shows
<1> QED
  BY <1>2, <1>3

\* The keys that leave the line or begin another.
LEMMA TurnStep ==
  ASSUME TextInv,
         \/ enter_input \/ new_cell \/ exit_input \/ begin_text_input \/ submit_text_input
         \/ abandon_text_input \/ view_output \/ exit_output \/ submit
         \/ MetaAmbient \/ MetaLog \/ MetaSettings \/ MetaInTheNotebook \/ MetaQuit
         \/ open_settings \/ settings_ascend \/ settings_close
         \/ open_event_log \/ event_log_close \/ JumpToBinding
  PROVE  TextInv'
<1>1. \/ UNCHANGED text
      \/ \E m : Leave(m)
      \/ \E command : EnterInput(command)
  BY DEF enter_input, new_cell, exit_input, begin_text_input, submit_text_input,
     abandon_text_input, view_output, exit_output, submit, SubmitCommand, SubmitLastCommand,
     MetaAmbient, MetaLog, MetaSettings, MetaInTheNotebook, MetaQuit, open_settings,
     settings_ascend, settings_close, CloseSettings, Editor, open_event_log, event_log_close,
     JumpToBinding, text
<1>2. LineInv'
  <2>1. CASE UNCHANGED text
    BY <2>1 DEF text, TextInv, LineInv
  <2>2. CASE \E m : Leave(m)
    BY <2>2, Fresh DEF Leave
  <2>3. CASE \E command : EnterInput(command)
    BY <2>3, Fresh DEF EnterInput
  <2> QED
    BY <1>1, <2>1, <2>2, <2>3
<1>3. UNCHANGED history \/ \E command : history' = Append(history, command)
  BY DEF enter_input, new_cell, exit_input, begin_text_input, submit_text_input,
     abandon_text_input, view_output, exit_output, submit, SubmitCommand, SubmitLastCommand,
     record_command, Meta, MetaAmbient, MetaLog, MetaSettings, MetaInTheNotebook, MetaQuit,
     open_settings, settings_ascend, settings_close, CloseSettings, Editor, open_event_log,
     event_log_close, JumpToBinding, Viewer
<1>4. HistoryInv'
  <2>1. PICK S : history \in Seq(S)
    BY DEF TextInv, HistoryInv
  <2>2. ASSUME NEW command, history' = Append(history, command)
        PROVE  HistoryInv'
    <3>1. history \in Seq(S \cup {command})
      BY <2>1
    <3>2. history' \in Seq(S \cup {command})
      BY <2>2, <3>1, AppendProperties
    <3> QED
      BY <3>2 DEF HistoryInv
  <2> QED
    BY <1>3, <2>1, <2>2 DEF HistoryInv
<1> QED
  BY <1>2, <1>4 DEF TextInv

\* The line shown or the draft the walk keeps is the line as typed, and the history is
\* a sequence, whatever is recorded.
THEOREM TextInvariance == ConsoleSpec => []TextInv
<1>1. ConsoleInit => TextInv
  <2> SUFFICES ASSUME ConsoleInit PROVE TextInv
    OBVIOUS
  <2>1. HistoryInv
    <3>1. history \in Seq({})
      BY DEF ConsoleInit
    <3> QED
      BY <3>1 DEF HistoryInv
  <2> QED
    BY <2>1 DEF ConsoleInit, TextInv, LineInv, Line
<1>2. TextInv /\ [ConsoleNext]_consoleVars => TextInv'
  <2> SUFFICES ASSUME TextInv, [ConsoleNext]_consoleVars PROVE TextInv'
    OBVIOUS
  <2>1. CASE UNCHANGED <<text, history>>
    BY <2>1 DEF text, TextInv, LineInv, HistoryInv
  <2>2. CASE EditLine \/ TypeCharacter
    BY <2>2, EditStep DEF TextInv, HistoryInv
  <2>3. CASE MoveCaret \/ WalkHistory
    BY <2>3, WalkStep DEF TextInv, HistoryInv
  <2>4. CASE \/ enter_input \/ new_cell \/ exit_input \/ begin_text_input \/ submit_text_input
             \/ abandon_text_input \/ view_output \/ exit_output \/ submit
             \/ MetaAmbient \/ MetaLog \/ MetaSettings \/ MetaInTheNotebook \/ MetaQuit
             \/ open_settings \/ settings_ascend \/ settings_close
             \/ open_event_log \/ event_log_close \/ JumpToBinding
    BY <2>4, TurnStep
  <2>5. CASE UNCHANGED consoleVars
    BY <2>1, <2>5 DEF consoleVars
  <2>6. CASE \/ Swallow \/ Elsewhere \/ MoveFocus \/ delete_cell \/ open_action_menu
             \/ MoveInMenu \/ CloseMenu \/ Copy
             \/ BeginComposing \/ EndComposing \/ ExtendComposer
    BY <2>1, <2>6 DEF Swallow, Elsewhere, MoveFocus, delete_cell, open_action_menu,
       MoveInMenu, CloseMenu, Copy, BeginComposing, EndComposing, ExtendComposer, Composer
  <2>7. CASE \/ settings_descend \/ settings_begin_edit \/ settings_edit_commit
             \/ settings_edit_cancel \/ settings_reset_begin \/ settings_reset_confirm
             \/ settings_reset_cancel \/ settings_search_begin \/ settings_search_commit
             \/ settings_search_cancel \/ FollowMatches \/ UndoRedo \/ ExtendSettings
             \/ QuickEdit
    BY <2>1, <2>7 DEF settings_descend, settings_begin_edit, settings_edit_commit,
       settings_edit_cancel, settings_reset_begin, settings_reset_confirm,
       settings_reset_cancel, settings_search_begin, settings_search_commit,
       settings_search_cancel, FollowMatches, UndoRedo, ExtendSettings, Editor,
       QuickEdit, Viewer
  <2> QED
    BY <2>2, <2>3, <2>4, <2>5, <2>6, <2>7 DEF ConsoleNext
<1> QED
  BY <1>1, <1>2, PTL DEF ConsoleSpec

\* A walk through the history gives the draft back unchanged (NotebookCursor.history_next),
\* for lines and histories of any length.
THEOREM TheDraftComesBack == ConsoleSpec => []DraftComesBack
<1>1. TextInv => DraftComesBack
  BY DEF TextInv, LineInv, DraftComesBack
<1> QED
  BY <1>1, TextInvariance, PTL

=============================================================================
