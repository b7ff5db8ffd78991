------------------------------ MODULE Lifetime ------------------------------
(***************************************************************************)
(* The life of the program, from the command line to the prompt and back:  *)
(* __main__.py, Application.build and close (app.py), the workspace and    *)
(* its notebooks on disk (workspace.py, session.py), the first-run welcome *)
(* (onboarding.py) and the loop that reads keys.  A file is written in two *)
(* steps, because write_text empties it first, and the process may end     *)
(* between any two steps.  A notebook is the set of the edits it has seen. *)
(***************************************************************************)
EXTENDS Naturals, Sequences, FiniteSets

CONSTANTS Names,          \* the names of notebooks, in their order
          Default,        \* DEFAULT_NOTEBOOK_NAME
          Loose,          \* a file for --session, outside the workspace
          NoPath,         \* no file; no last notebook
          Missing, Torn,  \* no such file; a file whose writing was cut short
          MaxEdits,       \* bound: edits
          MaxSubmits,     \* bound: commands submitted in a launch
          MaxLaunches,    \* bound: starts of the program
          MaxFaults       \* bound: crashes, full disks, keys that raise

Notebooks == {Names[i] : i \in 1..Len(Names)}
Paths == Notebooks \cup {Loose}
Contents == SUBSET (1..MaxEdits)

ASSUME LifetimeAssumption ==
  /\ Default \in Notebooks /\ Loose \notin Notebooks /\ NoPath \notin Paths
  /\ Torn # Missing /\ \A content \in Contents : content # Torn /\ content # Missing
  /\ MaxEdits \in Nat /\ MaxSubmits \in Nat /\ MaxLaunches \in Nat /\ MaxFaults \in Nat

VARIABLES
  pc,        \* where main is; "down" when the program is not running
  launch,    \* the command line: workspace, path, welcome
  tour,      \* first_run_tour
  config,    \* config.json: Missing, Torn or the notebook opened last
  files,     \* each notebook file: Missing, Torn or the edits in it
  writing,   \* the file a write_text is at work on
  sentinel,  \* first-run-done is there
  work,      \* the Session: the edits it holds
  running,   \* Application.running
  pending,   \* Application._pending, submissions by their number
  batch,     \* what drain_pending gave the loop and is not handed over yet
  deleted,   \* the submissions whose cell the user deleted
  handed,    \* what execute handed to the worker
  edits, submits, launches, faults,  \* counters
  held,      \* history: for each file the edits that were ever in it, whole
  greeted,   \* history: how often FIRST_RUN_DETECTED was published unasked
  dropped,   \* history: execute raised in this launch, and cost the rest of its batch
  cut        \* history: this launch ended before its close had run

notebooks == <<files, writing, held>>
disk == <<config, notebooks, sentinel>>
loop == <<running, pending, batch, deleted, handed, submits>>
ghosts == <<greeted, dropped, cut>>
vars == <<pc, launch, tour, disk, work, loop, edits, launches, faults, ghosts>>

Whole(content) == content # Missing /\ content # Torn
Exists(p) == files[p] # Missing

\* A step of main from here to there, no key of the user's and no fault.
Goes(from, to) ==
  /\ pc = from /\ pc' = to
  /\ UNCHANGED <<loop, edits, launches, faults, dropped, cut>>

\* write_text: opening the file empties it; then it is there in full.
Empties(p) ==
  /\ files' = [files EXCEPT ![p] = Torn] /\ writing' = p
  /\ UNCHANGED <<config, sentinel, held>>
Fills(content) ==
  /\ files' = [files EXCEPT ![writing] = content]
  /\ held' = [held EXCEPT ![writing] = @ \cup content]
  /\ writing' = NoPath /\ UNCHANGED <<config, sentinel>>

Configures(content) == config' = content /\ UNCHANGED <<notebooks, sentinel>>
-----------------------------------------------------------------------------
(* The command line: main and _resolve_workspace.                          *)

\* What is not there, is not a workspace or is one already ends with a line on
\* stderr; these are the other command lines, and where each goes on.
Start(first, workspace, path) ==
  /\ pc = "down" /\ pc' = first
  /\ launches < MaxLaunches /\ launches' = launches + 1
  /\ \E welcome \in BOOLEAN :
       launch' = [workspace |-> workspace, path |-> path, welcome |-> welcome]
  /\ tour' = FALSE /\ work' = {} /\ running' = TRUE
  /\ pending' = <<>> /\ batch' = <<>> /\ deleted' = {} /\ handed' = <<>> /\ submits' = 0
  /\ dropped' = FALSE /\ cut' = FALSE
  /\ UNCHANGED <<disk, edits, faults, greeted>>

StartPlain == \E path \in {NoPath, Loose} : Start("load", FALSE, path)

StartInitialising == config = Missing /\ Start("init", TRUE, NoPath)

\* A config that is torn is no JSON and raises out of main.
CanLoadWorkspace == config # Missing /\ config # Torn

StartInDirectory == CanLoadWorkspace /\ Start("choose", TRUE, NoPath)

\* By its name in the workspace or by its file.
StartOnNotebook ==
  \E n \in Notebooks : CanLoadWorkspace /\ Exists(n) /\ Start("load", TRUE, n)

\* Workspace.init: the directories, then the config.
BeginInit ==
  Goes("init", "initialising") /\ Configures(Torn) /\ UNCHANGED <<launch, tour, work, greeted>>
EndInit ==
  Goes("initialising", "choose") /\ Configures(NoPath) /\ UNCHANGED <<launch, tour, work, greeted>>

\* default_notebook: the one opened last if it is still there, else the first there
\* is, else an empty one that is written for it.
OpenPath(p) == launch' = [launch EXCEPT !.path = p]

LastIsThere == config # NoPath /\ Exists(config)

Choose ==
  /\ Goes("choose", "load")
  /\ \E i \in 1..Len(Names) :
       /\ Exists(Names[i])
       /\ IF LastIsThere THEN Names[i] = config
                         ELSE \A j \in 1..(i - 1) : ~Exists(Names[j])
       /\ OpenPath(Names[i])
  /\ UNCHANGED <<disk, tour, work, greeted>>

BeginDefault ==
  /\ Goes("choose", "creating")
  /\ \A n \in Notebooks : ~Exists(n)
  /\ OpenPath(Default) /\ Empties(Default)
  /\ UNCHANGED <<tour, work, greeted>>
EndDefault ==
  Goes("creating", "load") /\ Fills({}) /\ UNCHANGED <<launch, tour, work, greeted>>
-----------------------------------------------------------------------------
(* _load_session and Application.build.                                    *)

AfterLoad == IF launch.workspace THEN "record" ELSE "greet"

\* Mutant: what cannot be read counts as absent.
LoadOrBegin ==
  /\ Goes("load", AfterLoad)
  /\ work' = IF launch.path # NoPath /\ Whole(files[launch.path]) THEN files[launch.path] ELSE {}
  /\ UNCHANGED <<launch, disk, greeted, tour>>

\* Where there is no file the session is fresh, and is saved there later. Only a
\* fresh session is given cells, on a first run those of the tour.
Load ==
  /\ Goes("load", AfterLoad)
  /\ \/ /\ launch.path # NoPath => ~Exists(launch.path)
        /\ work' = {} /\ tour' = (launch.welcome /\ ~sentinel)
     \/ /\ launch.path # NoPath /\ Whole(files[launch.path])
        /\ work' = files[launch.path] /\ tour' = FALSE
  /\ UNCHANGED <<launch, disk, greeted>>

\* A file that is torn is no JSON and raises out of main.
LoadFails ==
  /\ pc = "load" /\ launch.path # NoPath /\ files[launch.path] = Torn
  /\ pc' = "down" /\ cut' = TRUE
  /\ UNCHANGED <<launch, tour, disk, work, loop, edits, launches, faults, greeted, dropped>>

\* set_last_opened
BeginRecord ==
  Goes("record", "recording") /\ Configures(Torn) /\ UNCHANGED <<launch, tour, work, greeted>>
EndRecord ==
  /\ Goes("recording", "greet") /\ Configures(launch.path)
  /\ UNCHANGED <<launch, tour, work, greeted>>

IsFirstRun == launch.welcome /\ ~sentinel

\* Mutant: the sentinel goes first.
MarkAndGreet ==
  /\ Goes("greet", "mark") /\ IsFirstRun
  /\ sentinel' = TRUE
  /\ UNCHANGED <<launch, tour, config, notebooks, work, greeted>>

\* OnboardingCoordinator.run: the welcome is published, then the sentinel written.
Greet ==
  /\ Goes("greet", "mark") /\ IsFirstRun
  /\ greeted' = greeted + 1
  /\ UNCHANGED <<launch, tour, disk, work>>
Mark ==
  /\ Goes("mark", IF tour THEN "tour" ELSE "key")
  /\ sentinel' = TRUE
  /\ UNCHANGED <<launch, tour, config, notebooks, work, greeted>>
GreetNobody ==
  /\ Goes("greet", "key") /\ ~IsFirstRun
  /\ UNCHANGED <<launch, tour, disk, work, greeted>>

\* _run_scripted_tour, the four beats of it.
Tour == Goes("tour", "key") /\ UNCHANGED <<launch, tour, disk, work, greeted>>
-----------------------------------------------------------------------------
(* The loop, _run.                                                         *)

Fault == faults < MaxFaults /\ faults' = faults + 1

\* A key was handled, and the loop goes on to what it submitted; or something that
\* listens raised when all had been done, and the loop reports it and reads on.
Handled ==
  \/ pc' = "drain" /\ UNCHANGED <<faults, dropped>>
  \/ pc' = "key" /\ Fault /\ UNCHANGED dropped

Key(from) == pc = from /\ UNCHANGED <<launch, tour, batch, handed, launches, greeted, cut>>

EditKey ==
  /\ Key("key") /\ Handled
  /\ edits < MaxEdits /\ edits' = edits + 1 /\ work' = work \cup {edits'}
  /\ UNCHANGED <<disk, running, pending, deleted, submits>>

SubmitKey ==
  /\ Key("key") /\ Handled
  /\ submits < MaxSubmits /\ submits' = submits + 1 /\ pending' = Append(pending, submits')
  /\ UNCHANGED <<disk, work, running, deleted, edits>>

\* The cell of a submission that still waits, because its key raised.
DeleteKey ==
  /\ Key("key") /\ Handled
  /\ \E i \in 1..Len(pending) : deleted' = deleted \cup {pending[i]}
  /\ UNCHANGED <<disk, work, running, pending, submits, edits>>

\* :quit
QuitKey ==
  /\ Key("key") /\ Handled
  /\ running' = FALSE
  /\ UNCHANGED <<disk, work, pending, deleted, submits, edits>>

\* :save, when there is a path.
SaveKey ==
  /\ Key("key") /\ pc' = "saving"
  /\ launch.path # NoPath /\ Empties(launch.path)
  /\ UNCHANGED <<work, running, pending, deleted, submits, edits, faults, dropped>>
EndSaveKey ==
  /\ Key("saving") /\ Handled
  /\ Fills(work)
  /\ UNCHANGED <<work, running, pending, deleted, submits, edits>>

\* :new-notebook refuses a name that is taken.
NewNotebookKey ==
  /\ Key("key") /\ pc' = "adding"
  /\ launch.workspace
  /\ \E n \in Notebooks : ~Exists(n) /\ Empties(n)
  /\ UNCHANGED <<work, running, pending, deleted, submits, edits, faults, dropped>>
EndNewNotebookKey ==
  /\ Key("adding") /\ Handled
  /\ Fills({})
  /\ UNCHANGED <<work, running, pending, deleted, submits, edits>>

\* The disk is full: the file stays torn, the loop reports it and goes on.
WriteFails ==
  /\ \E from \in {"saving", "adding"} : Key(from)
  /\ pc' = "key" /\ Fault /\ UNCHANGED dropped
  /\ writing' = NoPath
  /\ UNCHANGED <<config, files, held, sentinel, work, running, pending, deleted, submits, edits>>

\* The end of the input, or Ctrl+C at the prompt or while cells are handed over.
EndInput ==
  /\ pc \in {"key", "drain"} /\ pc' = "close"
  /\ UNCHANGED <<launch, tour, disk, work, loop, edits, launches, faults, ghosts>>

InLoop == UNCHANGED <<launch, tour, disk, work, running, submits, deleted, edits, launches,
                      faults, greeted, cut>>

\* Mutant: the list is kept.
TakePendingAndKeep == batch' = pending /\ UNCHANGED pending

TakePending == batch' = pending /\ pending' = <<>>

Drain ==
  /\ pc = "drain" /\ batch = <<>> /\ pending # <<>> /\ TakePending
  /\ UNCHANGED <<pc, handed, dropped>> /\ InLoop

Execute ==
  /\ pc = "drain" /\ batch # <<>> /\ Head(batch) \notin deleted
  /\ handed' = Append(handed, Head(batch)) /\ batch' = Tail(batch)
  /\ UNCHANGED <<pc, pending, dropped>> /\ InLoop

\* There is no such cell: it raises, and the loop reports it; the rest of the batch
\* is gone.
ExecuteFails ==
  /\ pc = "drain" /\ batch # <<>> /\ Head(batch) \in deleted
  /\ batch' = <<>> /\ dropped' = TRUE
  /\ pc' = IF running THEN "key" ELSE "close"
  /\ UNCHANGED <<pending, handed>> /\ InLoop

\* Back to the top of the loop.
Drained ==
  /\ pc = "drain" /\ batch = <<>> /\ pending = <<>>
  /\ pc' = IF running THEN "key" ELSE "close"
  /\ UNCHANGED <<pending, batch, handed, dropped>> /\ InLoop
-----------------------------------------------------------------------------
(* Application.close and the end.                                          *)

\* Mutant: a session that came from no file is not saved.
SavesLoaded == launch.path # NoPath /\ held[launch.path] # {}

Saves == launch.path # NoPath

\* The worker, the monitor and the playback are closed before.
CloseBeginsSave ==
  /\ Goes("close", "last save") /\ Saves
  /\ Empties(launch.path) /\ UNCHANGED <<launch, tour, work, greeted>>
CloseEndsSave ==
  /\ Goes("last save", "release") /\ Fills(work)
  /\ UNCHANGED <<launch, tour, work, greeted>>
CloseWithoutSave ==
  /\ Goes("close", "release") /\ ~Saves
  /\ UNCHANGED <<launch, tour, disk, work, greeted>>

\* The sink, the runner and the loggers.
Release == Goes("release", "down") /\ UNCHANGED <<launch, tour, disk, work, greeted>>

\* The process is killed, the power fails, a write raises where nothing catches it,
\* or Ctrl+C comes while main is closing.
Crash ==
  /\ pc # "down" /\ pc' = "down" /\ Fault
  /\ cut' = TRUE /\ writing' = NoPath
  /\ UNCHANGED <<launch, tour, config, files, held, sentinel, work, loop, edits, launches,
                 greeted, dropped>>
-----------------------------------------------------------------------------
Init ==
  /\ pc = "down" /\ launch = [workspace |-> FALSE, path |-> NoPath, welcome |-> FALSE]
  /\ tour = FALSE /\ config = Missing /\ files = [p \in Paths |-> Missing]
  /\ writing = NoPath /\ sentinel = FALSE /\ work = {} /\ running = FALSE
  /\ pending = <<>> /\ batch = <<>> /\ deleted = {} /\ handed = <<>>
  /\ edits = 0 /\ submits = 0 /\ launches = 0 /\ faults = 0
  /\ held = [p \in Paths |-> {}] /\ greeted = 0 /\ dropped = FALSE /\ cut = FALSE

Startup ==
  \/ BeginInit \/ EndInit \/ Choose \/ BeginDefault \/ EndDefault \/ Load \/ LoadFails
  \/ BeginRecord \/ EndRecord \/ Greet \/ Mark \/ GreetNobody \/ Tour

Draining == Drain \/ Execute \/ ExecuteFails \/ Drained

Closing == CloseBeginsSave \/ CloseEndsSave \/ CloseWithoutSave \/ Release

Next ==
  \/ StartPlain \/ StartInitialising \/ StartInDirectory \/ StartOnNotebook
  \/ Startup \/ Draining \/ Closing
  \/ EditKey \/ SubmitKey \/ DeleteKey \/ QuitKey \/ SaveKey \/ EndSaveKey
  \/ NewNotebookKey \/ EndNewNotebookKey \/ WriteFails \/ EndInput
  \/ Crash

\* The program goes on where it waits for nobody.
Fairness == WF_vars(Startup) /\ WF_vars(Draining) /\ WF_vars(Closing)

Spec == Init /\ [][Next]_vars /\ Fairness
-----------------------------------------------------------------------------
(* Nothing that was ever saved in a notebook is lost, whatever was opened, *)
(* created and saved since, and however often the program crashed - unless *)
(* the file is torn; and what is torn is not written over by a session     *)
(* that never read it, so that it can still be repaired by hand.           *)
NothingSavedIsLost == \A p \in Paths : Whole(files[p]) => held[p] \subseteq files[p]

(* "Keeping sentinel creation *after* publishing ensures a crash mid-tour  *)
(* leaves the flag unset so the user is greeted again on the next launch"  *)
(* (onboarding.py:21): nobody is marked as greeted who was not, and each   *)
(* greeting too many is one crash.  It is about the welcome alone: a crash *)
(* in the beats of the tour, which follow the sentinel (app.py:433-436),   *)
(* leaves the flag set and the tour cut short.                             *)
GreetedBeforeMarked ==
  /\ sentinel => greeted > 0
  /\ greeted <= faults + 1

Submissions == handed \o batch \o pending

(* What is submitted is handed over once, in the order of submission.  As  *)
(* long as execute took every cell, nothing is missing: a key that raised  *)
(* has cost no submission, its own or another's; they wait for the next    *)
(* key that does not.                                                      *)
SubmissionsAccounted ==
  /\ \A i, j \in 1..Len(Submissions) : i < j => Submissions[i] < Submissions[j]
  /\ pc \in {"key", "drain", "saving", "adding"} /\ ~dropped =>
       {Submissions[i] : i \in 1..Len(Submissions)} = 1..submits

(* However a session ends - :quit, the end of the input, Ctrl+C - the file *)
(* it was opened on comes to hold all of it, unless the end is cut short.  *)
QuitSaves ==
  pc = "close" /\ launch.path # NoPath ~>
    cut \/ (pc = "down" /\ launch.path # NoPath /\ files[launch.path] = work)
=============================================================================
