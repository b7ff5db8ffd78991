--------------------------- MODULE ExecutionQueue ---------------------------
(***************************************************************************)
(* What the asynchronous execution pipeline promises its user, with no     *)
(* thread, lock, queue object or subprocess in sight: submissions wait in  *)
(* the order they were accepted, one runs at a time, and each one that     *)
(* still names a cell of the session when its turn comes is narrated       *)
(* exactly once.  "Cancelled" is narrated only if the user asked for it    *)
(* while that very submission was running.                                 *)
(*                                                                         *)
(* It promises no more than the code keeps: a cell on the move is not in   *)
(* the session for a moment, an event handler that raises can cost the     *)
(* running submission its end or the queue its thread (each such fault is  *)
(* counted, so none is used twice), and the process may end with           *)
(* submissions left.  Module Execution shows that worker, kernel, runner   *)
(* and bus implement this.                                                 *)
(***************************************************************************)
EXTENDS Naturals, Sequences

CONSTANTS Cells,     \* identifiers of the notebook's command cells
          NoCell     \* "nothing is running", "nothing is on the move"

Outcomes == {"completed", "failed", "cancelled", "unlaunched"}

VARIABLES members,   \* the cells in the session
          moving,    \* the cell on its way to another position, or NoCell
          pending,   \* accepted submissions, oldest first
          running,   \* the cell being executed, or NoCell
          asked,     \* has a cancel been asked for the running submission?
          narrated,  \* <<cell, outcome>> of every terminal event published
          faults,    \* handlers that raised so far
          served     \* "open"; "dead" or "quit" once nobody takes submissions

vars == <<members, moving, pending, running, asked, narrated, faults, served>>

Init ==
  /\ members = Cells
  /\ moving = NoCell
  /\ pending = <<>>
  /\ running = NoCell
  /\ asked = FALSE
  /\ narrated = <<>>
  /\ faults = 0
  /\ served = "open"

-----------------------------------------------------------------------------
(* The user. *)

Accept(c) ==
  /\ c \in members /\ served # "quit"
  /\ pending' = Append(pending, c)
  /\ UNCHANGED <<members, moving, running, asked, narrated, faults, served>>

Remove(c) ==
  /\ c \in members /\ served # "quit"
  /\ members' = members \ {c}
  /\ UNCHANGED <<moving, pending, running, asked, narrated, faults, served>>

Take(c) ==
  /\ moving = NoCell /\ c \in members /\ served # "quit"
  /\ members' = members \ {c}
  /\ moving' = c
  /\ UNCHANGED <<pending, running, asked, narrated, faults, served>>

PutBack ==
  /\ moving # NoCell
  /\ members' = members \union {moving}
  /\ moving' = NoCell
  /\ UNCHANGED <<pending, running, asked, narrated, faults, served>>

AskCancel ==
  /\ running # NoCell
  /\ asked' = TRUE
  /\ UNCHANGED <<members, moving, pending, running, narrated, faults, served>>

\* The process ends, whatever is left.
Quit ==
  /\ served # "quit" /\ moving = NoCell
  /\ served' = "quit"
  /\ UNCHANGED <<members, moving, pending, running, asked, narrated, faults>>

-----------------------------------------------------------------------------
(* The pipeline. *)

Begin ==
  /\ running = NoCell /\ pending # <<>>
  /\ Head(pending) \in members
  /\ running' = Head(pending)
  /\ pending' = Tail(pending)
  /\ asked' = FALSE
  /\ UNCHANGED <<members, moving, narrated, faults, served>>

\* A submission whose cell is not in the session is dropped silently: it was
\* deleted while it waited, or it is just being moved.
Vanish ==
  /\ running = NoCell /\ pending # <<>>
  /\ Head(pending) \notin members
  /\ pending' = Tail(pending)
  /\ UNCHANGED <<members, moving, running, asked, narrated, faults, served>>

End(o) ==
  /\ running # NoCell
  /\ o = "cancelled" => asked
  /\ narrated' = Append(narrated, <<running, o>>)
  /\ running' = NoCell
  /\ asked' = FALSE
  /\ UNCHANGED <<members, moving, pending, faults, served>>

Progress ==
  /\ served = "open"
  /\ Begin \/ Vanish \/ \E o \in Outcomes : End(o)

\* A handler raises: it may take the running submission with it, which is then
\* never narrated, or, between two submissions, the thread that serves them.
Fault ==
  /\ served = "open"
  /\ faults' = faults + 1
  /\ \/ UNCHANGED <<running, asked, served>>
     \/ /\ running # NoCell
        /\ running' = NoCell /\ asked' = FALSE
        /\ UNCHANGED served
     \/ /\ running = NoCell
        /\ served' = "dead"
        /\ UNCHANGED <<running, asked>>
  /\ UNCHANGED <<members, moving, pending, narrated>>

Next ==
  \/ \E c \in Cells : Accept(c) \/ Remove(c) \/ Take(c)
  \/ PutBack \/ AskCancel \/ Quit
  \/ Progress \/ Fault

Spec == Init /\ [][Next]_vars

\* The queue never stalls: whatever was accepted is eventually dealt with.
FairSpec == Spec /\ WF_vars(Progress)
=============================================================================
