---------------------------- MODULE EditHistory ----------------------------
(***************************************************************************)
(* What an editor with undo promises: the versions of a session are a      *)
(* line, and one of them is the current one.  An edit drops what had been  *)
(* undone and adds a version; undo and redo walk the line.  Nothing else   *)
(* changes it.  Only the last MaxHistory edits can be undone.              *)
(***************************************************************************)
EXTENDS Integers, Sequences

CONSTANT MaxHistory

VARIABLES session, versions, at

vars == <<session, versions, at>>

Init == session = FALSE /\ Len(versions) = 1 /\ at = 1

Begin == ~session /\ session' = TRUE /\ UNCHANGED <<versions, at>>

End == session /\ session' = FALSE /\ versions' = <<versions[at]>> /\ at' = 1

\* Another value altogether, only between two sessions.
Replace == ~session /\ Len(versions') = 1 /\ at' = 1 /\ UNCHANGED session

\* One more version after the current one; the oldest goes when there are too many.
Edit ==
  LET kept == IF at > MaxHistory THEN SubSeq(versions, 2, at)
                                 ELSE SubSeq(versions, 1, at)
  IN /\ session /\ UNCHANGED session
     /\ at' = Len(kept) + 1
     /\ versions' = Append(kept, versions'[at'])

Undo == session /\ at > 1 /\ at' = at - 1 /\ UNCHANGED <<session, versions>>

Redo == session /\ at < Len(versions) /\ at' = at + 1 /\ UNCHANGED <<session, versions>>

Next == Begin \/ End \/ Replace \/ Edit \/ Undo \/ Redo

Spec == Init /\ [][Next]_vars
=============================================================================
