----------------------------- MODULE MCExecution -----------------------------
(***************************************************************************)
(* TLC instances of Execution: two interchangeable cells, so that one run  *)
(* can follow another of the same cell or of a different one, and a few    *)
(* submissions, cancels, edits and handler failures; every configuration   *)
(* gives its own bounds.                                                   *)
(***************************************************************************)
EXTENDS Execution, TLC

\* Sound for the safety runs only: no definition tells one cell from another.
CellSymmetry == Permutations(Cells)
=============================================================================
