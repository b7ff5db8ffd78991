----------------------------- MODULE MCNotebook -----------------------------
(***************************************************************************)
(* TLC instances of Notebook: four cells are enough for a section within a *)
(* section with a cell in it and something after it; two heading levels    *)
(* and one bookmark.                                                       *)
(***************************************************************************)
EXTENDS Notebook

\* Sound for the invariants and action properties: no definition tells one id
\* from another.
IdSymmetry == Permutations(Ids)
=============================================================================
