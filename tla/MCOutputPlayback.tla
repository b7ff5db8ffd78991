-------------------------- MODULE MCOutputPlayback --------------------------
(***************************************************************************)
(* TLC instances of OutputPlayback: one output long enough for a playback  *)
(* that moves twice, and one that stays empty.                             *)
(***************************************************************************)
EXTENDS OutputPlayback

CONSTANTS long, empty

LineBounds == [c \in Cells |-> IF c = long THEN 3 ELSE 0]
=============================================================================
