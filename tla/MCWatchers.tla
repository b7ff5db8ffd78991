----------------------------- MODULE MCWatchers -----------------------------
(***************************************************************************)
(* TLC instances of CommandWatchers.  A silence of two ticks and beats     *)
(* every three keep the two thresholds apart, and a check that may last    *)
(* one tick makes the time it works with stale.                            *)
(***************************************************************************)
EXTENDS CommandWatchers
=============================================================================
