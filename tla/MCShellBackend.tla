--------------------------- MODULE MCShellBackend ---------------------------
(***************************************************************************)
(* TLC instances of ShellBackend: two runs, so that one can inherit what   *)
(* the other left, and up to two lines per run, enough for a line to    *)
(* be empty, unterminated or the one held back.                            *)
(***************************************************************************)
EXTENDS ShellBackend
=============================================================================
