----------------------------- MODULE MCConsole -----------------------------
(* One colon command of each kind, lines of two tokens, a history of two.  *)
EXTENDS Console

MCMetas == {"help", "log", "settings", "reset bank", "delete", "quit"}
MCCommands == {<<>>, <<"x">>}
=============================================================================
