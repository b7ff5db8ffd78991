----------------------------- MODULE MCLifetime -----------------------------
(* Two notebooks of a workspace and a file outside, three launches.        *)
EXTENDS Lifetime

MCNames == <<"default", "ideas">>
=============================================================================
