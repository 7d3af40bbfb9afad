----------------------------- MODULE MCWildcard -----------------------------
(***************************************************************************)
(* Every pattern of up to four characters over two letters, "*" and "?",   *)
(* against every name of up to four letters.                               *)
(***************************************************************************)
EXTENDS Wildcard
=============================================================================
