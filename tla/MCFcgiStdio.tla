----------------------------- MODULE MCFcgiStdio -----------------------------
(* FcgiStdio, started by TLC. *)
EXTENDS FcgiStdio
==============================================================================
