------------------------------ MODULE MCTaskPath ------------------------------
(* TaskPath with the constants of TaskPathReply.cfg. *)
EXTENDS TaskPath
===============================================================================
