----------------------------- MODULE MCEventLoop -----------------------------
(* EventLoop with the constants of EventLoop.cfg. *)
EXTENDS EventLoop
==============================================================================
