---------------------------- MODULE MCEventLoop ----------------------------
(* Instances of EventLoop. *)
EXTENDS EventLoop
=============================================================================
