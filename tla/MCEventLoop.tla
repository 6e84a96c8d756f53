---------------------------- MODULE MCEventLoop ----------------------------
(* Instances of EventLoop for TLC; the configurations give the constants.   *)
EXTENDS EventLoop
============================================================================
