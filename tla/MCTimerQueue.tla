---------------------------- MODULE MCTimerQueue ----------------------------
(* An instance of TimerQueue for TLC: ticks of half a millisecond. *)
EXTENDS TimerQueue
============================================================================
