------------------------------ MODULE MCTimers -------------------------------
(* Timers on small instances.                                              *)
EXTENDS Timers
=============================================================================
