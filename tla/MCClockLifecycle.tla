-------------------------- MODULE MCClockLifecycle --------------------------
(* Instances of ClockLifecycle for TLC.                                       *)
EXTENDS ClockLifecycle
=============================================================================
