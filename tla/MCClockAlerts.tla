---------------------------- MODULE MCClockAlerts ----------------------------
(* Instances of ClockAlerts for TLC.                                          *)
EXTENDS ClockAlerts, MCClockResults

SilentOrClean == {Silence, CleanResults}
==============================================================================
