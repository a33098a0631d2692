----------------------------- MODULE MCReadings -----------------------------
(* Instances of Readings for TLC.                                             *)
EXTENDS Readings

\* A monitor that runs every second.
One == {"m1"}
EverySecond == [m \in One |-> 1]
NoOffset == [m \in One |-> 0]
=============================================================================
