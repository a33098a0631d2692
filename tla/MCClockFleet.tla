---------------------------- MODULE MCClockFleet ----------------------------
(* Instances of ClockFleet for TLC: the poll results, and the clock configs  *)
(* the control plane lists.                                                  *)
EXTENDS ClockFleet, MCClockResults, TLC

Armed == [listed |-> TRUE, known |-> TRUE, version |-> 1, current |-> 1]
Never == [listed |-> TRUE, known |-> TRUE, version |-> 0, current |-> 1]
Retired == [listed |-> FALSE, known |-> FALSE, version |-> 0, current |-> 0]

CallerSymmetry == Permutations(Callers)

ArmedOnly == {Armed}
SomeConfigs == {Armed, Never, Retired}

SickOrClean == {SickResults, CleanResults}
=============================================================================
