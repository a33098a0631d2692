--------------------------- MODULE MCClockResults ---------------------------
(* One poll result for each class the rules of decide.go tell apart.         *)
EXTENDS ClockDecide

Answer == [failure |-> "none", status |-> 200, notEnabled |-> FALSE,
           parsed |-> TRUE, rightEnclave |-> TRUE, verdict |-> "in_sync",
           flagged |-> FALSE, trusted |-> TRUE, ntsUnreachable |-> FALSE,
           drift |-> Tolerance, ourKey |-> TRUE]

Clean == Answer
Drifted == [Answer EXCEPT !.drift = -Tolerance - 1]
Frozen == [Answer EXCEPT !.flagged = TRUE, !.verdict = "ignored_stale"]
MonitorWrong == [Answer EXCEPT !.verdict = "monitor_clock_wrong", !.flagged = TRUE]
ForeignKey == [Answer EXCEPT !.ourKey = FALSE, !.verdict = "ignored_stale"]
NoNTS == [Answer EXCEPT !.ntsUnreachable = TRUE]
Silent == [Answer EXCEPT !.failure = "unreachable"]
Unverified == [Answer EXCEPT !.failure = "unverified"]
FailedClosed == [Answer EXCEPT !.status = 503]
NoClock == [Answer EXCEPT !.status = 503, !.notEnabled = TRUE]
NotPinned == [Answer EXCEPT !.status = 409]
Garbled == [Answer EXCEPT !.parsed = FALSE]
OwnSide == [Answer EXCEPT !.failure = "own_side"]

AllResults == {Clean, Drifted, Frozen, MonitorWrong, ForeignKey, NoNTS, Silent,
               Unverified, FailedClosed, NoClock, NotPinned, Garbled, OwnSide}
FewResults == {Clean, Drifted, Frozen, Silent}
SomeResults == {Clean, Drifted, Frozen, MonitorWrong, NoNTS, Silent, Unverified, FailedClosed, NotPinned}
SickResults == {Drifted, Frozen, FailedClosed}
CleanResults == {Clean}
Silence == {Silent}
=============================================================================
