---------------------------- MODULE AlertRecord ----------------------------
(***************************************************************************)
(* What the record keeps of the alerts on runtimes that are not            *)
(* quarantined (clock_vault_alerts in internal/core/clock.go), and what it *)
(* owes a reader.  ClockAlerts has the steps that write it.                *)
(***************************************************************************)
EXTENDS Sequences

CONSTANTS
    Runtimes    \* the runtimes polled

VARIABLES
    standing,   \* clock_vault_alerts: the alert standing on each runtime
    said        \* the last two alerts of that kind raised on each runtime

Standing == {"none", "clock_wrong", "unreachable"}
Events == {"none", "clock_wrong", "unreachable", "recovered"}

\* decide.go: "An alert is raised on the change, not on every reading", and a
\* recovery only after an alert: no two alerts in a row on a runtime are alike,
\* across lost writes, restarts and changes of its config.
AlertsAlternate == \A e \in Runtimes : said[e][1] # said[e][2]
============================================================================
