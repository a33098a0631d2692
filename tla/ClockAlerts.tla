---------------------------- MODULE ClockAlerts ----------------------------
(***************************************************************************)
(* The alerts a reading raises (internal/clock: alertOnReading,            *)
(* alertOnVault, clearUnconfiguredAlert): a runtime that blames the        *)
(* monitor's clock or does not hold its key, and the alert standing on a   *)
(* runtime that is not quarantined, a vault or an enclave whose runtime    *)
(* has not acknowledged the clock config.                                  *)
(*                                                                         *)
(* Each step of a poll below is one transaction of the record.  Polls of   *)
(* one runtime do not overlap (ClockFleet), so each runtime has one poll   *)
(* here; the process may stop, or the record refuse a write, between any   *)
(* two of its steps.  Quarantines are in ClockFleet.                       *)
(***************************************************************************)
EXTENDS ClockDecide, AlertRecord

CONSTANTS
    Vaults,           \* the runtimes that are vaults
    Results,          \* what a poll may come back with
    Settlements,      \* sets of results the runtimes may settle on
    Rearms,           \* enclaves whose acknowledgement of the config may change
    WritesFail,       \* the record may refuse a write
    Crashes           \* the process may stop at any step

ASSUME AlertsAssumption ==
    /\ Vaults \subseteq Runtimes /\ Rearms \subseteq Runtimes \ Vaults
    /\ Results \subseteq PollResults /\ Settlements \subseteq SUBSET PollResults
    /\ {WritesFail, Crashes} \subseteq BOOLEAN

VARIABLES
    armed,      \* the latest list says the runtime holds the current config
    poll,       \* the poll of each runtime and its locals
    position,   \* clock_enclaves: what the alerts read of it
    blamed,     \* the last poll of each runtime alerted on the monitor's clock
    reported,   \* the missing key was alerted on since it went missing
    answers     \* what a poll may come back with from now on

record == <<position, standing, said, blamed, reported>>
vars == <<armed, poll, position, standing, said, blamed, reported, answers>>

NoPosition == [failedPolls |-> 0, configMissing |-> FALSE, blaming |-> FALSE]
Idle == [at |-> "idle", prev |-> NoPosition, reading |-> Blank, armed |-> FALSE, event |-> "none"]

Init ==
    /\ armed \in [Runtimes -> BOOLEAN]
    /\ poll = [e \in Runtimes |-> Idle]
    /\ position = [e \in Runtimes |-> NoPosition]
    /\ standing = [e \in Runtimes |-> "none"]
    /\ said = [e \in Runtimes |-> <<"none", "recovered">>]
    /\ blamed = [e \in Runtimes |-> FALSE]
    /\ reported = [e \in Runtimes |-> FALSE]
    /\ answers = Results

-----------------------------------------------------------------------------
(* The rules.                                                              *)

\* Mutant: the same problem again raises its alert again.
Mut_decideAlert(prev, r, st) ==
    CASE r.outcome = "ok" ->
            IF clockProblem(r) THEN "clock_wrong"
            ELSE IF st # "none" /\ cleanReading(r) THEN "recovered" ELSE "none"
      [] r.outcome # "ok" /\ r.outcome = "unreachable" /\ prev.failedPolls + 1 >= MaxFailedPolls ->
            "unreachable"
      [] OTHER -> "none"

\* decideAlert: prev is the position before the reading, st the alert standing.
decideAlert(prev, r, st) ==
    LET raise(event) == IF event = st THEN "none" ELSE event
    IN CASE r.outcome = "ok" /\ clockProblem(r) -> raise("clock_wrong")
         [] r.outcome = "ok" /\ ~clockProblem(r) ->
                IF st # "none" /\ cleanReading(r) THEN "recovered" ELSE "none"
         [] r.outcome # "ok" /\ configMissing(r) -> "none"
         [] r.outcome # "ok" /\ ~configMissing(r) ->
                IF failedClosed(r) THEN raise("clock_wrong")
                ELSE IF r.outcome = "unreachable" /\ prev.failedPolls + 1 >= MaxFailedPolls
                     THEN raise("unreachable") ELSE "none"

\* Mutant: a silent poll is not counted.
Mut_positionAfter(prev, r) ==
    [failedPolls |-> IF r.outcome = "unreachable" THEN prev.failedPolls ELSE 0,
     configMissing |-> r.outcome \in {"ok", "refused"} /\ configMissing(r),
     blaming |-> r.verdict = "monitor_clock_wrong"]

\* advance, for the fields the alerts read.
positionAfter(prev, r) ==
    [failedPolls |-> IF r.outcome = "unreachable" THEN OneMore(prev.failedPolls) ELSE 0,
     configMissing |-> IF r.outcome \in {"ok", "refused"} THEN configMissing(r)
                       ELSE prev.configMissing,
     blaming |-> IF r.outcome = "ok" THEN r.verdict = "monitor_clock_wrong" ELSE prev.blaming]

-----------------------------------------------------------------------------
(* A poll.                                                                 *)

At(e, step) == poll[e].at = step
Goes(e, step) == poll' = [poll EXCEPT ![e].at = step]
Ends(e) == poll' = [poll EXCEPT ![e] = Idle]

\* Poll up to its reading: the position, the answer, and the config of the list.
PollAnswers(e) ==
    /\ At(e, "idle")
    /\ \E res \in answers :
          /\ res.failure # "own_side"
          /\ poll' = [poll EXCEPT ![e] = [at |-> "record", prev |-> position[e],
                         reading |-> ReadingOf(res), armed |-> armed[e], event |-> "none"]]
    /\ blamed' = [blamed EXCEPT ![e] = FALSE]
    /\ UNCHANGED <<armed, position, standing, said, reported, answers>>

\* recordReadings; a missing key that is held again may be reported again.
RecordReading(e) ==
    /\ At(e, "record")
    /\ position' = [position EXCEPT ![e] = positionAfter(poll[e].prev, poll[e].reading)]
    /\ reported' = [reported EXCEPT ![e] = @ /\ position'[e].configMissing]
    /\ Goes(e, "blame")
    /\ UNCHANGED <<armed, standing, said, blamed, answers>>

\* The reading cannot be recorded, or the standing alert not read or not
\* written: the poll is over.
WriteFails(e) ==
    /\ WritesFail
    /\ At(e, "record") \/ At(e, "standing") \/ At(e, "alert")
    /\ Ends(e)
    /\ UNCHANGED <<armed, record, answers>>

\* alertOnReading: a runtime found the monitor's clock wrong.
AlertBlame(e) ==
    /\ At(e, "blame")
    /\ LET r == poll[e].reading
           due == r.outcome = "ok" /\ r.verdict = "monitor_clock_wrong"
       IN \E written \in {TRUE, ~WritesFail} :
             blamed' = [blamed EXCEPT ![e] = due /\ written]
    /\ Goes(e, "missing")
    /\ UNCHANGED <<armed, position, standing, said, reported, answers>>

\* alertOnReading: the runtime does not hold this monitor's key.
AlertMissing(e) ==
    /\ At(e, "missing")
    /\ LET due == position[e].configMissing /\ ~poll[e].prev.configMissing
       IN \E written \in {TRUE, ~WritesFail} :
             reported' = [reported EXCEPT ![e] = @ \/ (due /\ written)]
    /\ Goes(e, "standing")
    /\ UNCHANGED <<armed, position, standing, said, blamed, answers>>

\* Mutant: an alert from before the config ends on a clean answer only.
Mut_DecideStanding(e) ==
    /\ At(e, "standing")
    /\ LET p == poll[e]
           event == decideAlert(p.prev, p.reading, standing[e])
       IN \/ event = "none" /\ Ends(e)
          \/ event # "none" /\ poll' = [poll EXCEPT ![e] = [p EXCEPT !.at = "alert", !.event = event]]
    /\ UNCHANGED <<armed, record, answers>>

\* clearUnconfiguredAlert: an alert from before the config ends, whatever the
\* reading said.
clearUnconfiguredAlert(st) == IF st # "none" THEN "recovered" ELSE "none"

\* alertOnVault on a vault or an enclave without the config.
DecideStanding(e) ==
    /\ At(e, "standing")
    /\ LET p == poll[e]
           event == IF e \in Vaults \/ ~p.armed
                    THEN decideAlert(p.prev, p.reading, standing[e])
                    ELSE clearUnconfiguredAlert(standing[e])
       IN \/ event = "none" /\ Ends(e)
          \/ event # "none" /\ poll' = [poll EXCEPT ![e] = [p EXCEPT !.at = "alert", !.event = event]]
    /\ UNCHANGED <<armed, record, answers>>

\* RecordClockVaultAlert: the alert and what stands after it, one transaction.
RecordAlert(e) ==
    /\ At(e, "alert")
    /\ LET event == poll[e].event
       IN /\ standing' = [standing EXCEPT ![e] = IF event = "recovered" THEN "none" ELSE event]
          /\ said' = [said EXCEPT ![e] = <<@[2], event>>]
    /\ Ends(e)
    /\ UNCHANGED <<armed, position, blamed, reported, answers>>

-----------------------------------------------------------------------------

\* The runtime acknowledges a config, or the operator sets a newer one.
Rearm(e) ==
    /\ armed' = [armed EXCEPT ![e] = ~@]
    /\ UNCHANGED <<poll, record, answers>>

\* The process stops and starts again.
Restart ==
    /\ Crashes
    /\ poll' = [e \in Runtimes |-> Idle]
    /\ UNCHANGED <<armed, record, answers>>

\* From now on the runtimes answer in fewer ways.
Settle ==
    /\ answers = Results
    /\ answers' \in Settlements
    /\ UNCHANGED <<armed, poll, record>>

Next ==
    \/ \E e \in Runtimes :
          \/ PollAnswers(e) \/ RecordReading(e) \/ WriteFails(e) \/ AlertBlame(e)
          \/ AlertMissing(e) \/ DecideStanding(e) \/ RecordAlert(e)
    \/ \E e \in Rearms : Rearm(e)
    \/ Restart
    \/ Settle

Spec == Init /\ [][Next]_vars

\* Rounds keep coming, and neither does the record refuse the same write, nor
\* the process stop before the same step, every time.
Fairness ==
    \A e \in Runtimes :
        /\ WF_vars(PollAnswers(e)) /\ SF_vars(RecordReading(e))
        /\ SF_vars(AlertBlame(e)) /\ SF_vars(AlertMissing(e))
        /\ SF_vars(DecideStanding(e)) /\ SF_vars(RecordAlert(e))

FairSpec == Spec /\ Fairness

-----------------------------------------------------------------------------
(* Properties.                                                             *)

\* A vault, or an enclave without the config, that goes silent for good ends up
\* with an alert standing on it although writes fail and the process restarts.
SilentRuntimeAlerted ==
    \A e \in Runtimes, S \in Settlements :
        SilentAnswers(S) =>
            (<>[](answers = S /\ (e \in Vaults \/ ~armed[e])) => <>[](standing[e] # "none"))

\* A runtime whose every answer is in order ends up with no alert standing on it,
\* although writes fail and the process restarts between the answer and the recovery,
\* and whether or not it holds the config.
CleanRuntimeRecovered ==
    \A e \in Runtimes, S \in Settlements :
        CleanAnswers(S) => (<>[](answers = S) => <>[](standing[e] = "none"))

\* clearUnconfiguredAlert: once a runtime holds the config for good, no alert
\* from before stands on it, whatever its polls come back with.
ArmedRuntimeCleared ==
    \A e \in Runtimes \ Vaults : <>[](armed[e]) => <>[](standing[e] = "none")

-----------------------------------------------------------------------------
(* Claims of comments and documents that the code does not keep (README).  *)

\* alertOnReading: "Both are raised on the transition, not on every reading":
\* a runtime that already blamed the monitor raises no second alert.
BlameOnTransition == \A e \in Runtimes : blamed[e] => ~poll[e].prev.blaming

\* docs/platform-clock.md: a runtime without this monitor's key "is reported once,
\* as clock.runtime_config_missing": between polls, a recorded missing key has
\* been reported.
MissingKeyReported ==
    \A e \in Runtimes : At(e, "idle") /\ position[e].configMissing => reported[e]
=============================================================================
