---------------------------- MODULE ClockDecide ----------------------------
(***************************************************************************)
(* The rules of internal/clock/decide.go and the position they read:       *)
(* what a poll of an enclave runtime came back with, the reading it is     *)
(* recorded as, what the reading calls for, and the position on the        *)
(* enclave after it.  Pure operators, no state.                            *)
(*                                                                         *)
(* A reading keeps the fields the rules tell apart.  Reasons, evidence     *)
(* documents and error texts are left out, but for the one text the rules  *)
(* look into ("not enabled" in the body of a refusal).                     *)
(***************************************************************************)
EXTENDS Integers

CONSTANT FailedPollsCap   \* the model counts silent polls up to this many

\* decide.go: two silent polls in a row are enough to act on.
MaxFailedPolls == 2

\* wire.go: how far, in ms, a host clock may be from the monitor's.
Tolerance == 10000

ASSUME FailedPollsCapAssumption == FailedPollsCap \in Nat /\ FailedPollsCap >= MaxFailedPolls

Verdicts == {"in_sync", "monitor_clock_wrong", "host_clock_wrong", "ignored_stale", "none"}
Outcomes == {"ok", "unreachable", "unverified", "refused", "invalid"}

\* model.ClockReading.  ourKey: the answer names this monitor's key.
Readings == [outcome : Outcomes, status : Nat, notEnabled : BOOLEAN,
             verdict : Verdicts, flagged : BOOLEAN, trusted : BOOLEAN,
             ntsUnreachable : BOOLEAN, drift : Int, ourKey : BOOLEAN]

\* model.ClockEnclave: the monitor's recorded position on one enclave.
Rows == [failedPolls : 0..FailedPollsCap, lastFlagged : BOOLEAN, quarantined : BOOLEAN]

NoRow == [failedPolls |-> 0, lastFlagged |-> FALSE, quarantined |-> FALSE]

\* What the platform lists of an enclave's clock config.  current is the
\* version set now, version the one the runtime acknowledged (0: never),
\* known whether the list carries the current version at all.
ConfigType == [listed : BOOLEAN, known : BOOLEAN, version : Nat, current : Nat]

ClockArmed(c) == c.known /\ c.current > 0 /\ c.version >= c.current
ClockNeverConfigured(c) == c.known /\ c.version = 0

-----------------------------------------------------------------------------

(***************************************************************************)
(* What Poller.Poll may come back with.  failure "none" is an answer over  *)
(* a verified channel; "own_side" is the monitor's own failure, which is   *)
(* recorded nowhere.                                                       *)
(***************************************************************************)
Failures == {"none", "unreachable", "unverified", "own_side"}

PollResults == [failure : Failures, status : Nat, notEnabled : BOOLEAN,
                parsed : BOOLEAN, rightEnclave : BOOLEAN,
                verdict : Verdicts, flagged : BOOLEAN, trusted : BOOLEAN,
                ntsUnreachable : BOOLEAN, drift : Int, ourKey : BOOLEAN]

Blank == [outcome |-> "invalid", status |-> 0, notEnabled |-> FALSE, verdict |-> "none",
          flagged |-> FALSE, trusted |-> FALSE, ntsUnreachable |-> FALSE,
          drift |-> 0, ourKey |-> FALSE]

\* Poll: the reading a result is recorded as.
ReadingOf(res) ==
    CASE res.failure \in {"unreachable", "unverified"} ->
            [Blank EXCEPT !.outcome = res.failure]
      [] res.failure = "none" /\ res.status # 200 ->
            [Blank EXCEPT !.outcome = "refused", !.status = res.status,
                          !.notEnabled = res.notEnabled]
      [] res.failure = "none" /\ res.status = 200 /\ ~(res.parsed /\ res.rightEnclave) ->
            [Blank EXCEPT !.outcome = "invalid", !.status = 200]
      [] OTHER ->
            [outcome |-> "ok", status |-> 200, notEnabled |-> FALSE,
             verdict |-> res.verdict, flagged |-> res.flagged, trusted |-> res.trusted,
             ntsUnreachable |-> res.ntsUnreachable, drift |-> res.drift,
             ourKey |-> res.ourKey]

-----------------------------------------------------------------------------

Beyond(drift) == drift > Tolerance \/ -drift > Tolerance

\* The runtime does not hold this monitor's key.
configMissing(r) ==
    \/ r.outcome = "ok" /\ ~r.ourKey
    \/ r.outcome = "refused" /\ r.status \in {401, 409}

\* An answered reading that calls for a quarantine.
clockProblem(r) ==
    \/ r.verdict = "host_clock_wrong"
    \/ /\ r.verdict # "monitor_clock_wrong"
       /\ ~r.trusted \/ r.ntsUnreachable \/ r.flagged \/ Beyond(r.drift)

\* The runtime refused the floor because it cannot establish its time.
failedClosed(r) == r.outcome = "refused" /\ r.status = 503 /\ ~r.notEnabled

\* Mutant: the tolerance itself counts as drifted.
Mut_cleanReading(r) ==
    /\ r.outcome = "ok" /\ r.verdict = "in_sync"
    /\ ~r.flagged /\ r.trusted /\ -Tolerance < r.drift /\ r.drift < Tolerance

\* What a release, or a vault's recovery, needs.
cleanReading(r) ==
    /\ r.outcome = "ok" /\ r.verdict = "in_sync"
    /\ ~r.flagged /\ r.trusted /\ ~Beyond(r.drift)

\* Mutant: one silent poll is enough.
Mut_DecideEarly(prev, r, platformQuarantined) ==
    IF r.outcome = "unreachable" /\ ~prev.quarantined /\ ~platformQuarantined
    THEN "quarantine" ELSE "none"

\* Mutant: a clean reading lifts whatever the platform shows.
Mut_DecideReleasesAll(prev, r, platformQuarantined) ==
    IF cleanReading(r) /\ platformQuarantined THEN "release"
    ELSE IF r.outcome = "ok" /\ clockProblem(r) /\ ~platformQuarantined
    THEN "quarantine" ELSE "none"

\* Decide: prev is the position before the reading, with quarantined as of now;
\* platformQuarantined is what the platform last said.
Decide(prev, r, platformQuarantined) ==
    LET out == prev.quarantined \/ platformQuarantined
        silent == r.outcome = "unreachable" /\ prev.failedPolls + 1 >= MaxFailedPolls
    IN CASE r.outcome = "ok" /\ clockProblem(r) ->
                IF out THEN "none" ELSE "quarantine"
         [] r.outcome = "ok" /\ ~clockProblem(r) ->
                IF prev.quarantined /\ cleanReading(r) THEN "release" ELSE "none"
         [] r.outcome # "ok" ->
                IF /\ ~configMissing(r) /\ ~out
                   /\ failedClosed(r) \/ silent \/ prev.lastFlagged
                THEN "quarantine" ELSE "none"

\* One more silent poll, counted up to the cap.
OneMore(n) == IF n < FailedPollsCap THEN n + 1 ELSE n

\* Mutant: a quarantine of ours stays ours after someone else lifted it.
Mut_advance(prev, r, platformQuarantined) ==
    [failedPolls |-> IF r.outcome = "unreachable" THEN OneMore(prev.failedPolls) ELSE 0,
     lastFlagged |-> IF r.outcome = "ok" THEN r.flagged ELSE prev.lastFlagged,
     quarantined |-> prev.quarantined]

\* advance: the position after a reading.
advance(prev, r, platformQuarantined) ==
    [failedPolls |-> IF r.outcome = "unreachable" THEN OneMore(prev.failedPolls) ELSE 0,
     lastFlagged |-> IF r.outcome = "ok" THEN r.flagged ELSE prev.lastFlagged,
     quarantined |-> prev.quarantined /\ platformQuarantined]

-----------------------------------------------------------------------------
(* For the properties.                                                     *)

\* Answers that each call for a quarantine, and answers that are each in order: in
\* sync, trusted, and off by no more than the tolerance.
SickAnswers(S) == \A res \in S : LET r == ReadingOf(res)
                                 IN  (r.outcome = "ok" /\ clockProblem(r)) \/ failedClosed(r)
CleanAnswers(S) == \A res \in S : LET r == ReadingOf(res)
                                  IN  /\ r.outcome = "ok" /\ r.verdict = "in_sync" /\ r.trusted
                                      /\ ~r.flagged /\ r.drift \in (-Tolerance)..Tolerance

\* No answer at all.
SilentAnswers(S) == \A res \in S : ReadingOf(res).outcome = "unreachable"
=============================================================================
