-------------------------- MODULE ClockFleetProofs --------------------------
(***************************************************************************)
(* What ClockFleet guarantees for any number of enclaves and callers, any  *)
(* poll results, any clock configs, and whether or not an operator acts,   *)
(* control-plane answers are lost, writes fail or the process stops; and   *)
(* what ClockAlerts guarantees on any runtimes.                            *)
(***************************************************************************)
EXTENDS ClockFleet, AlertRecord, TLAPS

-----------------------------------------------------------------------------
(* The rules.                                                              *)

\* Poll records a reading of a known shape, whatever came back.
LEMMA ReadingOfType ==
    ASSUME NEW res \in PollResults, res.failure # "own_side"
    PROVE  ReadingOf(res) \in Readings
<1> USE DEF PollResults, Failures, Readings, Outcomes, Verdicts
<1>1. Blank \in Readings
  BY DEF Blank
<1>2. CASE res.failure \in {"unreachable", "unverified"}
  BY <1>1, <1>2 DEF ReadingOf
<1>3. CASE res.failure = "none" /\ res.status # 200
  BY <1>1, <1>3 DEF ReadingOf
<1>4. CASE res.failure = "none" /\ res.status = 200 /\ ~(res.parsed /\ res.rightEnclave)
  BY <1>1, <1>4 DEF ReadingOf
<1>5. CASE res.failure = "none" /\ res.status = 200 /\ res.parsed /\ res.rightEnclave
  BY <1>5 DEF ReadingOf
<1> QED
  BY <1>2, <1>3, <1>4, <1>5

\* The capped count of silent polls still reaches the limit Decide looks for.
LEMMA OneMoreType ==
    ASSUME NEW n \in 0..FailedPollsCap
    PROVE  /\ OneMore(n) \in 0..FailedPollsCap
           /\ n + 1 >= MaxFailedPolls => OneMore(n) >= MaxFailedPolls
BY FailedPollsCapAssumption DEF OneMore, MaxFailedPolls

\* advance returns a position.
LEMMA AdvanceType ==
    ASSUME NEW prev \in Rows, NEW r \in Readings, NEW q \in BOOLEAN
    PROVE  advance(prev, r, q) \in Rows
<1>1. prev.failedPolls \in 0..FailedPollsCap
  BY DEF Rows
<1>2. OneMore(prev.failedPolls) \in 0..FailedPollsCap /\ 0 \in 0..FailedPollsCap
  BY <1>1, OneMoreType, FailedPollsCapAssumption
<1> QED
  BY <1>2 DEF advance, Rows, Readings

\* A quarantine is decided on a clock problem, or on no answer with grounds.
LEMMA DecideQuarantine ==
    ASSUME NEW prev \in Rows, NEW r \in Readings, NEW q \in BOOLEAN,
           Decide(prev, r, q) = "quarantine"
    PROVE  \/ r.outcome = "ok" /\ clockProblem(r)
           \/ /\ r.outcome # "ok" /\ ~configMissing(r)
              /\ \/ failedClosed(r)
                 \/ r.outcome = "unreachable" /\ prev.failedPolls + 1 >= MaxFailedPolls
                 \/ prev.lastFlagged
BY DEF Decide

\* A release is decided only for a quarantine of ours, on a clean reading.
LEMMA DecideRelease ==
    ASSUME NEW prev \in Rows, NEW r \in Readings, NEW q \in BOOLEAN,
           Decide(prev, r, q) = "release"
    PROVE  prev.quarantined /\ cleanReading(r)
BY DEF Decide

\* A reading Decide quarantines on is never one it would release on, but for NTS
\* being unreachable, and does not blame the monitor.
LEMMA ProblemIsNotClean ==
    ASSUME NEW r \in Readings, clockProblem(r)
    PROVE  /\ ~cleanReading(r) \/ r.ntsUnreachable
           /\ r.verdict # "monitor_clock_wrong"
BY DEF clockProblem, cleanReading, Beyond, Readings, Verdicts

\* Decide returns an operation or none.
LEMMA DecideType ==
    ASSUME NEW prev, NEW r, NEW q
    PROVE  Decide(prev, r, q) \in Ops
BY DEF Decide, Ops

\* Called returns an operation or none.
LEMMA CalledType ==
    ASSUME NEW e, NEW prev, NEW next, NEW r, NEW cfg, NEW q
    PROVE  Called(e, prev, next, r, cfg, q) \in Ops
BY DecideType DEF Called, Ops

-----------------------------------------------------------------------------
(* Types.                                                                  *)

\* A call of Poll that is not under way has well-typed locals.
LEMMA IdleType == Idle \in PollStates
<1>1. Blank \in Readings
  BY DEF Blank, Readings, Outcomes, Verdicts
<1>2. NoRow \in Rows
  BY FailedPollsCapAssumption DEF NoRow, Rows
<1>3. ConfigOf(NotListed) \in ConfigType
  BY DEF ConfigOf, NotListed, ConfigType
<1> QED
  BY <1>1, <1>2, <1>3 DEF Idle, PollStates, Ops

\* The list of a process that just started.
LEMMA EmptyListType == EmptyList \in [Enclaves -> Listing]
BY DEF EmptyList, NotListed, Listing

\* A call that returns keeps the types.
LEMMA ReturnType ==
    ASSUME TypeOK, NEW e \in Enclaves, NEW c \in Callers, Return(e, c)
    PROVE  /\ poll' \in [Enclaves -> [Callers -> PollStates]]
           /\ locks' \in [Enclaves -> Callers \cup {Free}]
BY IdleType DEF Return, TypeOK, Becomes

\* A call of Poll changes its own locals only.
LEMMA OneCallType ==
    ASSUME TypeOK, NEW e \in Enclaves, NEW c \in Callers, NEW p \in PollStates,
           Becomes(e, c, p)
    PROVE  poll' \in [Enclaves -> [Callers -> PollStates]]
BY DEF TypeOK, Becomes

\* The initial state is well typed.
LEMMA TypeInit == Init => TypeOK
<1> SUFFICES ASSUME Init PROVE TypeOK
  OBVIOUS
<1>1. poll \in [Enclaves -> [Callers -> PollStates]]
  BY IdleType DEF Init
<1>2. row \in [Enclaves -> Rows] /\ 0 \in 0..FailedPollsCap
  BY FailedPollsCapAssumption DEF Init, NoRow, Rows
<1>3. enclaves \in [Enclaves -> Listing]
      /\ listing \in [at : {"none", "asked", "answered"}, answer : [Enclaves -> Listing]]
  BY EmptyListType DEF Init, NoFetch
<1> QED
  BY FleetAssumption, <1>1, <1>2, <1>3 DEF Init, TypeOK, Holders, Ops

\* Fetching the list keeps the types.
LEMMA TypeList ==
    ASSUME TypeOK, ListStep PROVE TypeOK'
<1> USE DEF TypeOK, platformVars, recordVars, listVars
<1>1. CASE BeginList
  BY <1>1, EmptyListType DEF BeginList, NoFetch
<1>2. CASE PlatformListed
  <2>1. \A e \in Enclaves : ListedNow(e) \in Listing /\ NotListed \in Listing
    BY FleetAssumption DEF ListedNow, Listing, ConfigType, NotListed
  <2> QED
    BY <1>2, <2>1 DEF PlatformListed
<1>3. CASE ListLands
  BY <1>3, EmptyListType DEF ListLands, NoFetch
<1>4. CASE ListFails
  BY <1>4, EmptyListType DEF ListFails, NoFetch
<1> QED
  BY <1>1, <1>2, <1>3, <1>4 DEF ListStep

\* Every step of Poll and act keeps the types.
LEMMA TypePoll ==
    ASSUME TypeOK, NEW e \in Enclaves, NEW c \in Callers, PollStep(e, c)
    PROVE  TypeOK'
<1> USE DEF platformVars, recordVars, listVars
<1>0. poll[e][c] \in PollStates
  BY DEF TypeOK
<1>1. CASE PollCalled(e, c)
  <2>1. ConfigOf(enclaves[e]) \in ConfigType
    BY DEF TypeOK, ConfigOf, ConfigType, Listing
  <2>2. [Idle EXCEPT !.at = "waiting", !.cfg = ConfigOf(enclaves[e])] \in PollStates
    BY <2>1, IdleType DEF PollStates
  <2> QED
    BY <1>1, <2>2, OneCallType DEF PollCalled, TypeOK
<1>2. CASE PollSends(e, c)
  <2>1. [poll[e][c] EXCEPT !.at = "sent", !.st = row[e]] \in PollStates
    BY <1>0 DEF TypeOK, PollStates, Inside
  <2> QED
    BY <1>2, <2>1, OneCallType DEF PollSends, TypeOK
<1>3. CASE PollGivesUp(e, c)
  BY <1>3, ReturnType DEF PollGivesUp, TypeOK
<1>4. CASE PollReturns(e, c)
  <2>1. PICK res \in answers :
           /\ res.failure # "own_side"
           /\ Becomes(e, c, [poll[e][c] EXCEPT !.at = "answered", !.reading = ReadingOf(res)])
    BY <1>4 DEF PollReturns
  <2>2. ReadingOf(res) \in Readings
    BY <2>1, ReadingOfType DEF TypeOK
  <2>3. [poll[e][c] EXCEPT !.at = "answered", !.reading = ReadingOf(res)] \in PollStates
    BY <1>0, <2>2 DEF PollStates, Inside
  <2> QED
    BY <1>4, <2>1, <2>3, OneCallType DEF PollReturns, TypeOK
<1>5. CASE PollLooks(e, c)
  <2> DEFINE k == IF enclaves[e].listed THEN ConfigOf(enclaves[e]) ELSE poll[e][c].cfg
             q == enclaves[e].listed /\ enclaves[e].quarantined
             p == [poll[e][c] EXCEPT !.at = "looked", !.platQ = q, !.cfg = k]
  <2>1. k \in ConfigType /\ q \in BOOLEAN
    BY <1>0 DEF TypeOK, ConfigOf, ConfigType, Listing, PollStates
  <2>2. p \in PollStates
    BY <1>0, <2>1 DEF PollStates, Inside
  <2>3. Becomes(e, c, p)
    BY <1>5 DEF PollLooks
  <2>4. UNCHANGED <<placed, config, enclaves, listing, locks, row, lastOp, trail, answers>>
    BY <1>5 DEF PollLooks
  <2> QED
    BY <2>2, <2>3, <2>4, OneCallType DEF TypeOK
<1>6. CASE PollRecords(e, c)
  <2> DEFINE p == poll[e][c]
             next == advance(p.st, p.reading, p.platQ)
             op == Called(e, p.st, next, p.reading, p.cfg, p.platQ)
             n == [p EXCEPT !.at = "asking", !.st = next, !.op = op]
  <2>1. next \in Rows /\ op \in Ops
    BY <1>0, AdvanceType, CalledType DEF PollStates
  <2>2. row' \in [Enclaves -> Rows]
    BY <1>6, <2>1 DEF PollRecords, TypeOK
  <2>3. trail' \in [Enclaves -> [silent : 0..FailedPollsCap, flagged : BOOLEAN]]
    <3>1. OneMore(trail[e].silent) \in 0..FailedPollsCap /\ 0 \in 0..FailedPollsCap
      BY OneMoreType, FailedPollsCapAssumption DEF TypeOK
    <3>2. p.reading \in Readings
      BY <1>0 DEF PollStates
    <3> QED
      BY <1>6, <3>1, <3>2 DEF PollRecords, TypeOK, Readings
  <2>4. /\ poll' \in [Enclaves -> [Callers -> PollStates]]
        /\ locks' \in [Enclaves -> Callers \cup {Free}]
    <3>1. CASE Return(e, c)
      BY <3>1, ReturnType
    <3>2. CASE Becomes(e, c, n) /\ locks' = locks
      <4>1. n \in PollStates
        BY <1>0, <2>1 DEF PollStates, Inside
      <4> QED
        BY <3>2, <4>1, OneCallType DEF TypeOK
    <3> QED
      BY <1>6, <3>1, <3>2 DEF PollRecords
  <2>5. UNCHANGED <<placed, config, enclaves, listing, lastOp, answers>>
    BY <1>6 DEF PollRecords
  <2> QED
    BY <2>2, <2>3, <2>4, <2>5 DEF TypeOK
<1>7. CASE PollRecordFails(e, c)
  BY <1>7, ReturnType DEF PollRecordFails, TypeOK
<1>8. CASE PlatformActs(e, c)
  <2>1. PICK at \in {"applied", "refused"} : Becomes(e, c, [poll[e][c] EXCEPT !.at = at])
    BY <1>8 DEF PlatformActs
  <2>2. [poll[e][c] EXCEPT !.at = at] \in PollStates
    BY <1>0 DEF PollStates, Inside
  <2>3. placed' \in [Enclaves -> Holders]
    BY <1>8 DEF PlatformActs, TypeOK, Holders
  <2> QED
    BY <1>8, <2>1, <2>2, <2>3, OneCallType DEF PlatformActs, TypeOK
<1>9. CASE PlatformRefuses(e, c)
  <2>1. [poll[e][c] EXCEPT !.at = "refused"] \in PollStates
    BY <1>0 DEF PollStates, Inside
  <2> QED
    BY <1>9, <2>1, OneCallType DEF PlatformRefuses, TypeOK
<1>10. CASE ActNotes(e, c)
  <2> DEFINE q == (poll[e][c].op = "quarantine")
             l == [enclaves[e] EXCEPT !.quarantined = q]
             st == [poll[e][c].st EXCEPT !.quarantined = q]
             p == [poll[e][c] EXCEPT !.at = "noted", !.st = st]
  <2>1. st \in Rows /\ l \in Listing
    <3>1. q \in BOOLEAN
      OBVIOUS
    <3>2. poll[e][c].st \in Rows /\ enclaves[e] \in Listing
      BY <1>0 DEF PollStates, TypeOK
    <3> HIDE DEF q
    <3> QED
      BY <3>1, <3>2 DEF Rows, Listing
  <2>2. p \in PollStates
    BY <1>0, <2>1 DEF PollStates, Inside
  <2>3. Becomes(e, c, p)
    BY <1>10 DEF ActNotes
  <2>4. enclaves' = IF enclaves[e].listed THEN [enclaves EXCEPT ![e] = l] ELSE enclaves
    BY <1>10 DEF ActNotes
  <2>5. UNCHANGED <<placed, config, listing, locks, row, lastOp, trail, answers>>
    BY <1>10 DEF ActNotes
  <2> HIDE DEF l, p
  <2> QED
    BY <2>1, <2>2, <2>3, <2>4, <2>5, OneCallType DEF TypeOK
<1>11. CASE ActRecords(e, c)
  <2>1. row' \in [Enclaves -> Rows] /\ lastOp' \in [Enclaves -> Ops]
    BY <1>0, <1>11 DEF ActRecords, TypeOK, PollStates
  <2> QED
    BY <1>11, <2>1, ReturnType DEF ActRecords, TypeOK
<1>12. CASE ActRecordFails(e, c)
  BY <1>12, ReturnType DEF ActRecordFails, TypeOK
<1> QED
  BY <1>1, <1>2, <1>3, <1>4, <1>5, <1>6, <1>7, <1>8, <1>9, <1>10, <1>11, <1>12 DEF PollStep

\* Operators, config changes and restarts keep the types.
LEMMA TypeOther ==
    ASSUME TypeOK, Outside \/ Restart \/ Settle
    PROVE  TypeOK'
<1> USE DEF platformVars, recordVars, listVars
<1>1. CASE Outside
  <2>0. PICK e \in Enclaves : OperatorQuarantines(e) \/ OperatorLifts(e) \/ ConfigChanges(e)
    BY <1>1 DEF Outside
  <2>1. placed' \in [Enclaves -> Holders] /\ config' \in [Enclaves -> Configs]
    <3>1. CASE OperatorQuarantines(e) \/ OperatorLifts(e)
      BY <3>1 DEF OperatorQuarantines, OperatorLifts, TypeOK, Holders
    <3>2. CASE ConfigChanges(e)
      BY <3>2 DEF ConfigChanges, TypeOK
    <3> QED
      BY <2>0, <3>1, <3>2
  <2>2. UNCHANGED <<enclaves, listing, locks, poll, row, lastOp, trail, answers>>
    BY <1>1 DEF Outside, OperatorQuarantines, OperatorLifts, ConfigChanges
  <2> QED
    BY <2>1, <2>2 DEF TypeOK
<1>2. CASE Restart
  BY <1>2, IdleType, EmptyListType DEF Restart, TypeOK, NoFetch
<1>3. CASE Settle
  BY <1>3, FleetAssumption DEF Settle, TypeOK
<1> QED
  BY <1>1, <1>2, <1>3

\* Every variable keeps its type, whatever the poll results and configs are.
THEOREM TypeCorrect == Spec => []TypeOK
<1>1. TypeOK /\ [Next]_vars => TypeOK'
  <2> SUFFICES ASSUME TypeOK, [Next]_vars PROVE TypeOK'
    OBVIOUS
  <2>1. CASE UNCHANGED vars
    BY <2>1 DEF vars, TypeOK
  <2> QED
    BY <2>1, TypeList, TypePoll, TypeOther DEF Next
<1> QED
  BY <1>1, TypeInit, PTL DEF Spec

-----------------------------------------------------------------------------
(***************************************************************************)
(* Safety.  Whoever is inside a poll holds the mutex, so the position it   *)
(* read is still the recorded one when it writes (Held), the position      *)
(* agrees with the readings of the record (PositionMatchesRecord), and the *)
(* record shows a quarantine as ours only after one of ours (Owned).       *)
(***************************************************************************)

\* The call inside a poll of e is the mutex holder.
Locked == \A e \in Enclaves, c \in Callers : poll[e][c].at \in Inside => locks[e] = c

\* What a call inside a poll knows of the recorded position is current.
Held ==
    \A e \in Enclaves, c \in Callers :
        LET p == poll[e][c]
        IN /\ p.at \in Inside \ {"noted"} => p.st = row[e]
           /\ p.at = "noted" =>
                /\ p.st.failedPolls = row[e].failedPolls
                /\ p.st.lastFlagged = row[e].lastFlagged
                /\ p.st.quarantined = (p.op = "quarantine")

\* A recorded quarantine of ours is the last action recorded.
Owned == \A e \in Enclaves : row[e].quarantined => lastOp[e] = "quarantine"

IInv == /\ TypeOK /\ Locked /\ Held /\ Owned
        /\ PositionMatchesRecord /\ QuarantineJustified /\ ReleaseOnlyOurs

\* The part of IInv about one enclave.
Good(e) ==
    /\ \A c \in Callers : poll[e][c].at \in Inside => locks[e] = c
    /\ \A c \in Callers : poll[e][c].at \in Inside \ {"noted"} => poll[e][c].st = row[e]
    /\ \A c \in Callers : poll[e][c].at = "noted" =>
          /\ poll[e][c].st.failedPolls = row[e].failedPolls
          /\ poll[e][c].st.lastFlagged = row[e].lastFlagged
          /\ poll[e][c].st.quarantined = (poll[e][c].op = "quarantine")
    /\ row[e].quarantined => lastOp[e] = "quarantine"
    /\ row[e].failedPolls = trail[e].silent /\ row[e].lastFlagged = trail[e].flagged
    /\ \A c \in Callers : poll[e][c].at = "asking" /\ poll[e][c].op = "quarantine" =>
          e \notin Vaults /\ ClockArmed(poll[e][c].cfg) /\ Grounds(e, poll[e][c].reading)
    /\ \A c \in Callers : poll[e][c].at = "asking" /\ poll[e][c].op = "release" =>
          /\ e \notin Vaults /\ lastOp[e] = "quarantine"
          /\ cleanReading(poll[e][c].reading) \/ ClockNeverConfigured(poll[e][c].cfg)

\* The invariant is the conjunction of its parts, one per enclave.
LEMMA GoodIsIInv == TypeOK => (IInv <=> \A e \in Enclaves : Good(e))
BY DEF IInv, Good, Locked, Held, Owned, PositionMatchesRecord, QuarantineJustified,
       ReleaseOnlyOurs

\* An enclave that a step leaves alone stays good.
LEMMA Frame ==
    ASSUME NEW f \in Enclaves, Good(f), poll'[f] = poll[f], row'[f] = row[f],
           trail'[f] = trail[f], lastOp'[f] = lastOp[f], locks'[f] = locks[f]
    PROVE  Good(f)'
BY DEF Good, Grounds

\* A step of a call of Poll leaves the other calls' locals alone.
LEMMA OneCall ==
    ASSUME TypeOK, NEW e \in Enclaves, NEW c \in Callers, NEW p, Becomes(e, c, p)
    PROVE  /\ poll'[e][c] = p
           /\ \A d \in Callers \ {c} : poll'[e][d] = poll[e][d]
           /\ \A f \in Enclaves \ {e} : poll'[f] = poll[f]
BY DEF TypeOK, Becomes

\* Only the mutex holder is inside.
LEMMA Alone ==
    ASSUME NEW e \in Enclaves, Good(e), NEW c \in Callers,
           poll[e][c].at \in Inside \/ locks[e] = Free
    PROVE  \A d \in Callers \ {c} : poll[e][d].at \notin Inside
BY FleetAssumption DEF Good

\* A call that returns leaves its enclave good, if the record is in order.
LEMMA GoodReturn ==
    ASSUME TypeOK, NEW e \in Enclaves, NEW c \in Callers, Return(e, c),
           \A d \in Callers \ {c} : poll[e][d].at \notin Inside,
           row'[e].quarantined => lastOp'[e] = "quarantine",
           row'[e].failedPolls = trail'[e].silent, row'[e].lastFlagged = trail'[e].flagged
    PROVE  Good(e)'
<1>1. \A d \in Callers : poll'[e][d].at \notin Inside
  <2>1. Idle.at \notin Inside
    BY DEF Idle, Inside
  <2> QED
    BY <2>1, OneCall DEF Return
<1>2. \A d \in Callers : poll'[e][d].at # "noted" /\ poll'[e][d].at # "asking"
  BY <1>1 DEF Inside
<1> QED
  BY <1>1, <1>2 DEF Good

\* A call that moves on, with the record and the mutex as they were.
LEMMA GoodMove ==
    ASSUME TypeOK, NEW e \in Enclaves, Good(e), NEW c \in Callers, NEW p,
           Becomes(e, c, p), UNCHANGED <<row, trail, lastOp, locks>>,
           p.at \in Inside => poll[e][c].at \in Inside,
           p.at \in Inside \ {"noted"} => p.st = row[e],
           p.at # "noted", p.at # "asking"
    PROVE  Good(e)'
<1>1. poll'[e][c] = p /\ \A d \in Callers \ {c} : poll'[e][d] = poll[e][d]
  BY OneCall
<1> QED
  BY <1>1 DEF Good, Grounds

\* A call of Poll keeps its enclave good.
LEMMA GoodPoll ==
    ASSUME TypeOK, NEW e \in Enclaves, NEW c \in Callers, Good(e), PollStep(e, c)
    PROVE  Good(e)'
<1> USE DEF platformVars, recordVars, listVars
<1>0. /\ poll[e][c] \in PollStates /\ Idle \in PollStates
      /\ row[e].quarantined => lastOp[e] = "quarantine"
      /\ row[e].failedPolls = trail[e].silent /\ row[e].lastFlagged = trail[e].flagged
  BY IdleType DEF TypeOK, Good
<1>1. CASE PollCalled(e, c)
  <2> DEFINE p == [Idle EXCEPT !.at = "waiting", !.cfg = ConfigOf(enclaves[e])]
  <2>1. p.at = "waiting" /\ "waiting" \notin Inside
    BY <1>0 DEF PollStates, Inside
  <2>2. Becomes(e, c, p) /\ UNCHANGED <<row, trail, lastOp, locks>>
    BY <1>1 DEF PollCalled
  <2> HIDE DEF p
  <2> QED
    BY <2>1, <2>2, GoodMove
<1>2. CASE PollSends(e, c)
  <2> DEFINE p == [poll[e][c] EXCEPT !.at = "sent", !.st = row[e]]
  <2>1. p.at = "sent" /\ p.st = row[e] /\ "sent" \in Inside
    BY <1>0 DEF PollStates, Inside
  <2>2. /\ Becomes(e, c, p) /\ locks[e] = Free /\ locks' = [locks EXCEPT ![e] = c]
        /\ UNCHANGED <<row, trail, lastOp>>
    BY <1>2 DEF PollSends
  <2> HIDE DEF p
  <2>3. \A d \in Callers \ {c} : poll'[e][d] = poll[e][d] /\ poll[e][d].at \notin Inside
    BY <2>2, OneCall, Alone
  <2>4. poll'[e][c] = p /\ locks'[e] = c
    BY <2>2, OneCall DEF TypeOK
  <2>5. \A d \in Callers \ {c} : poll'[e][d].at # "noted" /\ poll'[e][d].at # "asking"
    BY <2>3 DEF Inside
  <2> QED
    BY <1>0, <2>1, <2>2, <2>3, <2>4, <2>5 DEF Good
<1>3. CASE PollGivesUp(e, c)
  <2>1. /\ poll[e][c].at \in Inside \/ locks[e] = Free
        /\ Return(e, c) /\ UNCHANGED <<row, trail, lastOp>>
    BY <1>3 DEF PollGivesUp, At, Inside
  <2> QED
    BY <1>0, <2>1, Alone, GoodReturn
<1>4. CASE PollReturns(e, c)
  <2>1. PICK res : Becomes(e, c, [poll[e][c] EXCEPT !.at = "answered",
                                                    !.reading = ReadingOf(res)])
    BY <1>4 DEF PollReturns
  <2> DEFINE p == [poll[e][c] EXCEPT !.at = "answered", !.reading = ReadingOf(res)]
  <2>2. /\ p.at = "answered" /\ p.st = poll[e][c].st
        /\ poll[e][c].at \in Inside /\ poll[e][c].st = row[e]
    BY <1>0, <1>4 DEF PollReturns, At, PollStates, Good, Inside
  <2>3. Becomes(e, c, p) /\ UNCHANGED <<row, trail, lastOp, locks>>
    BY <1>4, <2>1 DEF PollReturns
  <2> HIDE DEF p
  <2> QED
    BY <2>2, <2>3, GoodMove
<1>5. CASE PollLooks(e, c)
  <2> DEFINE q == enclaves[e].listed /\ enclaves[e].quarantined
             k == IF enclaves[e].listed THEN ConfigOf(enclaves[e]) ELSE poll[e][c].cfg
             p == [poll[e][c] EXCEPT !.at = "looked", !.platQ = q, !.cfg = k]
  <2>1. Becomes(e, c, p) /\ UNCHANGED <<row, trail, lastOp, locks>>
    BY <1>5 DEF PollLooks
  <2> HIDE DEF q, k
  <2>2. /\ p.at = "looked" /\ p.st = poll[e][c].st
        /\ poll[e][c].at \in Inside /\ poll[e][c].st = row[e]
    BY <1>0, <1>5 DEF PollLooks, At, PollStates, Good, Inside
  <2> HIDE DEF p
  <2> QED
    BY <2>1, <2>2, GoodMove
<1>6. CASE PollRecords(e, c)
  <2> DEFINE p == poll[e][c]
             r == p.reading
             next == advance(p.st, r, p.platQ)
             prev == [p.st EXCEPT !.quarantined = next.quarantined]
             op == Called(e, p.st, next, r, p.cfg, p.platQ)
             n == [p EXCEPT !.at = "asking", !.st = next, !.op = op]
             grounds ==
                \/ /\ r.outcome = "ok" /\ r.verdict # "monitor_clock_wrong"
                   /\ ~cleanReading(r) \/ r.ntsUnreachable
                \/ /\ r.outcome # "ok" /\ ~configMissing(r)
                   /\ failedClosed(r) \/ trail'[e].silent >= MaxFailedPolls \/ trail'[e].flagged
  <2>1. /\ p.at \in Inside /\ p.st = row[e] /\ r \in Readings /\ p.platQ \in BOOLEAN
        /\ row[e] \in Rows /\ trail[e] \in [silent : 0..FailedPollsCap, flagged : BOOLEAN]
    BY <1>0, <1>6 DEF PollRecords, At, PollStates, Good, Inside, TypeOK
  <2>2. /\ row'[e] = next /\ lastOp' = lastOp
        /\ trail'[e] = [silent |-> IF r.outcome = "unreachable"
                                   THEN OneMore(trail[e].silent) ELSE 0,
                        flagged |-> IF r.outcome = "ok" THEN r.flagged ELSE trail[e].flagged]
    BY <1>6 DEF PollRecords, TypeOK
  <2>3. row'[e].failedPolls = trail'[e].silent /\ row'[e].lastFlagged = trail'[e].flagged
    BY <1>0, <2>1, <2>2 DEF advance
  <2>4. next.quarantined => row[e].quarantined /\ p.platQ
    BY <2>1 DEF advance
  <2>5. row'[e].quarantined => lastOp'[e] = "quarantine"
    BY <1>0, <2>2, <2>4
  <2>6. \A d \in Callers \ {c} : poll[e][d].at \notin Inside
    BY <2>1, Alone
  <2>7. CASE Return(e, c)
    BY <2>3, <2>5, <2>6, <2>7, GoodReturn
  <2>8. CASE Becomes(e, c, n) /\ locks' = locks
    <3>1. n.at = "asking" /\ n.st = next /\ n.op = op /\ n.cfg = p.cfg /\ n.reading = r
      BY <1>0 DEF PollStates
    <3>2. poll'[e][c] = n /\ \A d \in Callers \ {c} : poll'[e][d] = poll[e][d]
      BY <2>8, OneCall
    <3>3. locks'[e] = c
      BY <2>1, <2>8 DEF Good
    <3>4. prev \in Rows /\ prev.failedPolls = row[e].failedPolls
          /\ prev.lastFlagged = row[e].lastFlagged /\ prev.quarantined = next.quarantined
      <4>1. next \in Rows
        BY <2>1, AdvanceType
      <4> HIDE DEF next
      <4> QED
        BY <2>1, <4>1 DEF Rows
    <3>5. ASSUME op = "quarantine"
          PROVE  e \notin Vaults /\ ClockArmed(p.cfg) /\ grounds
      <4>1. e \notin Vaults /\ ClockArmed(p.cfg) /\ Decide(prev, r, p.platQ) = "quarantine"
        BY <3>5 DEF Called
      <4>2. \/ r.outcome = "ok" /\ clockProblem(r)
            \/ /\ r.outcome # "ok" /\ ~configMissing(r)
               /\ \/ failedClosed(r)
                  \/ r.outcome = "unreachable" /\ row[e].failedPolls + 1 >= MaxFailedPolls
                  \/ row[e].lastFlagged
        BY <2>1, <3>4, <4>1, DecideQuarantine
      <4>3. CASE r.outcome = "ok" /\ clockProblem(r)
        BY <2>1, <4>1, <4>3, ProblemIsNotClean
      <4>4. CASE /\ r.outcome = "unreachable" /\ row[e].failedPolls + 1 >= MaxFailedPolls
                 /\ ~configMissing(r)
        <5>1. trail'[e].silent >= MaxFailedPolls
          BY <1>0, <2>1, <2>2, <4>4, OneMoreType
        <5> QED
          BY <4>1, <4>4, <5>1
      <4>5. CASE r.outcome # "ok" /\ row[e].lastFlagged /\ ~configMissing(r)
        <5>1. trail'[e].flagged
          BY <1>0, <2>2, <4>5
        <5> QED
          BY <4>1, <4>5, <5>1
      <4>6. CASE r.outcome # "ok" /\ failedClosed(r) /\ ~configMissing(r)
        BY <4>1, <4>6
      <4> QED
        BY <4>2, <4>3, <4>4, <4>5, <4>6
    <3>6. ASSUME op = "release"
          PROVE  /\ e \notin Vaults /\ lastOp[e] = "quarantine"
                 /\ cleanReading(r) \/ ClockNeverConfigured(p.cfg)
      <4>1. e \notin Vaults
        BY <3>6 DEF Called
      <4>2. CASE ~ClockArmed(p.cfg)
        BY <1>0, <2>4, <3>6, <4>1, <4>2 DEF Called
      <4>3. CASE ClockArmed(p.cfg)
        <5>1. Decide(prev, r, p.platQ) = "release"
          BY <3>6, <4>1, <4>3 DEF Called
        <5> QED
          BY <1>0, <2>1, <2>4, <3>4, <4>1, <5>1, DecideRelease
      <4> QED
        BY <4>2, <4>3
    <3>7. \A d \in Callers \ {c} : poll'[e][d].at \notin Inside
                                   /\ poll'[e][d].at # "noted" /\ poll'[e][d].at # "asking"
      BY <2>6, <3>2 DEF Inside
    <3> HIDE DEF n, op, next
    <3>8. /\ poll'[e][c].at = "asking" /\ poll'[e][c].st = row'[e] /\ poll'[e][c].op = op
          /\ poll'[e][c].cfg = p.cfg /\ poll'[e][c].reading = r
      BY <2>2, <3>1, <3>2
    <3> HIDE DEF p, r, grounds
    <3>9. /\ \A d \in Callers : poll'[e][d].at \in Inside => locks'[e] = d
          /\ \A d \in Callers : poll'[e][d].at \in Inside \ {"noted"} => poll'[e][d].st = row'[e]
          /\ \A d \in Callers : poll'[e][d].at # "noted"
      BY <3>3, <3>7, <3>8
    <3>10. ASSUME NEW d \in Callers, poll'[e][d].at = "asking", poll'[e][d].op = "quarantine"
           PROVE  e \notin Vaults /\ ClockArmed(poll'[e][d].cfg) /\ Grounds(e, poll[e][d].reading)'
      <4>1. d = c
        BY <3>7, <3>10
      <4>2. e \notin Vaults /\ ClockArmed(p.cfg) /\ grounds
        BY <3>5, <3>8, <3>10, <4>1
      <4> QED
        BY <3>8, <4>1, <4>2 DEF Grounds, grounds
    <3>11. ASSUME NEW d \in Callers, poll'[e][d].at = "asking", poll'[e][d].op = "release"
           PROVE  /\ e \notin Vaults /\ lastOp'[e] = "quarantine"
                  /\ cleanReading(poll'[e][d].reading) \/ ClockNeverConfigured(poll'[e][d].cfg)
      <4>1. d = c
        BY <3>7, <3>11
      <4> QED
        BY <2>2, <3>6, <3>8, <3>11, <4>1
    <3> QED
      BY <2>3, <2>5, <3>9, <3>10, <3>11 DEF Good
  <2> QED
    BY <1>6, <2>7, <2>8 DEF PollRecords
<1>7. CASE PollRecordFails(e, c)
  <2>1. poll[e][c].at \in Inside /\ Return(e, c) /\ UNCHANGED <<row, trail, lastOp>>
    BY <1>7 DEF PollRecordFails, At, Inside
  <2> QED
    BY <1>0, <2>1, Alone, GoodReturn
<1>8. CASE PlatformActs(e, c)
  <2>1. PICK at \in {"applied", "refused"} : Becomes(e, c, [poll[e][c] EXCEPT !.at = at])
    BY <1>8 DEF PlatformActs
  <2> DEFINE p == [poll[e][c] EXCEPT !.at = at]
  <2>2. /\ p.at = at /\ p.st = poll[e][c].st
        /\ poll[e][c].at \in Inside /\ poll[e][c].st = row[e]
    BY <1>0, <1>8 DEF PlatformActs, At, PollStates, Good, Inside
  <2>3. Becomes(e, c, p) /\ UNCHANGED <<row, trail, lastOp, locks>>
    BY <1>8, <2>1 DEF PlatformActs
  <2> HIDE DEF p
  <2> QED
    BY <2>2, <2>3, GoodMove
<1>9. CASE PlatformRefuses(e, c)
  <2> DEFINE p == [poll[e][c] EXCEPT !.at = "refused"]
  <2>2. /\ p.at = "refused" /\ p.st = poll[e][c].st
        /\ poll[e][c].at \in Inside /\ poll[e][c].st = row[e]
    BY <1>0, <1>9 DEF PlatformRefuses, At, PollStates, Good, Inside
  <2>3. Becomes(e, c, p) /\ UNCHANGED <<row, trail, lastOp, locks>>
    BY <1>9 DEF PlatformRefuses
  <2> HIDE DEF p
  <2> QED
    BY <2>2, <2>3, GoodMove
<1>10. CASE ActNotes(e, c)
  <2> DEFINE q == (poll[e][c].op = "quarantine")
             st == [poll[e][c].st EXCEPT !.quarantined = q]
             p == [poll[e][c] EXCEPT !.at = "noted", !.st = st]
  <2>1. /\ poll[e][c].at \in Inside \ {"noted"} /\ poll[e][c].st = row[e]
        /\ row[e] \in Rows
    BY <1>10 DEF ActNotes, At, Inside, Good, TypeOK
  <2>2. Becomes(e, c, p) /\ UNCHANGED <<row, trail, lastOp, locks>>
    BY <1>10 DEF ActNotes
  <2>3. q \in BOOLEAN /\ q = (poll[e][c].op = "quarantine")
    OBVIOUS
  <2> HIDE DEF q
  <2>4. /\ st.failedPolls = row[e].failedPolls /\ st.lastFlagged = row[e].lastFlagged
        /\ st.quarantined = q
    BY <2>1, <2>3 DEF Rows
  <2> HIDE DEF st
  <2>5. p.at = "noted" /\ p.st = st /\ p.op = poll[e][c].op
    BY <1>0 DEF PollStates
  <2> HIDE DEF p
  <2>6. poll'[e][c] = p /\ \A d \in Callers \ {c} : poll'[e][d] = poll[e][d]
    BY <2>2, OneCall
  <2>7. \A d \in Callers \ {c} : poll'[e][d].at \notin Inside
                                 /\ poll'[e][d].at # "noted" /\ poll'[e][d].at # "asking"
    BY <2>1, <2>6, Alone DEF Inside
  <2>8. locks'[e] = c
    BY <2>1, <2>2 DEF Good
  <2> QED
    BY <1>0, <2>2, <2>3, <2>4, <2>5, <2>6, <2>7, <2>8 DEF Good
<1>11. CASE ActRecords(e, c)
  <2>1. /\ poll[e][c].at \in {"noted", "refused"} /\ poll[e][c].at \in Inside
        /\ Return(e, c) /\ trail' = trail /\ row'[e] = poll[e][c].st
        /\ lastOp'[e] = IF poll[e][c].at = "noted" THEN poll[e][c].op ELSE lastOp[e]
    BY <1>11 DEF ActRecords, At, Inside, TypeOK
  <2>2. /\ row'[e].quarantined => lastOp'[e] = "quarantine"
        /\ row'[e].failedPolls = trail'[e].silent /\ row'[e].lastFlagged = trail'[e].flagged
    BY <1>0, <2>1 DEF Good
  <2> QED
    BY <2>1, <2>2, Alone, GoodReturn
<1>12. CASE ActRecordFails(e, c)
  <2>1. poll[e][c].at \in Inside /\ Return(e, c) /\ UNCHANGED <<row, trail, lastOp>>
    BY <1>12 DEF ActRecordFails, At, Inside
  <2> QED
    BY <1>0, <2>1, Alone, GoodReturn
<1> QED
  BY <1>1, <1>2, <1>3, <1>4, <1>5, <1>6, <1>7, <1>8, <1>9, <1>10, <1>11, <1>12 DEF PollStep

\* Good holds at the start.
LEMMA GoodInit == Init => IInv
<1> SUFFICES ASSUME Init PROVE IInv
  OBVIOUS
<1>1. TypeOK
  BY TypeInit
<1>2. \A e \in Enclaves : Good(e)
  <2> TAKE e \in Enclaves
  <2>1. \A c \in Callers : poll[e][c].at = "idle"
    BY DEF Init, Idle
  <2>2. "idle" \notin Inside
    BY DEF Inside
  <2>3. /\ ~row[e].quarantined
        /\ row[e].failedPolls = trail[e].silent /\ row[e].lastFlagged = trail[e].flagged
    BY DEF Init, NoRow
  <2> QED
    BY <2>1, <2>2, <2>3 DEF Good
<1> QED
  BY <1>1, <1>2, GoodIsIInv

\* Every step of the monitor, the control plane and the world keeps IInv.
LEMMA GoodStep == IInv /\ [Next]_vars => IInv'
<1> SUFFICES ASSUME IInv, [Next]_vars PROVE IInv'
  OBVIOUS
<1> USE DEF platformVars, recordVars, listVars
<1>0. TypeOK /\ \A f \in Enclaves : Good(f)
  BY GoodIsIInv DEF IInv
<1>1. TypeOK'
  BY <1>0, TypeList, TypePoll, TypeOther DEF Next, vars, TypeOK
<1>2. \A f \in Enclaves : Good(f)'
  <2> TAKE f \in Enclaves
  <2>1. CASE ListStep \/ Outside \/ Settle \/ UNCHANGED vars
    <3>1. UNCHANGED <<poll, row, trail, lastOp, locks>>
      BY <2>1 DEF ListStep, BeginList, PlatformListed, ListLands, ListFails, Outside,
           OperatorQuarantines, OperatorLifts, ConfigChanges, Settle, vars
    <3> QED
      BY <1>0, <3>1, Frame
  <2>2. CASE \E e \in Enclaves, c \in Callers : PollStep(e, c)
    <3>1. PICK e \in Enclaves, c \in Callers : PollStep(e, c)
      BY <2>2
    <3>2. CASE f = e
      BY <1>0, <3>1, <3>2, GoodPoll
    <3>3. CASE f # e
      <4>1. poll'[f] = poll[f]
        BY <1>0, <3>1, <3>3 DEF PollStep, PollCalled, PollSends, PollGivesUp, PollReturns,
             PollLooks, PollRecords, PollRecordFails, PlatformActs, PlatformRefuses,
             ActNotes, ActRecords, ActRecordFails, Return, Becomes, TypeOK
      <4>2. /\ row'[f] = row[f] /\ trail'[f] = trail[f]
            /\ lastOp'[f] = lastOp[f] /\ locks'[f] = locks[f]
        BY <1>0, <3>1, <3>3 DEF PollStep, PollCalled, PollSends, PollGivesUp, PollReturns,
             PollLooks, PollRecords, PollRecordFails, PlatformActs, PlatformRefuses,
             ActNotes, ActRecords, ActRecordFails, Return, TypeOK
      <4> QED
        BY <1>0, <4>1, <4>2, Frame
    <3> QED
      BY <3>2, <3>3
  <2>3. CASE Restart
    <3>1. \A c \in Callers : poll'[f][c].at = "idle"
      BY <2>3 DEF Restart, Idle
    <3>2. "idle" \notin Inside
      BY DEF Inside
    <3>3. UNCHANGED <<row, trail, lastOp>>
      BY <2>3 DEF Restart
    <3>4. /\ row[f].quarantined => lastOp[f] = "quarantine"
          /\ row[f].failedPolls = trail[f].silent /\ row[f].lastFlagged = trail[f].flagged
      BY <1>0 DEF Good
    <3> QED
      BY <3>1, <3>2, <3>3, <3>4 DEF Good
  <2> QED
    BY <2>1, <2>2, <2>3 DEF Next
<1> QED
  BY <1>1, <1>2 DEF IInv, Good, Locked, Held, Owned, PositionMatchesRecord,
       QuarantineJustified, ReleaseOnlyOurs

\* The inductive invariant holds for every fleet.
THEOREM InvariantHolds == Spec => []IInv
BY GoodInit, GoodStep, PTL DEF Spec

\* Poll's mutex: no two calls are between signing a floor and returning for the
\* same enclave, however many rounds, reports and operators poll it at once.
THEOREM NoOverlap == Spec => []PollsNeverOverlap
<1>1. IInv => PollsNeverOverlap
  BY DEF IInv, Locked, PollsNeverOverlap
<1> QED
  BY <1>1, InvariantHolds, PTL

\* No update of the position is lost across the network call that separates its
\* read from its write, nor across a crash or a failed write.
THEOREM PositionCurrent == Spec => []PositionMatchesRecord
<1>1. IInv => PositionMatchesRecord
  BY DEF IInv
<1> QED
  BY <1>1, InvariantHolds, PTL

\* A quarantine is asked for only on grounds the record holds.
THEOREM QuarantineOnGrounds == Spec => []QuarantineJustified
<1>1. IInv => QuarantineJustified
  BY DEF IInv
<1> QED
  BY <1>1, InvariantHolds, PTL

\* A release is asked for only when the record's last applied action is a
\* quarantine of this monitor, and only on a clean answer or a runtime that never
\* took a config.
THEOREM ReleaseOfOurs == Spec => []ReleaseOnlyOurs
<1>1. IInv => ReleaseOnlyOurs
  BY DEF IInv
<1> QED
  BY <1>1, InvariantHolds, PTL

-----------------------------------------------------------------------------
(* The alerts on a fleet (ClockAlerts): whatever writes are lost           *)
(* and wherever the process stops, no two alerts in a row on a runtime are *)
(* alike.  Its polls are a state of their own: of a poll, alerts read      *)
(* other fields than quarantines do.                                       *)

CONSTANT Rearms
VARIABLES armed, alertPoll, position, blamed, reported, alertAnswers

Alerts == INSTANCE ClockAlerts WITH poll <- alertPoll, answers <- alertAnswers

\* A poll's locals, as a record.
IsPoll(p) ==
    p = [at |-> p.at, prev |-> p.prev, reading |-> p.reading, armed |-> p.armed, event |-> p.event]

AlertType ==
    /\ alertPoll = [e \in Runtimes |-> alertPoll[e]] /\ \A e \in Runtimes : IsPoll(alertPoll[e])
    /\ standing \in [Runtimes -> Standing]
    /\ said \in [Runtimes -> Events \X Events]

\* An alert decided on and not yet recorded is a change: a recovery from an alert
\* that stands, or an alert other than that one.
DecidedOnChange(e) ==
    alertPoll[e].at = "alert" =>
        /\ alertPoll[e].event \in {"clock_wrong", "unreachable", "recovered"}
        /\ alertPoll[e].event # said[e][2]

StandsLast(e) == standing[e] = (IF said[e][2] = "recovered" THEN "none" ELSE said[e][2])

\* What holds of one runtime.
GoodAlert(e) ==
    /\ said[e][1] # said[e][2] /\ said[e][2] # "none"
    /\ StandsLast(e) /\ DecidedOnChange(e)

AlertInv == AlertType /\ \A e \in Runtimes : GoodAlert(e)

-----------------------------------------------------------------------------

LEMMA AlertInit == Alerts!Init => AlertInv
<1> SUFFICES ASSUME Alerts!Init PROVE AlertInv
  OBVIOUS
<1>1. /\ alertPoll = [e \in Runtimes |-> Alerts!Idle] /\ standing = [e \in Runtimes |-> "none"]
      /\ said = [e \in Runtimes |-> <<"none", "recovered">>]
  BY DEF Alerts!Init
<1>2. IsPoll(Alerts!Idle) /\ Alerts!Idle.at = "idle"
  BY DEF IsPoll, Alerts!Idle
<1>3. AlertType
  BY <1>1, <1>2 DEF AlertType, Standing, Events
<1>4. \A e \in Runtimes : GoodAlert(e)
  BY <1>1, <1>2 DEF GoodAlert, StandsLast, DecidedOnChange
<1>. QED BY <1>3, <1>4 DEF AlertInv

\* The rules only ever raise what does not stand, and end what does.
LEMMA RaisedOnChange ==
    ASSUME NEW prev, NEW r, NEW st \in Standing, Alerts!decideAlert(prev, r, st) # "none"
    PROVE  /\ Alerts!decideAlert(prev, r, st) \in {"clock_wrong", "unreachable", "recovered"}
           /\ Alerts!decideAlert(prev, r, st) # st
           /\ Alerts!decideAlert(prev, r, st) = "recovered" => st # "none"
<1>1. CASE r.outcome = "ok" /\ Alerts!clockProblem(r)
  BY <1>1, Zenon DEF Alerts!decideAlert, Standing
<1>2. CASE r.outcome = "ok" /\ ~Alerts!clockProblem(r)
  BY <1>2 DEF Alerts!decideAlert, Standing
<1>3. CASE r.outcome # "ok" /\ Alerts!configMissing(r)
  BY <1>3 DEF Alerts!decideAlert, Standing
<1>4. CASE r.outcome # "ok" /\ ~Alerts!configMissing(r)
  BY <1>4 DEF Alerts!decideAlert, Standing
<1>. QED BY <1>1, <1>2, <1>3, <1>4

\* A poll moved on, to a step other than the alert: nothing of the promise changes.
LEMMA AlertPollMoves ==
    ASSUME AlertInv, NEW e \in Runtimes, NEW p, IsPoll(p), p.at # "alert",
           alertPoll' = [alertPoll EXCEPT ![e] = p], standing' = standing, said' = said
    PROVE  AlertInv'
<1>1. alertPoll' = [d \in Runtimes |-> IF d = e THEN p ELSE alertPoll[d]]
  BY DEF AlertInv, AlertType
<1>2. AlertType'
  BY <1>1 DEF AlertInv, AlertType
<1>3. ASSUME NEW d \in Runtimes PROVE GoodAlert(d)'
  <2>1. GoodAlert(d)
    BY DEF AlertInv
  <2>. QED BY <1>1, <2>1 DEF GoodAlert, StandsLast, DecidedOnChange
<1>. QED BY <1>2, <1>3 DEF AlertInv

\* The step of a poll, moved on.
LEMMA AlertPollGoes ==
    ASSUME AlertInv, NEW e \in Runtimes, NEW step, step # "alert", Alerts!Goes(e, step),
           standing' = standing, said' = said
    PROVE  AlertInv'
<1> DEFINE p == [alertPoll[e] EXCEPT !.at = step]
<1>1. alertPoll' = [alertPoll EXCEPT ![e] = p]
  BY DEF Alerts!Goes
<1>2. IsPoll(alertPoll[e])
  BY DEF AlertInv, AlertType
<1>3. p = [at |-> step, prev |-> alertPoll[e].prev, reading |-> alertPoll[e].reading,
           armed |-> alertPoll[e].armed, event |-> alertPoll[e].event]
  BY <1>2 DEF IsPoll
<1> HIDE DEF p
<1>4. IsPoll(p) /\ p.at # "alert"
  BY <1>3 DEF IsPoll
<1>. QED BY <1>1, <1>4, AlertPollMoves

LEMMA AlertPollEnds ==
    ASSUME AlertInv, NEW e \in Runtimes, Alerts!Ends(e), standing' = standing, said' = said
    PROVE  AlertInv'
<1>1. IsPoll(Alerts!Idle) /\ Alerts!Idle.at # "alert"
  BY DEF IsPoll, Alerts!Idle
<1>. QED BY <1>1, AlertPollMoves DEF Alerts!Ends

\* An alert is decided on against the one that stands.
LEMMA AlertDecided ==
    ASSUME AlertInv, NEW e \in Runtimes, Alerts!DecideStanding(e)
    PROVE  AlertInv'
<1> DEFINE p == alertPoll[e]
           event == IF e \in Vaults \/ ~p.armed
                    THEN Alerts!decideAlert(p.prev, p.reading, standing[e])
                    ELSE Alerts!clearUnconfiguredAlert(standing[e])
<1>1. standing' = standing /\ said' = said
  BY DEF Alerts!DecideStanding, Alerts!record
<1>2. CASE event = "none" /\ Alerts!Ends(e)
  BY <1>1, <1>2, AlertPollEnds
<1>3. CASE event # "none" /\ alertPoll' = [alertPoll EXCEPT ![e] = [p EXCEPT !.at = "alert", !.event = event]]
  <2>1. standing[e] \in Standing /\ GoodAlert(e) /\ IsPoll(p)
    BY DEF AlertInv, AlertType
  <2>2. /\ event \in {"clock_wrong", "unreachable", "recovered"} /\ event # standing[e]
        /\ event = "recovered" => standing[e] # "none"
    <3>1. CASE e \in Vaults \/ ~p.armed
      <4>1. event = Alerts!decideAlert(p.prev, p.reading, standing[e])
        BY <3>1
      <4>2. Alerts!decideAlert(p.prev, p.reading, standing[e]) # "none"
        BY <4>1, <1>3
      <4> HIDE DEF event
      <4>. QED BY <4>1, <4>2, <2>1, RaisedOnChange
    <3>2. CASE ~(e \in Vaults \/ ~p.armed)
      <4>1. event = Alerts!clearUnconfiguredAlert(standing[e])
        BY <3>2, Zenon
      <4> HIDE DEF event
      <4>. QED BY <4>1, <1>3, <2>1 DEF Alerts!clearUnconfiguredAlert, Standing
    <3>. QED BY <3>1, <3>2
  <2> DEFINE q == [p EXCEPT !.at = "alert", !.event = event]
  <2> HIDE DEF event
  <2>3. q = [at |-> "alert", prev |-> p.prev, reading |-> p.reading, armed |-> p.armed, event |-> event]
    <3>1. q = [p EXCEPT !.at = "alert", !.event = event]
      OBVIOUS
    <3> HIDE DEF p, q
    <3>. QED BY <3>1, <2>1 DEF IsPoll
  <2>4. alertPoll' = [alertPoll EXCEPT ![e] = q]
    BY <1>3
  <2> HIDE DEF q
  <2>5. IsPoll(q) /\ q.event = event
    BY <2>3 DEF IsPoll
  <2>6. alertPoll' = [d \in Runtimes |-> IF d = e THEN q ELSE alertPoll[d]]
    BY <2>4 DEF AlertInv, AlertType
  <2>7. AlertType'
    BY <1>1, <2>5, <2>6 DEF AlertInv, AlertType
  <2>8. event # said[e][2]
    BY <2>1, <2>2 DEF GoodAlert, StandsLast
  <2>9. ASSUME NEW d \in Runtimes PROVE GoodAlert(d)'
    <3>1. GoodAlert(d)
      BY DEF AlertInv
    <3>2. CASE d = e
      <4>1. alertPoll'[d].event = event
        BY <3>2, <2>5, <2>6
      <4>. QED BY <4>1, <3>1, <3>2, <1>1, <2>2, <2>8 DEF GoodAlert, StandsLast, DecidedOnChange
    <3>3. CASE d # e
      <4>1. alertPoll'[d] = alertPoll[d]
        BY <3>3, <2>6
      <4>. QED BY <4>1, <3>1, <1>1 DEF GoodAlert, StandsLast, DecidedOnChange
    <3>. QED BY <3>2, <3>3
  <2>. QED BY <2>7, <2>9 DEF AlertInv
<1>. QED BY <1>2, <1>3 DEF Alerts!DecideStanding

\* The alert and what stands after it are one transaction.
LEMMA AlertRecorded ==
    ASSUME AlertInv, NEW e \in Runtimes, Alerts!RecordAlert(e)
    PROVE  AlertInv'
<1> DEFINE event == alertPoll[e].event
           after == IF event = "recovered" THEN "none" ELSE event
<1>1. /\ standing' = [standing EXCEPT ![e] = after]
      /\ said' = [said EXCEPT ![e] = <<said[e][2], event>>]
      /\ alertPoll' = [alertPoll EXCEPT ![e] = Alerts!Idle] /\ alertPoll[e].at = "alert"
  BY DEF Alerts!RecordAlert, Alerts!Ends, Alerts!At
<1>2. AlertType /\ GoodAlert(e)
  BY DEF AlertInv
<1>3. event \in {"clock_wrong", "unreachable", "recovered"} /\ event # said[e][2]
  BY <1>1, <1>2 DEF GoodAlert, DecidedOnChange
<1> HIDE DEF event
<1>4. after \in Standing
  BY <1>3 DEF Standing
<1>5. said[e] \in Events \X Events
  BY <1>2 DEF AlertType
<1>6. said[e][2] \in Events /\ event \in Events
  BY <1>3, <1>5 DEF Events
<1>7. IsPoll(Alerts!Idle) /\ Alerts!Idle.at # "alert"
  BY DEF IsPoll, Alerts!Idle
<1>8. alertPoll' = [d \in Runtimes |-> IF d = e THEN Alerts!Idle ELSE alertPoll[d]]
  BY <1>1, <1>2 DEF AlertType
<1>9. AlertType'
  <2>1. alertPoll' = [d \in Runtimes |-> alertPoll'[d]] /\ \A d \in Runtimes : IsPoll(alertPoll'[d])
    BY <1>2, <1>7, <1>8 DEF AlertType
  <2>2. standing' \in [Runtimes -> Standing]
    BY <1>1, <1>2, <1>4 DEF AlertType
  <2>3. said' \in [Runtimes -> Events \X Events]
    BY <1>1, <1>2, <1>6 DEF AlertType
  <2>. QED BY <2>1, <2>2, <2>3 DEF AlertType
<1>10. ASSUME NEW d \in Runtimes PROVE GoodAlert(d)'
  <2>1. GoodAlert(d)
    BY DEF AlertInv
  <2>2. CASE d = e
    <3>1. standing'[d] = after /\ said'[d] = <<said[e][2], event>> /\ alertPoll'[d] = Alerts!Idle
      BY <2>2, <1>1, <1>2, <1>8 DEF AlertType
    <3>2. said'[d][1] = said[e][2] /\ said'[d][2] = event
      BY <3>1
    <3>3. StandsLast(d)'
      BY <3>1, <3>2 DEF StandsLast
    <3>4. DecidedOnChange(d)'
      BY <3>1, <1>7 DEF DecidedOnChange
    <3>. QED BY <3>2, <3>3, <3>4, <1>3 DEF GoodAlert
  <2>3. CASE d # e
    <3>1. standing'[d] = standing[d] /\ said'[d] = said[d] /\ alertPoll'[d] = alertPoll[d]
      BY <2>3, <1>1, <1>2, <1>8 DEF AlertType
    <3>. QED BY <3>1, <2>1 DEF GoodAlert, StandsLast, DecidedOnChange
  <2>. QED BY <2>2, <2>3
<1>. QED BY <1>9, <1>10 DEF AlertInv

\* Whatever a poll comes back with, whatever is lost and wherever the process stops.
LEMMA AlertStep == AlertInv /\ [Alerts!Next]_Alerts!vars => AlertInv'
<1> SUFFICES ASSUME AlertInv, [Alerts!Next]_Alerts!vars PROVE AlertInv'
  OBVIOUS
<1>1. ASSUME NEW e \in Runtimes, Alerts!PollAnswers(e) PROVE AlertInv'
  <2>1. PICK res : alertPoll' = [alertPoll EXCEPT ![e] = [at |-> "record", prev |-> position[e],
                       reading |-> Alerts!ReadingOf(res), armed |-> armed[e], event |-> "none"]]
    BY <1>1 DEF Alerts!PollAnswers
  <2> DEFINE p == [at |-> "record", prev |-> position[e], reading |-> Alerts!ReadingOf(res),
                   armed |-> armed[e], event |-> "none"]
  <2>2. IsPoll(p) /\ p.at # "alert"
    BY DEF IsPoll
  <2>3. alertPoll' = [alertPoll EXCEPT ![e] = p] /\ standing' = standing /\ said' = said
    BY <1>1, <2>1 DEF Alerts!PollAnswers
  <2> HIDE DEF p
  <2>. QED BY <2>2, <2>3, AlertPollMoves
<1>2. ASSUME NEW e \in Runtimes, Alerts!RecordReading(e) \/ Alerts!AlertBlame(e) \/ Alerts!AlertMissing(e) PROVE AlertInv'
  <2>1. \E step \in {"blame", "missing", "standing"} : Alerts!Goes(e, step)
    BY <1>2 DEF Alerts!RecordReading, Alerts!AlertBlame, Alerts!AlertMissing
  <2>2. standing' = standing /\ said' = said
    BY <1>2 DEF Alerts!RecordReading, Alerts!AlertBlame, Alerts!AlertMissing
  <2>. QED BY <2>1, <2>2, AlertPollGoes
<1>3. ASSUME NEW e \in Runtimes, Alerts!WriteFails(e) PROVE AlertInv'
  BY <1>3, AlertPollEnds DEF Alerts!WriteFails, Alerts!record
<1>4. ASSUME alertPoll' = alertPoll, standing' = standing, said' = said PROVE AlertInv'
  BY <1>4 DEF AlertInv, AlertType, GoodAlert, StandsLast, DecidedOnChange
<1>5. ASSUME NEW e \in Rearms, Alerts!Rearm(e) PROVE AlertInv'
  BY <1>4, <1>5 DEF Alerts!Rearm, Alerts!record
<1>6. CASE Alerts!Restart
  <2>1. alertPoll' = [e \in Runtimes |-> Alerts!Idle] /\ standing' = standing /\ said' = said
    BY <1>6 DEF Alerts!Restart, Alerts!record
  <2>2. IsPoll(Alerts!Idle) /\ Alerts!Idle.at # "alert"
    BY DEF IsPoll, Alerts!Idle
  <2>3. AlertType'
    BY <2>1, <2>2 DEF AlertInv, AlertType
  <2>4. \A e \in Runtimes : GoodAlert(e)'
    BY <2>1, <2>2 DEF AlertInv, GoodAlert, StandsLast, DecidedOnChange
  <2>. QED BY <2>3, <2>4 DEF AlertInv
<1>7. CASE Alerts!Settle \/ UNCHANGED Alerts!vars
  BY <1>4, <1>7 DEF Alerts!Settle, Alerts!vars, Alerts!record
<1>. QED BY <1>1, <1>2, <1>3, <1>5, <1>6, <1>7, AlertDecided, AlertRecorded DEF Alerts!Next

\* No two alerts in a row on a runtime are alike (decide.go decideAlert,
\* service.go clearUnconfiguredAlert).
THEOREM NoAlertTwice == Alerts!Spec => []AlertsAlternate
<1>1. AlertInv => AlertsAlternate
  BY DEF AlertInv, GoodAlert, AlertsAlternate
<1>. QED BY <1>1, AlertInit, AlertStep, PTL DEF Alerts!Spec
=============================================================================
