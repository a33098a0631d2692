----------------------------- MODULE ClockFleet -----------------------------
(***************************************************************************)
(* The platform clock (internal/clock): polls of an enclave, the position  *)
(* recorded on it, the cached list of the fleet, and the quarantines and   *)
(* releases asked of the control plane.                                    *)
(*                                                                         *)
(* Polls of one enclave are started by the scheduled round, by incident    *)
(* reports and by hand; each is a caller here, and a mutex per enclave     *)
(* keeps them apart.  The list is fetched by a goroutine of its own, holds *)
(* what the control plane said when it answered, and replaces the whole    *)
(* cache when it lands.  Between any two steps of a poll an operator may   *)
(* act on the same enclave, the list may land, or the process may stop.    *)
(*                                                                         *)
(* The control plane is external: it is modelled from the calls            *)
(* PlatformAPI makes.  Alerts on vaults and unconfigured runtimes are rows *)
(* of their own that no decision below reads; sequence numbers and the     *)
(* trusted time are in ClockSeq.                                           *)
(***************************************************************************)
EXTENDS ClockDecide

CONSTANTS
    Enclaves,         \* the runtimes the control plane may list
    Vaults,           \* the ones among them that are vaults
    Callers,          \* concurrent callers of Poll for one enclave
    Free,             \* the mutex of an enclave that nobody polls
    Results,          \* what a poll may come back with
    Settlements,      \* sets of results the fleet may settle on
    Configs,          \* clock configs the control plane may list
    OperatorActs,     \* an operator uses the control plane too
    AnswersLost,      \* a control-plane call may take effect and still fail
    WritesFail,       \* the record may refuse a write
    Crashes           \* the process may stop at any step

ASSUME FleetAssumption ==
    /\ Vaults \subseteq Enclaves
    /\ Free \notin Callers
    /\ Results \subseteq PollResults /\ Settlements \subseteq SUBSET PollResults
    /\ Configs \subseteq ConfigType
    /\ {OperatorActs, AnswersLost, WritesFail, Crashes} \subseteq BOOLEAN

VARIABLES
    \* The control plane.
    placed,     \* who placed the quarantine in force on each enclave
    config,     \* the clock config state it lists for each enclave
    \* The process (lost when it stops).
    enclaves,   \* s.enclaves: the list as cached, with its quarantined flag
    listing,    \* s.listing: the fetch in flight and the answer it carries
    locks,      \* s.locks: who polls each enclave
    poll,       \* the local state of every call of Poll
    \* The record (survives a restart).
    row,        \* clock_enclaves: the position on each enclave
    lastOp,     \* clock_actions: the last applied action recorded on each
    \* History of the record, for the properties.
    trail,      \* of the readings recorded on each: silent ones at the end,
                \* and whether the last answer was flagged
    answers     \* what a poll may come back with from now on

platformVars == <<placed, config>>
listVars == <<enclaves, listing>>
recordVars == <<row, lastOp, trail>>
vars == <<placed, config, enclaves, listing, locks, poll, row, lastOp, trail, answers>>

Holders == {"none", "monitor", "operator"}
Ops == {"none", "quarantine", "release"}
Listing == [listed : BOOLEAN, known : BOOLEAN, version : Nat, current : Nat,
            quarantined : BOOLEAN]

NotListed == [listed |-> FALSE, known |-> FALSE, version |-> 0, current |-> 0,
              quarantined |-> FALSE]
EmptyList == [e \in Enclaves |-> NotListed]
NoFetch == [at |-> "none", answer |-> EmptyList]

ConfigOf(l) == [listed |-> l.listed, known |-> l.known,
                version |-> l.version, current |-> l.current]

\* The locals of Poll: st is the position it read, then the one it recorded.
Idle == [at |-> "idle", cfg |-> ConfigOf(NotListed), st |-> NoRow, reading |-> Blank,
         platQ |-> FALSE, op |-> "none"]

\* Where a call of Poll holds the enclave's mutex.
Inside == {"sent", "answered", "looked", "asking", "applied", "refused", "noted"}

PollStates == [at : Inside \cup {"idle", "waiting"}, cfg : ConfigType, st : Rows,
               reading : Readings, platQ : BOOLEAN, op : Ops]

TypeOK ==
    /\ placed \in [Enclaves -> Holders]
    /\ config \in [Enclaves -> Configs]
    /\ enclaves \in [Enclaves -> Listing]
    /\ listing \in [at : {"none", "asked", "answered"}, answer : [Enclaves -> Listing]]
    /\ locks \in [Enclaves -> Callers \cup {Free}]
    /\ poll \in [Enclaves -> [Callers -> PollStates]]
    /\ row \in [Enclaves -> Rows]
    /\ lastOp \in [Enclaves -> Ops]
    /\ trail \in [Enclaves -> [silent : 0..FailedPollsCap, flagged : BOOLEAN]]
    /\ answers \subseteq PollResults

Init ==
    /\ placed = [e \in Enclaves |-> "none"]
    /\ config \in [Enclaves -> Configs]
    /\ enclaves = EmptyList
    /\ listing = NoFetch
    /\ locks = [e \in Enclaves |-> Free]
    /\ poll = [e \in Enclaves |-> [c \in Callers |-> Idle]]
    /\ row = [e \in Enclaves |-> NoRow]
    /\ lastOp = [e \in Enclaves |-> "none"]
    /\ trail = [e \in Enclaves |-> [silent |-> 0, flagged |-> FALSE]]
    /\ answers = Results

At(e, c, pc) == poll[e][c].at = pc

\* The call's locals become p.
Becomes(e, c, p) == poll' = [poll EXCEPT ![e][c] = p]

-----------------------------------------------------------------------------
(* The list.                                                               *)

\* refreshList: one fetch at a time; whoever asks meanwhile waits for it.
BeginList ==
    /\ listing.at = "none"
    /\ listing' = [NoFetch EXCEPT !.at = "asked"]
    /\ UNCHANGED <<platformVars, enclaves, locks, poll, recordVars, answers>>

\* What the control plane lists of an enclave right now.
ListedNow(e) == [listed |-> config[e].listed, known |-> config[e].known,
                 version |-> config[e].version, current |-> config[e].current,
                 quarantined |-> placed[e] # "none"]

\* The control plane answers; the answer is on its way.
PlatformListed ==
    /\ listing.at = "asked"
    /\ listing' = [at |-> "answered",
                   answer |-> [e \in Enclaves |->
                                 IF config[e].listed THEN ListedNow(e) ELSE NotListed]]
    /\ UNCHANGED <<platformVars, enclaves, locks, poll, recordVars, answers>>

\* The answer lands: the cache is replaced whole.
ListLands ==
    /\ listing.at = "answered"
    /\ enclaves' = listing.answer
    /\ listing' = NoFetch
    /\ UNCHANGED <<platformVars, locks, poll, recordVars, answers>>

\* The fetch fails or times out: the last known list stays.
ListFails ==
    /\ listing.at # "none"
    /\ listing' = NoFetch
    /\ UNCHANGED <<platformVars, enclaves, locks, poll, recordVars, answers>>

-----------------------------------------------------------------------------
(* Poll.                                                                   *)

\* A round, an incident report or an operator polls a listed enclave, with
\* the list entry as it was then.
PollCalled(e, c) ==
    /\ At(e, c, "idle")
    /\ enclaves[e].listed
    /\ Becomes(e, c, [Idle EXCEPT !.at = "waiting", !.cfg = ConfigOf(enclaves[e])])
    /\ UNCHANGED <<platformVars, listVars, locks, recordVars, answers>>

\* Mutant: the mutex is not taken.
Mut_PollSendsUnlocked(e, c) ==
    /\ At(e, c, "waiting")
    /\ Becomes(e, c, [poll[e][c] EXCEPT !.at = "sent", !.st = row[e]])
    /\ UNCHANGED <<platformVars, listVars, locks, recordVars, answers>>

\* Mutant: the recorded position is not read back.
Mut_PollSendsBlank(e, c) ==
    /\ At(e, c, "waiting")
    /\ locks[e] = Free
    /\ locks' = [locks EXCEPT ![e] = c]
    /\ Becomes(e, c, [poll[e][c] EXCEPT !.at = "sent"])
    /\ UNCHANGED <<platformVars, listVars, recordVars, answers>>

\* lock.Lock, the recorded position, and the floor is signed and sent.
PollSends(e, c) ==
    /\ At(e, c, "waiting")
    /\ locks[e] = Free
    /\ locks' = [locks EXCEPT ![e] = c]
    /\ Becomes(e, c, [poll[e][c] EXCEPT !.at = "sent", !.st = row[e]])
    /\ UNCHANGED <<platformVars, listVars, recordVars, answers>>

\* Poll returns: the mutex is released.
Return(e, c) ==
    /\ Becomes(e, c, Idle)
    /\ locks' = [locks EXCEPT ![e] = Free]

\* No trusted time, the position unreadable, the call called off, the
\* monitor's own side failing, or no id for the reading: nothing is recorded.
PollGivesUp(e, c) ==
    /\ \/ At(e, c, "waiting") /\ locks[e] = Free
       \/ At(e, c, "sent")
    /\ Return(e, c)
    /\ UNCHANGED <<platformVars, listVars, recordVars, answers>>

\* The poll comes back with a result that will be recorded.
PollReturns(e, c) ==
    /\ At(e, c, "sent")
    /\ \E res \in answers :
          /\ res.failure # "own_side"
          /\ Becomes(e, c, [poll[e][c] EXCEPT !.at = "answered", !.reading = ReadingOf(res)])
    /\ UNCHANGED <<platformVars, listVars, locks, recordVars, answers>>

\* The latest list says whether the enclave is quarantined and configured; an
\* enclave it no longer has keeps the config it was called with.
PollLooks(e, c) ==
    /\ At(e, c, "answered")
    /\ Becomes(e, c, [poll[e][c] EXCEPT
          !.at = "looked",
          !.platQ = enclaves[e].listed /\ enclaves[e].quarantined,
          !.cfg = IF enclaves[e].listed THEN ConfigOf(enclaves[e]) ELSE @])
    /\ UNCHANGED <<platformVars, listVars, locks, recordVars, answers>>

\* What a reading just recorded calls for: prev is the position before it,
\* next the one recorded, cfg and platQ what the list said.
Called(e, prev, next, r, cfg, platQ) ==
    CASE e \in Vaults -> "none"
      [] e \notin Vaults /\ ~ClockArmed(cfg) ->
            IF next.quarantined /\ platQ /\ ClockNeverConfigured(cfg) THEN "release" ELSE "none"
      [] OTHER ->
            Decide([prev EXCEPT !.quarantined = next.quarantined], r, platQ)

\* recordReadings: the reading and the position after it are one transaction;
\* then Poll returns or asks the control plane to act.
PollRecords(e, c) ==
    LET p == poll[e][c]
        next == advance(p.st, p.reading, p.platQ)
        op == Called(e, p.st, next, p.reading, p.cfg, p.platQ)
    IN /\ At(e, c, "looked")
       /\ row' = [row EXCEPT ![e] = next]
       /\ trail' = [trail EXCEPT ![e] =
             [silent |-> IF p.reading.outcome = "unreachable" THEN OneMore(@.silent) ELSE 0,
              flagged |-> IF p.reading.outcome = "ok" THEN p.reading.flagged ELSE @.flagged]]
       /\ \/ /\ op = "none"
             /\ Return(e, c)
          \/ /\ op # "none"
             /\ Becomes(e, c, [p EXCEPT !.at = "asking", !.st = next, !.op = op])
             /\ locks' = locks
       /\ UNCHANGED <<platformVars, listVars, lastOp, answers>>

\* The record refuses the reading: Poll returns without acting on it.
PollRecordFails(e, c) ==
    /\ WritesFail
    /\ At(e, c, "looked")
    /\ Return(e, c)
    /\ UNCHANGED <<platformVars, listVars, recordVars, answers>>

-----------------------------------------------------------------------------
(* act.                                                                    *)

\* The control plane does what it is asked.  A quarantine on an enclave that
\* is already out of service changes nothing about who placed it.
PlatformActs(e, c) ==
    /\ At(e, c, "asking")
    /\ placed' = [placed EXCEPT ![e] = CASE poll[e][c].op = "release" -> "none"
                                         [] @ # "none" -> @
                                         [] OTHER -> "monitor"]
    /\ \E answered \in {TRUE, ~AnswersLost} :
          Becomes(e, c, [poll[e][c] EXCEPT !.at = IF answered THEN "applied" ELSE "refused"])
    /\ UNCHANGED <<config, listVars, locks, recordVars, answers>>

\* The control plane refuses, or the call never reaches it.
PlatformRefuses(e, c) ==
    /\ At(e, c, "asking")
    /\ Becomes(e, c, [poll[e][c] EXCEPT !.at = "refused"])
    /\ UNCHANGED <<platformVars, listVars, locks, recordVars, answers>>

\* setPlatformQuarantined: the cached list follows the action.
ActNotes(e, c) ==
    /\ At(e, c, "applied")
    /\ LET q == (poll[e][c].op = "quarantine")
       IN /\ enclaves' = IF enclaves[e].listed
                         THEN [enclaves EXCEPT ![e] = [@ EXCEPT !.quarantined = q]]
                         ELSE enclaves
          /\ Becomes(e, c, [poll[e][c] EXCEPT !.at = "noted",
                                              !.st = [@ EXCEPT !.quarantined = q]])
    /\ UNCHANGED <<platformVars, listing, locks, recordVars, answers>>

\* recordAction: the action and the position are one transaction, and a
\* refused action is recorded too.
ActRecords(e, c) ==
    /\ At(e, c, "noted") \/ At(e, c, "refused")
    /\ row' = [row EXCEPT ![e] = poll[e][c].st]
    /\ lastOp' = [lastOp EXCEPT ![e] = IF At(e, c, "noted") THEN poll[e][c].op ELSE @]
    /\ Return(e, c)
    /\ UNCHANGED <<platformVars, listVars, trail, answers>>

\* The record refuses the action, or no id could be made for it.
ActRecordFails(e, c) ==
    /\ WritesFail
    /\ At(e, c, "noted") \/ At(e, c, "refused")
    /\ Return(e, c)
    /\ UNCHANGED <<platformVars, listVars, recordVars, answers>>

-----------------------------------------------------------------------------
(* The rest of the world.                                                  *)

OperatorQuarantines(e) ==
    /\ OperatorActs
    /\ placed[e] = "none"
    /\ placed' = [placed EXCEPT ![e] = "operator"]
    /\ UNCHANGED <<config, listVars, locks, poll, recordVars, answers>>

OperatorLifts(e) ==
    /\ OperatorActs
    /\ placed[e] # "none"
    /\ placed' = [placed EXCEPT ![e] = "none"]
    /\ UNCHANGED <<config, listVars, locks, poll, recordVars, answers>>

\* A config push, an acknowledgement, a registration or a retirement.
ConfigChanges(e) ==
    /\ \E k \in Configs \ {config[e]} : config' = [config EXCEPT ![e] = k]
    /\ UNCHANGED <<placed, listVars, locks, poll, recordVars, answers>>

\* The process stops and starts again: the record is all that is left.
Restart ==
    /\ Crashes
    /\ enclaves' = EmptyList
    /\ listing' = NoFetch
    /\ locks' = [e \in Enclaves |-> Free]
    /\ poll' = [e \in Enclaves |-> [c \in Callers |-> Idle]]
    /\ UNCHANGED <<platformVars, recordVars, answers>>

\* From now on the runtimes answer in fewer ways.
Settle ==
    /\ answers = Results
    /\ answers' \in Settlements
    /\ UNCHANGED <<platformVars, listVars, locks, poll, recordVars>>

PollStep(e, c) ==
    \/ PollCalled(e, c) \/ PollSends(e, c) \/ PollGivesUp(e, c) \/ PollReturns(e, c)
    \/ PollLooks(e, c) \/ PollRecords(e, c) \/ PollRecordFails(e, c)
    \/ PlatformActs(e, c) \/ PlatformRefuses(e, c)
    \/ ActNotes(e, c) \/ ActRecords(e, c) \/ ActRecordFails(e, c)

ListStep == BeginList \/ PlatformListed \/ ListLands \/ ListFails

Outside == \E e \in Enclaves : OperatorQuarantines(e) \/ OperatorLifts(e) \/ ConfigChanges(e)

Next ==
    \/ ListStep
    \/ \E e \in Enclaves, c \in Callers : PollStep(e, c)
    \/ Outside
    \/ Restart
    \/ Settle

Spec == Init /\ [][Next]_vars

(***************************************************************************)
(* Rounds keep coming (run: a ticker), calls return within their timeouts, *)
(* a mutex does not starve a waiter, and neither the control plane nor the *)
(* record refuses forever.                                                 *)
(***************************************************************************)
Fairness ==
    /\ WF_vars(BeginList) /\ SF_vars(PlatformListed) /\ SF_vars(ListLands)
    /\ \A e \in Enclaves, c \in Callers :
          /\ WF_vars(PollCalled(e, c)) /\ SF_vars(PollSends(e, c)) /\ SF_vars(PollReturns(e, c))
          /\ WF_vars(PollLooks(e, c)) /\ SF_vars(PollRecords(e, c))
          /\ SF_vars(PlatformActs(e, c)) /\ WF_vars(ActNotes(e, c))
          /\ SF_vars(At(e, c, "noted") /\ ActRecords(e, c)) /\ WF_vars(ActRecords(e, c))

FairSpec == Spec /\ Fairness

-----------------------------------------------------------------------------
(* Properties.                                                             *)

\* "Polls of the same enclave never overlap" (Poll): whatever started them, at
\* most one call between signing a floor and returning, per enclave.
PollsNeverOverlap ==
    \A e \in Enclaves : \A c, d \in Callers :
        poll[e][c].at \in Inside /\ poll[e][d].at \in Inside => c = d

\* The position is read before the network call and written after it, yet no
\* update is lost: what it counts is what the readings of the record say.
PositionMatchesRecord ==
    \A e \in Enclaves : /\ row[e].failedPolls = trail[e].silent
                        /\ row[e].lastFlagged = trail[e].flagged

\* The grounds the record gives for a quarantine: the reading in hand is recorded
\* and is an answer that is not clean, or given without NTS, and does not blame
\* the monitor; or a failed-closed refusal; or no answer after enough silence or
\* after a flagged answer.
Grounds(e, r) ==
    \/ /\ r.outcome = "ok" /\ r.verdict # "monitor_clock_wrong"
       /\ ~cleanReading(r) \/ r.ntsUnreachable
    \/ /\ r.outcome # "ok" /\ ~configMissing(r)
       /\ \/ failedClosed(r)
          \/ trail[e].silent >= MaxFailedPolls
          \/ trail[e].flagged

\* The control plane is asked for a quarantine only of an enclave that is no
\* vault and acknowledged the current config, on grounds the record holds.
QuarantineJustified ==
    \A e \in Enclaves, c \in Callers :
        LET p == poll[e][c]
        IN p.at = "asking" /\ p.op = "quarantine" =>
              e \notin Vaults /\ ClockArmed(p.cfg) /\ Grounds(e, p.reading)

\* A release is asked for only when the last applied action in the record is a
\* quarantine by this monitor, and only on a clean answer or for a runtime that
\* never took a config: never on silence, and not twice.
ReleaseOnlyOurs ==
    \A e \in Enclaves, c \in Callers :
        LET p == poll[e][c]
        IN p.at = "asking" /\ p.op = "release" =>
              /\ e \notin Vaults
              /\ lastOp[e] = "quarantine"
              /\ cleanReading(p.reading) \/ ClockNeverConfigured(p.cfg)

\* Decide: an armed enclave whose every answer is a clock problem is out of
\* service again and again, however often an operator lifts the quarantine.
SickEnclaveHeld ==
    \A e \in Enclaves \ Vaults, S \in Settlements :
        SickAnswers(S) => (answers = S ~> placed[e] # "none")

\* The monitor's own quarantine is in force and every copy of the flag says so: the
\* record, the cached list, a list on its way and a poll that has looked at one.
KnownOurs(e) ==
    /\ placed[e] = "monitor" /\ row[e].quarantined /\ enclaves[e].quarantined
    /\ listing.at = "answered" => listing.answer[e].quarantined
    /\ \A c \in Callers : At(e, c, "looked") => poll[e][c].platQ

\* Decide: once every answer is clean, a quarantine this monitor placed and knows of
\* is lifted at the control plane.  (One that a list fetched before it has made the
\* record forget is never lifted: README.)
CleanEnclaveReleased ==
    \A e \in Enclaves \ Vaults, S \in Settlements :
        CleanAnswers(S) => (answers = S /\ KnownOurs(e) ~> placed[e] = "none")

-----------------------------------------------------------------------------
(* Claims of comments and documents that the code does not keep (README).  *)

\* model.ClockEnclave: "Quarantined is true while a quarantine this monitor asked
\* for is in force", whenever no poll of the enclave is under way.
QuarantinedWhileInForce ==
    \A e \in Enclaves : locks[e] = Free /\ placed[e] = "monitor" => row[e].quarantined

\* decide.go: "The monitor only ever lifts a quarantine it placed itself. One an
\* operator placed is theirs to lift."
OperatorQuarantineKept ==
    [][\A e \in Enclaves :
          placed[e] = "operator" => placed'[e] = "operator" \/ OperatorLifts(e)]_vars
=============================================================================
