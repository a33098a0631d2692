# Verification of the service monitor

TLA+ modules for container-app-service-monitoring, the TLC instances that check
them, and TLAPS proofs of what must hold for every fleet, every service model,
every number of callers and every restart. Paths below are relative to the
repository.

The monitor is one process. It runs journeys against a service with credentials
it keeps sealed, records every reading in a ledger a customer can check offline,
folds readings into minutes and hours, declares outages and incidents, and
computes signed availability reports. One instance of the same image is the
platform clock: it polls the clock of every enclave in a fleet with a signed time
floor, and has enclaves with a wrong clock quarantined.

What a reader should take from this project in short. Proved for all values of
the constants: polls of an enclave are serialised, quarantines have grounds and
releases are of the monitor's own; numbers of the record are unique across
restarts; nothing is written once Shutdown has closed the record; a customer who holds
checkpoints sees a record that went back; the ledger implements its abstract
register; a credential leaves the vault only where it is bound and is not recorded,
but in two cases the theorem names; a reading names the definition that made it; buckets count exactly the
readings recorded in time and are never revised; incidents of the monitor's own
end with the outage; every figure of a report is the one counted second by second.
Shown not to hold: an hour is folded before its last minutes
are, so the evidence of a report may miss downtime; configuring again with the
same pack turns its monitors off; two configure requests at once can leave a
polling loop nothing stops; and the other disagreements of section 6, which the
properties make exceptions of by name.

## 1. Inventory

### Components, their state and operations

| Component | Source | State | Operations | Module |
|---|---|---|---|---|
| Rules on readings | `internal/clock/decide.go`, `advance` in `service.go` | none | Decide, advance, DecideVault, DecideUnconfigured | `ClockDecide`, `ClockAlerts` |
| Polls and quarantines | `internal/clock/service.go`, `listing.go`, `platform.go`, `internal/core/clock.go` | cached fleet list, one mutex per enclave, recorded position and actions | Poll, act, refreshList, Cycle, Incident | `ClockFleet` |
| Alerts on runtimes that are not quarantined | `service.go`, `decide.go`, `core/clock.go` | position, standing alert | alertOnReading, alertOnVault, clearUnconfiguredAlert, RecordClockVaultAlert | `AlertRecord`, `ClockAlerts` |
| Trusted time | `internal/clock/timesource` | offset, time of the fetch, floor | Refresh, Now, SetFloor | `TimeSource` |
| Signed floors | `service.go`, `core/clock.go` | sequence counter, high-water mark | Poll, loadHighWater, Cycle | `ClockSeq` |
| Start, reconfigure, shutdown | `service.go`, `shutdown.go`, `cmd/monitor/main.go` | loop in force, closing, gone, background work, store lock | Apply, Stop, Shutdown, Incident, withStore | `ClockLifecycle` |
| Scheduler and readings | `internal/probe/scheduler.go`, `internal/core/samples.go` | ticker, journeys, last run, samples, the scheduler's copy of the monitors | Run, tick, due, RunOnce, RecordSamples, Reload | `Readings`, `Journey`, `Catalogue` |
| Folding and retention | `samples.go`, `retention.go` | buckets, two watermarks | Fold, PruneSamples | `Folding`, `Readings` |
| Evidence of a report | `reports.go`, `internal/availability/compute.go` | none | evidenceBuckets, monitorSegments | `Folding` |
| Detection | `internal/core/detect.go`, `catalogue.go`, `probe/scheduler.go` | states of monitors and components, flap counts, alerts, rules, who watches what | detect, rollUpComponent, SetMonitorEnabled, UpsertMonitor, UpsertComponent, reload | `Detection` |
| Incidents | `incidents.go`, `detect.go` | incidents | openAutoIncident, resolveAutoIncident, OpenIncident, UpdateIncident | `Detection` |
| Interval arithmetic | `internal/availability/interval.go` | none | Merge, Intersect, Subtract, Total, Clip, Ratio | `Intervals` |
| Ledger and transactions | `internal/core/core.go`, `internal/store` | commits, rows | commit, apply, applyOne, Migrate | `Ledger` |
| Checkpoints, evidence, reclaiming | `internal/core/anchors.go`, `retention.go`, `internal/checkpoint` | checkpoints, roots still kept | issueCheckpoint, anchorCurrentState, Evidence, RootsBetween, ReclaimStorage | `Ledger`, `Register` |
| Offline verifier | `cmd/monitor-verify/main.go` | what the customer holds | verifyChain, verifyLineage, verifyBundle | `Ledger` |
| Credentials | `internal/secrets`, `internal/core/credentials.go` | keyring in memory and on disk, sealed files, rows | Put, Use, Destroy, Open, PutSecret, DestroySecret | `Vault` |
| Service model and configuration | `catalogue.go`, `configure.go`, `internal/journey/egress.go` | rows, configuration in memory, allowlist, renderer | Upsert*, SetMonitorEnabled, Configure, SeedPack, LoadConfig, refreshEgress | `Catalogue` |
| Journeys | `internal/journey`, `internal/secrets/redact.go` | step reached, class, redactor, captures | Run, step, request, checks, runBrowser, verdictFor | `Journey` |
| The monitor at work | `cmd/monitor/main.go`, `internal/api` | all of the three above | their composition, stop and start | `Watch` |
| Maintenance and reports | `maintenance.go`, `reports.go`, `compute.go`, `samples.go` | windows, reports, readings, buckets, watermarks | DeclareMaintenance, CancelMaintenance, Fold, GenerateReport, Compute, evaluate | `Reports` |

Listed in `PROJECT.json` and not modelled: the wire format and signatures, the
limit on incident reports, webhook delivery, captures and baselines, routing and
read-only views, identity, keys, schedules in time zones, and third-party code.
Section 8 says why.

### How they interact

* The store serialises transactions (`store.Do`), so one call that writes is one
  step of a module, and anything between two calls may interleave. This decides
  the grain of every action: `recordReadings` and `recordAction` are two steps,
  `detect` inside `RecordSamples` is one.
* Rounds, incident reports and operators call `Poll` from goroutines of their
  own. `Poll` holds the mutex of one enclave across a network call, reads the
  position before it, and reads the cached list after it.
* The list is fetched by a goroutine several callers wait for; `act` also writes
  the cache. The control plane is shared with operators.
* Configure requests call `Apply` from HTTP handlers, `main` calls `Shutdown`,
  both touch the loop in force.
* One goroutine takes ticks, folds, and prunes; its ticker holds one tick.
* Handlers that change the service model commit a transaction, then rebuild the
  allowlist (read under the lock, replaced outside it), then reload the
  scheduler's copy. A journey under way goes on with the definition it was given,
  but asks the allowlist, the vault and the renderer as they are at each step.
* A credential is two things on the disk, a sealed file and an entry of the
  keyring; Use lets go of the lock between them, and the transaction that records
  a Put or a Destroy comes after it.
* Checkpoints, evidence and reclaimed storage are all about the version of the
  moment; what a customer holds is outside the process and outlives it.
* `GenerateReport` reads buckets, windows and the schedule as they are when it is
  called, not as they were.

### What is hard, and the property for it

`PROJECT.json` lists the hazards line by line. They fall into seven groups.

* **Read, wait, write.** The position is read before a poll and written after
  it (`PositionMatchesRecord`); the standing alert is read in one transaction and
  written in another (`AlertsAlternate`, `CleanRuntimeRecovered`); `closing` is read
  and a loop is started later (section 6); a component's state is computed on the
  change of a monitor and stays while its rule is amended (`RollupHolds`).
* **Two actors at once.** Callers of Poll (`PollsNeverOverlap`), polls of several
  enclaves on one counter (`RecordedOnce`), configure requests
  (`LoopsMatchConfig`), people and the monitor on one incident
  (`AutoIncidentsEnd`, `HumanIncidentsStay`), the vault's Use against Put and
  Destroy (`ValueLeavesBound`), a journey against whoever amends its monitor, its
  allowlist and its credentials (`ReadingNamesItsDefinition`, `VerdictHonest`).
* **A stop between two steps.** Counter and floor restored from the record
  (`SignsAboveRecord`), alerts across restarts (`AlertsAlternate`,
  `SilentRuntimeAlerted`), shutdown and late writers (`NoWriteAfterClose`,
  `ReceiptsDealtWith`).
* **A record somebody else must be able to check.** A write set that fails half
  way, a request sent twice (`ReplayHolds`), a store put back from a copy and
  grown again (`RollbackShows`, `LineageHolds`), detail reclaimed behind an
  anchor, evidence of a state without a checkpoint (`EvidenceHolds`), and all of
  it at once (`ImplementsRegister`).
* **What must not get into a record.** A credential a service showed before the
  journey came to use it, or after it was replaced in the middle of a step
  (`NoCredentialRecorded`), a failure of ours told as
  downtime of theirs (`VerdictHonest`).
* **Something that must happen.** A sick enclave is held and a clean one released
  (`SickEnclaveHeld`, `CleanEnclaveReleased`), shutdown ends (`ShutdownEnds`),
  readings are folded (`FoldedInTheEnd`).
* **Boundaries of time and counts.** Hours a period cuts (`EdgesExact`), late
  readings and prunes (`AccountedFor`, `BucketsFinal`), figures from evidence of
  two widths (`FiguresExact`), a window moved after the fact or an hour folded after
  the report (`ReportedStays`).

## 2. Modules

Definitions keep the names of the Go code where it has one. `PROJECT.json` maps
each to its lines. `MC...` modules only give constants values. A definition
`Mut_X` beside `X` is `X` with a plausible mistake; replacing `X` by it must
violate the property it is paired with, which shows that the property depends on
the code and not on the shape of the model.

**ClockDecide.** Pure operators. A poll result keeps the fields the rules tell
apart: failure, status, whether a 503 says "not enabled", verdict, flag, trust,
NTS, drift and key. `FailedPollsCap` bounds the count of silent polls; nothing
tells two counts at or above `MaxFailedPolls` apart. Tolerance and drift are in
milliseconds, so the boundary is the code's.

**ClockFleet.** `enclaves` and `listing` are the cache and the fetch in flight,
`locks` the per-enclave mutex, `poll` the locals of each call of `Poll`, `row` and
`lastOp` the record. `Poll` is split where another goroutine can see a
difference: called, floor sent (mutex and position), answered, list looked at,
recorded, control plane asked, cache noted, action recorded. Failure of each is
a step of its own. The control plane (`placed`, `config`) and operators are
external. `trail` is history for the properties. `Restart` forgets all but the
record and the control plane. `Settle` restricts later answers, for liveness.

**AlertRecord, ClockAlerts.** The first is what the record keeps of the alerts on a
runtime and what it owes a reader; the second the transactions of a poll after the
reading, one step each, on one poll per runtime (which ClockFleet justifies).

**TimeSource, ClockSeq.** A fetch asks two servers in any order, a third when the
two do not settle it, and takes the mean of the closest agreeing pair, rounded
as Go rounds. Times are whole units; an offset is kept as its error, so that the
truth can be stated. ClockSeq adds the counter, the floors under way and the
readings of the record.

**ClockLifecycle.** A loop is unused, installed, live, cancelled or ended; Apply
is four steps because it lets go of its mutex in between; `Readable` is a shared
lock of a Go `RWMutex`, which keeps new readers behind a waiting writer. A write
only begins and ends. Any number of requests apply at once: the HTTP layer does not
serialise them. `overlapped` and `displaced` are history: that two calls of Apply
overlapped, and the loops whose handles one of them replaced. `ServeFails` is the
way out of `run` in main.go that closes the record without a Shutdown; `failed`
remembers it. `StopWaits` may give up only after Shutdown returned: the
limit of Stop is longer than Shutdown's.

**Folding, Readings.** A sample, a bucket, the rules of minute and hour
verdicts, the choice of evidence, and reading evidence by the finest bucket.
`Readings` adds the ticker, journeys that take any time, recording, folding in
one transaction from what the record held before it, pruning with a limit, and
restarts. A minute may be one or more seconds (`WidthMinute`), an hour some
minutes (`WidthHour`).

**Ledger, Register.** `log` is the ledger's commits, and the version their number;
a root is the history up to it, as a hash without collisions would be. Every
block under the store's mutex is one step: `Migrate` (each statement a commit, a
stop after any), `Commit` (refused, found again, applied whole or rolled back),
`IssueCheckpoint`, `Checkpoints` (the newest `Limit` are served), `Evidence`,
`ReclaimStorage`. Roots are served for at most `Widest` versions at once (100,000 in the
code). The references of an envelope, which `apply` writes to a table of their own
under the new transaction's id, stand in the envelope. `TakeCopy` and `Restore` put an older store back. The customer
(`held`) keeps what it is served and checks with `verifyChain`, `verifyLineage` and
`verifyBundle` of monitor-verify. `Register` says what all of this promises without
how: a history that only grows, anchors that say what it was, nothing forgotten
that no anchor stands for, and a copy put back whole. `Reg` in Ledger is the
refinement mapping (`INSTANCE Register WITH`).

**Vault.** A value is named by the call that put it, and so is the key made for it.
Put and Destroy are a step for each write to the disk, any of which may fail; the
lock (`holder`) is held across them; the recording transaction is a step of its
own. `ended` is history: values whose end was reported.

**Catalogue.** The rows as one record of which only what other parts read is kept;
the configuration in memory; the allowlist; the scheduler's copy. `refreshEgress`
is two steps, since it replaces the list after letting go of the lock. A
configure request is a list of transactions still to make (`conf`), in the code's
order, any of which may fail.

**Journey.** One journey at a time, step by step. A step has a kind, a host, the
credential it asks for and in how many places, whether it can be rendered, whether its
checks are valid, whether it follows redirects and whether it cleans up. Each place
of a credential is resolved by itself (`Resolve`, `Place`), and resolving and opening
its file are two steps; the redactor is told of the last value only, as `scope.used`
keeps it. A service may show any credential it was ever sent; a capture may be cut in
the middle of one (`capture`), and what is left then is a piece the redactor does not
know. The class "status" stands for every failure of the service's own. `theirs`,
`ours`, `ran`, `used` and `turned` are history for the properties.

**Watch.** The composition: Vault, Catalogue and Journey beside people who make
requests, a process that is told to stop and starts again from its disk, and
failures, each with a bound.

**Detection.** A tick moves the states of its monitors and rolls up the
components a monitor of which changed, opens or resolves incidents and raises
alerts, in one step. Flap counts and runs stop counting where nothing tells them
apart (`MaxFlaps`, `MaxRun`). The incident open on a component is searched for as the
code does, by a substring of a list of ids: `Like[c]` are the components whose ids
match c's. Rules, and who watches what, are amended without a rollup; the scheduler
runs its copy of the monitors (`listed`), so a reading may name the component its
monitor watched before. Thresholds are constants: an amendment that changes them is
left out. `run`, `quiet`, `flapTold`, `hushed`, `byHand`, `amended` and `joined` are
history.

**Intervals, Reports.** Lists of intervals are sets: `Merge` sorts first, so no
result depends on order. Integers wrap at `IntMax` where the code multiplies.
`Reports` computes figures from buckets with the interval arithmetic, and states
what they should be second by second. Readings are only recorded when they come;
`Fold` is a step of its own, behind the clock by `RollupLag` and at any time after,
as the scheduler's ticker makes it, so a report may be made before, between and
after the folds of its period; periods are any, ended or not.

## 3. Runs

Ten runs pass; two show a disagreement (section 6). Deadlock is checked in all of
them.

| Run | Asks | Instance |
|---|---|---|
| `fleet_polls` | Do polls of one enclave overlap or lose updates? Is every quarantine grounded, every release of the monitor's own? | 1 enclave, 2 callers (symmetric), 9 results, 3 configs, operator, lost answers, failed writes, restarts; 1.4 M states |
| `fleet_settles` | Is a sick enclave held, a clean one released? | 1 enclave, 1 caller, operator and failing writes, a list that lands late; 31 k |
| `alerts_change` | Do alerts alternate, is silence alerted on, is the alert taken back from a runtime that answers again, is one with the config cleared? | 1 runtime, 13 results, config gained and lost, failed writes, restarts; 72 k |
| `seq_record` | Is a number recorded once, is every floor above the record, is the time near the truth? | 2 enclaves (symmetric), 3 servers of which one lies, restarts; 366 k |
| `life_shutdown` | Does shutdown end, with nothing written after the record closes and every receipt honoured? Which loops run, and does any before the mark is read? | 2 configure requests at once, 2 configurations, 2 loops, 1 report, a server that fails; 260 k |
| `fold_readings` | Does every bucket count what it should and stay as written, are edges read to the minute, is everything folded? | 1 monitor, two-minute hours, late and dropped ticks, a reading by hand, prunes, restarts; 111 k |
| `detect` | Are states declared by runs, does a component follow its monitors, do alerts tell its state, do the monitor's incidents end with the outage, are people's left alone? | 2 monitors of 2 components with ids web and web2, majority and any, a rule amended, a monitor turned off or moved, first readings at any time, errors, windows, flap damping, 2 incidents (symmetric); 139 k |
| `reports` | Is every figure the one counted by seconds, is an objective met only on evidence, is reported downtime ever taken back? | 3 monitors on 2 components, one under majority and one under any, errors, gaps, split schedule, folds at any time, 1 window, 1 report on one of 3 periods, 3 objectives, an hour of 3 minutes; 48 k |
| `ledger` | Are the rows what the record replays to? Does evidence check, does a rollback show, does the ledger implement the register? | 2 keys, 5 requests of which 2 are refused, 6 versions, 1 copy put back, 1 checkpoint and 2 roots served at a time; 291 k |
| `watch` | Is a verdict honest, does a reading name its definition, does a value leave only where it is bound, is none recorded? | 1 monitor, 3 definitions (HTTP with a redirect and a credential in two places, browser, cleanup with checks before any request and not valid), 1 credential put twice, 3 requests, 1 fault or stop; 878 k |
| `fold_downtime` | Is downtime in a folded hour in the evidence? It is not. | as `fold_readings`, `RollupLag = 1` |
| `watch_reseeds` | Does a configure request keep watching what is watched? It does not. | as `watch`, 2 configure requests and no fault |

### Why the bounds are enough

* Two callers show every overlap of the mutex; a third only waits. One enclave
  suffices for TLC because enclaves share no state but the list, which lands
  whole; the proofs drop both bounds. Vaults are covered by the proofs and by the
  rules of ClockAlerts, not by `fleet_polls`.
* The nine results are one for each branch of Decide that leads to a different
  operation. The rest (a foreign key, no clock, a garbled answer, a failure on
  the monitor's side) are in `alerts_change`, where they do tell outcomes apart.
* Two numbers and two enclaves make a number be dropped, recorded late and
  restored. The three servers are the smallest pool with a liar and an agreeing
  honest pair; `LiarError` exceeds what agreement can hide.
* Two configure requests with two loops make one replace the handle of the other's
  loop, and one start its rounds while the other reads the mark; a third loop adds
  states, not cases, and the proofs drop the bound.
* An hour of two minutes is the smallest in which the last minute is folded with
  the hour; six seconds give two hours after the first. `RollupLag` is 0 in the
  passing run, which a configuration may set, and 1 in `fold_downtime`.
* A failure threshold of two tells a run from a single reading. A flap threshold of
  one makes the second change damped within the time explored. The id web is part of
  web2, so an outage of web meets the incident of web2. One act of a person at most
  (an amendment, an incident opened, resolved or reopened); the proofs drop the bound.
* Three minutes, of one hour, with a window of every length and place give each way
  a window can cut an hour, an outage and a report, and a report issued before the
  hour is folded and read again after it. One monitor of the component under majority
  fails or errs while the other answers or is silent, so each of down, outvoted, not
  observed and observed by one only happens. `RollupLag` is 0, and the fold may come at
  any time after it; the periods are the hour and one cut short at either end, over or
  still running. The proofs drop all of these bounds.
* Two incidents give a second outage an incident of its own beside one a person
  opened, reopened or resolved; the proofs drop the bound.
* Six versions are the schema (three commits) and three transactions: enough for
  a copy to be taken, put back, and grown again to and past a version the
  customer holds. One checkpoint served at a time makes the customer keep gaps;
  `Reclaims` are a version before and one at a checkpoint; with two roots served at
  once the widest range is refused. The proofs drop all of these.
* Two values of one credential make a replaced value meet a step that read the
  entry of the first, or that has the first in its body and the second in a header; three requests and one fault let a definition be amended
  or the instance configured during a journey that is cut short. `ShortValues`
  has the second value too short for the redactor. Two versions of a monitor
  suffice to tell the version a reading names from another.

### Fairness

* **ClockFleet.** A ticker keeps rounds coming (weak fairness of the list and of
  `PollCalled`); every call has a timeout (`PollTimeout`, `listTimeout`); a Go
  mutex does not starve a waiter (strong fairness of `PollSends`). Strong
  fairness of recording, of the control plane and of the list says that none
  refuses every time: while one does, nothing can be promised.
* **ClockAlerts.** The same for rounds; strong fairness of each transaction, so
  that restarts and failed writes may happen forever but not always before the
  same step.
* **ClockLifecycle.** Only: a write that began ends, Shutdown's own steps are
  taken, its timer fires, main closes the record. Nothing is assumed of
  background work or of a round, which is the point of `ShutdownEnds`.
* **Readings.** Time passes and journeys end (their context has a limit). `Fold`
  is strongly fair because `select` chooses at random among ready cases.

## 4. Proofs

Checked by TLAPS for all values of the constants that satisfy the assumptions
of the modules (`FleetAssumption`, `FailedPollsCapAssumption`, `SeqAssumption`,
`SourceAssumption`, `LifecycleAssumption`, `WidthAssumption`,
`ReadingsAssumption`, `DetectionAssumption`, `LedgerAssumption`,
`AlertsAssumption`, `CatalogueAssumption`, `WatchAssumption`, `PPMAssumption`,
`ReportsAssumption`), all of which TLC
evaluates too. Some theorems have a hypothesis of their own, named with them.

**ClockFleetProofs.** `TypeCorrect`: `Spec => []TypeOK`. The four properties of
`fleet_polls` are not inductive; `InvariantHolds` proves the strengthening `IInv`,
which per enclave (`Good(e)`) adds that whoever is inside a poll holds the mutex,
that until it records the position it read is still the recorded one, that
afterwards its copy carries what it is about to record, and that a recorded
quarantine is the last recorded action. The first makes the second inductive: no
one else can write the row. The fourth gives `ReleaseOnlyOurs`, since `advance`
only ever clears the flag. A frame lemma (`Frame`) disposes of the other
enclaves, lemmas on `Decide` and `advance` of the rules. From it follow
`NoOverlap`, `PositionCurrent`, `QuarantineOnGrounds` and `ReleaseOfOurs`, for any
number of enclaves, vaults and callers and any results, with every kind of
failure switched on or off.

**ClockSeqProofs.** `ReadingsApart` (`RecordedOnce`) and `SignsAbove`
(`SignsAboveRecord`), for any number of enclaves, servers and restarts, from
`SeqInv`: a floor under way carries a number of its own that is not in the record
(`Fresh`), the counter is at or above all of both once the mark is read, and
before that there is no trusted time, so no floor. The lemma `HighestBounds`
shows that the restored mark bounds the record. Both theorems assume
`~ReadsFail`: with an unreadable mark they are false (section 6).
`TrustedTime` (`TimeNearTruth`): of two answers that agree at least one is an
honest server's, so their mean is within the honest error and half the agreement of
the truth. The proof showed that the half must be rounded up: `agreeing` adds half the
difference to the first answer, and with an odd difference the mean may be one
further from the honest answer than half the agreement rounded down.

**ClockLifecycleProofs.** `ClosedUnwritten` (`NoWriteAfterClose`) from `LetGo`
(once `gone` is set no write is under way, and the record closes after that), and
`ReceiptsHonoured` (`ReceiptsDealtWith`) from `Shape` and `Waited` (the background
is waited for only once `closing` is set, so it cannot grow again), for any
number of configure requests, loops and reports. `OneLoopRuns` (`LoopsMatchConfig`)
and `RestoredBeforeRounds` (`RoundsAfterRestore`) assume `OneAtATime`, that
configure requests do not overlap; with two at once both are false (section 6). Their
invariant ties what a request under way has stopped, read and is about to install to
the loops there are.

**ClockFleetProofs, on alerts.** `NoAlertTwice` (`AlertsAlternate`) and `LastAlertStands`
(`StandingIsLastAlert`), for any number of runtimes, results, failed writes and
restarts. Neither is inductive: an alert decided on is recorded by a later
transaction. `Good(e)` adds that a decided alert differs from the last one said,
which the serialisation of polls keeps true until it is recorded. The module takes
the steps of `ClockAlerts` with `INSTANCE`, with a poll variable of their own, and
`AlertRecord`, which states the properties, with `EXTENDS`; nothing ties the runtimes
to the enclaves of the theorems above.

**ReadingsProofs.** `ReadingsAccounted` (`AccountedFor`) and `BucketsStay`
(`BucketsFinal`), for any monitors, intervals, widths, lag, limits and readings.
The invariant adds that every scheduled reading is earlier than the tick that
waits and the one that runs (so no tick records a reading of a time already
counted), that watermarks are at the beginning of an interval, that what was
removed or came late is below the first, and that every bucket is below its own.
`FloorSplits` (an interval's beginning keeps apart what falls before and after it)
makes the folds of two periods disjoint, `FoldsApart` makes them add up, and
`FoldAdds` shows that an upsert never meets a row that exists. `EdgesShown`
(`EdgesExact`) follows: a minute and the times in it are of one hour (`SameHour`, which
needs the hour to be whole minutes), so the minute's bucket is in the evidence; a
monitor has one bucket of that minute (`OneMinute`, from `AccountedFor`), and it is
finer than the hour's.

**DetectionProofs.** `DeclaredByThreshold` (`DeclaredByRun`), `IncidentsEnd`
(`AutoIncidentsEnd`), `HumanIncidentsLeft` (`HumanIncidentsStay`) and
`AlertsTellTrue` (`AlertsTell`), for any monitors, components, incidents, rollup
rules, thresholds and windows. `RunInv` says that a monitor's count never exceeds
the run there really was; an error makes it smaller, never larger. `Linked` and
`OnOne` say that a component with an incident is down and named by it, and that
an incident of the monitor's own is on one component: so when it comes back, it
is the one the incident waited for. `RollupExact` (`RollupHolds`) assumes that every
component's rule is any; under majority it is false (section 6). Its invariant,
`RollInv`, covers components no monitor of which was ever seen: a monitor is up until
it is seen, so a component that is not rolled up again had no monitor change.

**LedgerProofs.** `ChainHolds`: every checkpoint, stored, copied or in a customer's
hands, is of a history and names an earlier checkpoint of the same history
(`Anchored`, `Genuine`). From it `RollbackDetected` (`RollbackShows`): suppose a
customer's chain checks and reaches what it holds, and some held checkpoint is
not of the record; take the lowest checkpoint of the chain that is of the record
with one below it that is not; its link names a state of the record's past, which
contradicts. The induction along the chain is by such a least counterexample
(`LeastNat`), since induction schemes are out of the prover's reach.
`ReplayExact` (`ReplayHolds`) and `EvidenceExact` (`EvidenceHolds`) rest on what
`RowsAfter` computes: that the recursive function exists, that a step of the record is
a step of it, and that a shorter record gives a prefix of it, each by a least
counterexample; the invariant adds that a copy's rows, and a bundle's, are the replay of
their own record. `LineageDecides` (`LineageHolds`): folding the roots between two
checkpoints gives the later one's head exactly when the earlier is of its past, since
a head is that of one history only (`Headed`); `Covered` says that the roots after the
latest checkpoint are still there.
`LedgerImplementsRegister`: initial states map to initial states, and every
step to a step of the register or a stutter, for all values of the constants.

**WatchProofs.** `ValuesStayBound` (`ValueLeavesBound`), `ReadingsNamed`
(`ReadingNamesItsDefinition`) and `NothingRecorded` (`NoCredentialRecorded`), for
any credentials, bindings, definitions, requests, faults and stops. The invariant
has a part per component. `VaultInv`: an entry, in memory or on disk, is of a value
put for its name and hosts, and a file is sealed under the key made for its value
and not reported gone; hence an old entry cannot open a new file. `CatalogueInv`:
versions of a monitor only grow, and the row and the scheduler's copy name one of
them. `RunInv`: the journey under way names a definition of its monitor's, an entry
it read is for the host of the step at hand, and every credential it used is
known to its redactor or too short. `SentInv` and `LastInv` carry this to what was
sent and recorded. `VerdictsHonest` (`VerdictHonest`) has an invariant of its own,
`FairInv`: the journey's class is the blame so far (`Blamed`, `Standing`), every step
passed ran as long as nobody is to blame, and every cleanup step passed ran whoever is
(`Fair`). It needs the order of the steps: `SplitIs` and `OrderedIs` show, by a least
counterexample again, that the recursive split puts exactly the cleanup steps last.
`CatalogueAssumption` (a definition's steps are a list of steps) is used here only.

**ReportsProofs.** The figures of a report, for any monitors, components, rules,
weights, agreed service time, windows and readings, and hours of any number of
minutes. The argument goes from lists to seconds in five steps.

1. *Arithmetic.* `MergeCovers`, `IntersectCovers` and `SubtractCovers` say which seconds
   the results cover, and that they are normalised; `TotalCounts` that a total is their number and `OutagesCount` that
   the length of a normalised list is the number of seconds an outage begins at. The
   loops are recursive functions over a sorted list. Each has a loop invariant on how
   far the list is read, shown for every index by a least counterexample (`LeastNat`),
   since induction schemes are out of the prover's reach. That `Sorted` lists every
   interval once and in order is shown from the number of intervals before each.
2. *Series.* `SeriesExact`: no boundary of a segment falls inside a step of the sweep,
   so a segment speaks for all of a step or none; the segments of one monitor never
   overlap, so counting segments is counting monitors (a bijection); and a segment on a
   second is of the finest bucket there. It needs only that no monitor has two buckets
   of one width and overlapping times (`Tidy`).
3. *Invariant.* `ReportsSound` proves `IInv`: the buckets are `Tidy`, end by now, and the
   hours begin where an hour begins; windows are typed; and `ReportStands`, what the
   last report said was downtime is so now. The first two make the folded hour a new
   bucket that meets no other hour, so `Tidy` is kept. `ReportStands` is kept by a
   declaration because a window that is excluded begins after now, hence after the
   period; by a cancellation because it only adds seconds that count; by a fold because
   minutes stay finer than the hour, and an hour folded later than the report lies
   after its period, or, under the rule any, can only add.
4. *Figures.* `FiguresAgree` (`FiguresExact`) and `DowntimeStays` (`ReportedStays`) follow.
5. *Ratios.* `RatioRounds`: within half a part, when the product fits. From it
   `ObjectivesHonest` (`MetHonestly`) and `UserFigureHolds` (`UserFigureExact`), each with a
   hypothesis on the size of the integers: `SecondsFit`, that twice a million times the
   seconds of the period, and the seconds, fit, and `UsersFit`, the same of the seconds
   of all users. In 64 bits the first holds for any period under 146,000 years; the second
   is the limit of 4.6e12 user-seconds of section 6, beyond which the property is
   false. The sums over components are compared by a least counterexample too.

## 5. Model-checked only

Liveness (`SickEnclaveHeld`, `CleanEnclaveReleased`, `SilentRuntimeAlerted`,
`ArmedRuntimeCleared`, `ShutdownEnds`, `FoldedInTheEnd`), because it rests on
fairness and ENABLED, which this prover does not handle. Every safety property of a
passing run has a theorem. `IntervalsExact` in `MCReports` compares Merge, Intersect,
Subtract and Total with sets of seconds on every pair of lists of two intervals, as the
proofs do for all lists.

What the properties do not cover. `ValueLeavesBound` is about the host a step names:
what the HTTP library forwards when it follows a redirect is outside it.
`NoCredentialRecorded` leaves out values under four characters, as the redactor
does. `RollbackShows` speaks of chains that reach what is held: until the record
has grown to that version again, the customer sees a chain that ends too early.

## 6. Where the code and its comments disagree

Two have a run of their own. The others are stated as definitions at the end of
the modules, or as a property with another constant, or are exceptions a
property makes; the last column says what to change in a configuration to see
TLC refute them, or where in the model to look.

| Source | Claim | What the model shows | To see it |
|---|---|---|---|
| `internal/clock/service.go:146` | :120 "Apply starts, reconfigures or stops the service to match cfg." | Two configure requests at once both install a loop; the first can never be cancelled. | `LoopsMatchConfig` in `ClockLifecycle.cfg`, `Appliers = {a1, a2}` |
| `internal/core/reports.go:293`, `samples.go:152` | reports.go:272 "exactly what a minute-by-minute computation would give" | The hour is folded before its last minutes are written, so its bucket does not know of them, and evidence does not look into an hour that seems up. | run `fold_downtime` |
| `samples.go:152` | :334 "An hour is down if any minute inside it was" | Same cause. | `HourDown` in `Readings_downtime.cfg` |
| `internal/availability/compute.go:216` | reports.go:324 "anything still missing is a coverage gap and is reported as one" | An hour bucket speaks for minutes without readings. | `GapsReported` there |
| `internal/core/retention.go:58` | :54 "Only readings that have been folded are removed." | A reading recorded below the watermark is never folded, then removed. | `RemovedWereFolded` there |
| `service.go:552` | model/clock.go:149 "Quarantined is true while a quarantine this monitor asked for is in force." | A list fetched before the quarantine lands after it; the next poll records it as lifted. | `QuarantinedWhileInForce` in `ClockFleet_settles.cfg`, `OperatorActs = FALSE` |
| `service.go:686` | the same | A quarantine that took effect and whose answer was lost is recorded as refused. | the same, `AnswersLost = TRUE` |
| `service.go:552` | decide.go:39 "One an operator placed is theirs to lift." | An operator replaces the monitor's quarantine between two lists; the next clean reading lifts it. | `OperatorQuarantineKept` in `ClockFleet_settles.cfg` |
| `service.go:574` | :571 "Both are raised on the transition, not on every reading." | The blame alert is raised on every such answer. | `BlameOnTransition` in `ClockAlerts.cfg` |
| `service.go:582` | docs/platform-clock.md:253 "That is reported once" | A stop between recording a missing key and alerting on it loses the alert. | `MissingKeyReported` in `ClockAlerts.cfg` |
| `service.go:391` | :178 "a restart never reuses a sequence number" | Floors signed and not recorded are reused. | `NeverReused` in `ClockSeq.cfg` |
| `service.go:198` | :178 "never believes a time earlier than one it already signed" | The floor is the latest recorded time, not the latest signed. | `NeverBackwards` in `ClockSeq.cfg` |
| `service.go:189` | :178 as above | When the mark cannot be read the counter starts at zero for good. | `RecordedOnce` in `ClockSeq.cfg`, `ReadsFail = TRUE` |
| `service.go:183` | :178 as above | Of two configure requests at once the second starts rounds while the first reads the mark. | `RoundsAfterRestore` in `ClockLifecycle.cfg`, `Appliers = {a1, a2}` |
| `service.go:139` | shutdown.go:66 "Shutdown stops the clock for good" | An Apply that looked at `closing` in time starts its loop after Shutdown returned. | `StoppedForGood` in `ClockLifecycle.cfg` |
| `detect.go:118` | model/domain.go:42 majority: "down when more than half are down" | A first reading that is up does not roll its component up again. | `RollupHolds` in `Detection.cfg` under majority, m2 answering up |
| `catalogue.go:333` | detect.go:182 "recomputes a component's state from its monitors" | Turning a monitor off rolls nothing up; `RollupHolds` leaves such components out (`switched`). | `RollupHolds` without `switched` |
| `detect.go:154` | :150 "the run of whatever came before is left intact" | The error replaces the last reading, so the next failure starts a run of one. | `consecutive` and `advanceMonitor`, by inspection |
| `detect.go:157` | docs/packs.md:79 "consecutive passes before it is up again" | Up and degraded alternate and never make a run. | the same |
| `detect.go:211` | :27 "nor lets it look up" | A monitor that had only errors is counted as up (`Since` is never 0). | `advanceMonitor` sets `seen` on an error |
| `detect.go:335` | :58 "announced once as flapping and then left alone" | A change in a window at the exact threshold is never announced. | the alert is not modelled; by inspection |
| `maintenance.go:72` | docs/availability.md:85 monitoring_fault: "Excluded from the availability numerator" | Only planned maintenance is ever applied. | `FaultsLeftOut` in `Reports.cfg`, `Classes = {"monitoring_fault"}` |
| `compute.go:216`, `reports.go:293` | no comment claims it, but two reports on one period are taken to agree | A report on a period that ends inside an hour, under majority or all, names a second as downtime; once the hour is folded, the hour's bucket of a monitor that was silent in that minute speaks for it and outvotes the one that was down, so a later report on the same period leaves the second out. | `ReportedStays` in `Reports.cfg` without its first condition |
| `interval.go:140` | docs/availability.md:65 the user-weighted formula | The product wraps beyond 4.6e12 user-seconds. | `UserFigureExact` in `Reports.cfg`, `IntMax = 1023` |
| `configure.go:294`, `catalogue.go:256` | cmd/monitor/main.go:166 "Start watching what was just configured" | SeedPack leaves Enabled unset and UpsertMonitor turns only a new monitor on: the same pack configured again turns its monitors off. | run `watch_reseeds` |
| `internal/journey/engine.go:477`, `cmd/monitor/main.go:195` | model/domain.go:20 "never counted as downtime of the watched service" | A stop cancels the context of a request; the reading says timeout, hence down. | `VerdictHonest` without `ours`; `Request` with class "cut" |
| `engine.go:438`, `engine.go:499` | the same | A redirect the allowlist refuses is told as a failure to connect, hence down. | the same, class "redirect" |
| `engine.go` (sleep), `browser_engine.go` (screenshot) | the same | A wait past the journey's limit, a picture that cannot be measured and a malformed baseline count as down. | the same, `Sleep`, `Unusable` |
| `browser_engine.go` | model/domain.go:186 "Cleanup steps run even when an earlier step failed" | The flag is ignored in browser journeys. | `CleansUp` |
| `samples.go:485` | :484 "the set of hosts this instance may contact is always exactly the set somebody signed a transaction to declare" | Turning a monitor off, amending the service or a failed Configure leaves the old list; of two rebuilds at once the older may win. | `RefreshRead`, `RefreshInstall`, `SwitchMonitor`, `AmendService` |
| `internal/webhook/webhook.go:192` | :192 "The callback host is on the allowlist by construction" | UpsertService does not rebuild the list. | `AmendService` |
| `internal/core/configure.go:149` | :142 and the order of the transactions after it | The configuration is in force in memory before it is recorded; when a transaction fails it stays so until a restart. | `Configure`, `ConfigureFails`, `LoadConfig` |
| `internal/secrets/vault.go:113` | Put | A stop between the file and the keyring leaves a credential that does not open until it is put again. | `PutFile`, then `Restart`, then `CannotOpen` |
| `internal/core/credentials.go` | DestroySecret | Beside a PutSecret of the same name, the record may end with "destroyed" for a credential in use. | `RecordSecret` in either order |
| `engine.go` (extract) | redact.go | A value an extraction marks secret is registered only after the step's checks pass. | not modelled; by inspection |
| `internal/store/schema.go:568` | :555 "Migrate creates any base table that does not exist yet." | A stop after a table and before its indexes leaves the indexes out for good. | `Migrate`: `Missing` looks at tables only |
| `cmd/monitor-verify/main.go` | verifyLineage | Between anchors of equal version only the heads are compared; verifyChain takes each checkpoint to be listed once. | `LineageHolds` speaks of different versions, `held` is a set |
| `webhook.go:142` | docs on delivery | A full queue drops an alert, a restart loses the queue; nothing of it is in the record. | not modelled |

## 7. Plan

Done, in order of importance: ClockDecide and ClockFleet, ClockSeq and TimeSource,
ClockLifecycle, ClockAlerts, Folding and Readings, Detection, Ledger and Register,
Vault, Catalogue, Journey and Watch, Intervals and Reports, all with proofs.

Left, broadest first:

1. Delivery of alerts (`internal/webhook`): the bounded queue, eight at a time,
   five attempts, rows of every attempt, restarts; composed with the alerts of
   Detection.
2. The limit on incident reports (`ratelimit.go`): what a token bucket admits in
   any minute, stated as an abstract specification the bucket implements.
3. The scheduler's slots: which slots a monitor may miss under slow journeys.
4. Baselines: approval and comparison as a protocol between people and journeys.
5. Several journeys at once in Watch (the code runs a bounded number); the
   properties are per journey, and journeys share nothing but the vault's lock and
   the renderer.
6. A specification of the quarantine service without lists, locks and polls, and
   ClockFleet shown to implement the part of it that the code keeps.

## 8. Not modelled, and why

* Signatures, hashes, canonical encoding, key files, sealing and Merkle proofs:
  cryptography and encodings whose correctness is not a matter of interleaving.
  Floors, checkpoints and evidence are taken to bind what they sign, a root to
  stand for the commits up to it, a sealed file to open under its key only.
* What an assertion compares, paths into documents, and what a renderer does: the
  result of each is an outcome of a step.
* Pixel comparison and stored captures: single-row operations without a protocol.
* Routing, decoding, roles, pages and read-only queries: no state that changes, or
  decoding in front of an operation that is modelled. The order of effects in the
  handlers that change the service model is in Catalogue.
* Validation of definitions, packs and configure requests: what is refused changes
  nothing.
* Alert delivery and the limit on incident reports: section 7.
* Schedules and periods in time zones: calendar arithmetic; `Reports` takes agreed
  service time as a constant.
* MTBF, MTRS, latency objectives and credits: single divisions of figures that
  are modelled.
