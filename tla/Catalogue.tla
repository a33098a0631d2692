----------------------------- MODULE Catalogue -----------------------------
(***************************************************************************)
(* The service model and the configuration (core/catalogue.go,             *)
(* core/configure.go, pack/pack.go), the outbound allowlist built from     *)
(* them (refreshEgress in core/samples.go, journey/egress.go), and the     *)
(* scheduler's own copy of the monitors (Reload in probe/scheduler.go).    *)
(*                                                                         *)
(* Every transaction is one step.  refreshEgress reads the rows in one     *)
(* step and replaces the list in another, after the lock is let go; a      *)
(* configure request is a sequence of transactions, any of which may fail  *)
(* and end it.  There is one service, and one configure request at a time. *)
(***************************************************************************)
EXTENDS Integers, Sequences, FiniteSets, FiniteSetsExt, SequencesExt

CONSTANTS
    Monitors,       \* the monitors, by name
    ComponentOf,    \* the component of each
    Objectives,     \* the pack's objectives
    PackDefinition, \* the definition the pack gives each monitor
    Definitions,    \* definitions people give a monitor
    Callbacks,      \* callback hosts people give the service
    Requests        \* configure requests: callback and its hosts, renderer, whether with the pack

\* A definition is an engine and the steps of a journey.
StepKinds == {"http", "page", "sleep", "assert"}
ASSUME CatalogueAssumption ==
    \A d \in Definitions \cup {PackDefinition[m] : m \in Monitors} :
        d.steps \in Seq([kind : StepKinds, host : STRING, uses : STRING, places : Nat,
                         renders : BOOLEAN, valid : BOOLEAN, follows : BOOLEAN, cleanup : BOOLEAN])

VARIABLES
    record,         \* the rows: configuration, service, schedule, components, monitors...
    config,         \* the configuration in memory
    configured,     \* the instance is configured
    allow,          \* the outbound allowlist
    browser,        \* the journey engine has a renderer
    sched,          \* the scheduler's copy of the monitors
    conf,           \* the transactions the configure request in progress still has to make
    refresh         \* the allowlist rebuilt by a request: due, or read and not yet in place

catalogueVars == <<record, config, configured, allow, browser, sched, conf, refresh>>

Callers == {"configure", "request"}

NoConfig == [hosts |-> {}, renderer |-> FALSE, found |-> FALSE]
NoMonitor == [version |-> 0, enabled |-> FALSE, definition |-> [engine |-> "none", steps |-> <<>>]]
Idle == [at |-> "idle", hosts |-> {}]

-----------------------------------------------------------------------------
(* The rows after an upsert.                                               *)

\* UpsertService: an agreed service time of its own, around the clock, when it has none.
UpsertService(r, callback) ==
    [r EXCEPT !.service = TRUE, !.callback = callback,
              !.schedule = IF @ = "none" THEN "always" ELSE @]

UpsertSchedule(r) == [r EXCEPT !.schedule = "agreed"]
UpsertComponent(r, c) == [r EXCEPT !.components = @ \cup {c}]
UpsertObjective(r, o) == [r EXCEPT !.objectives = @ \cup {o}]

\* Mutant: the definition is amended in place.
Mut_UpsertMonitor(r, m, definition, enabled) ==
    [r EXCEPT !.monitors[m] = [version |-> Max({@.version, 1}), enabled |-> @.version = 0 \/ enabled,
                               definition |-> definition],
              !.versions[m] = <<definition>>]

\* UpsertMonitor: a new version, the old ones kept; a new monitor is on, another is
\* as the request says.
UpsertMonitor(r, m, definition, enabled) ==
    [r EXCEPT !.monitors[m] = [version |-> @.version + 1, enabled |-> @.version = 0 \/ enabled,
                               definition |-> definition],
              !.versions[m] = Append(@, definition)]

SetMonitorEnabled(r, m, enabled) == [r EXCEPT !.monitors[m].enabled = enabled]

-----------------------------------------------------------------------------
(* The allowlist.                                                          *)

\* Steps with a host of their own; one that is a placeholder cannot be declared.
HostsOf(definition) == {s.host : s \in ToSet(definition.steps)} \ {""}

\* What the configuration, the monitors that are on and the service's callback declare.
Declared(r, c) ==
    c.hosts \cup ({r.callback} \ {""})
    \cup UNION {HostsOf(r.monitors[m].definition) : m \in {k \in Monitors : r.monitors[k].enabled}}

\* refreshEgress: read under the store's lock.
RefreshRead(a) ==
    /\ refresh[a].at = "due"
    /\ refresh' = [refresh EXCEPT ![a] = [at |-> "read", hosts |-> Declared(record, config)]]
    /\ UNCHANGED <<record, config, configured, allow, browser, sched, conf>>

\* Replace, outside it; a monitor's request then has the scheduler read the monitors again.
RefreshInstall(a) ==
    /\ refresh[a].at = "read"
    /\ allow' = refresh[a].hosts
    /\ refresh' = [refresh EXCEPT ![a] = Idle]
    /\ sched' = IF a = "request" THEN record.monitors ELSE sched
    /\ UNCHANGED <<record, config, configured, browser, conf>>

Due(a) == [refresh EXCEPT ![a] = [at |-> "due", hosts |-> {}]]

-----------------------------------------------------------------------------
(* Requests.                                                               *)

Calm(a) == refresh[a].at = "idle"

\* The service, its schedule, a component or an objective amended: no new allowlist.
AmendService ==
    /\ Calm("request") /\ record.service
    /\ \/ \E h \in Callbacks : record' = UpsertService(record, h)
       \/ record' = UpsertSchedule(record)
    /\ UNCHANGED <<config, configured, allow, browser, sched, conf, refresh>>

\* A monitor given a new definition: only on a component there is.
AmendMonitor(m, definition, enabled) ==
    /\ Calm("request") /\ ComponentOf[m] \in record.components
    /\ record' = UpsertMonitor(record, m, definition, enabled)
    /\ refresh' = Due("request")
    /\ UNCHANGED <<config, configured, allow, browser, sched, conf>>

\* A monitor turned on or off: the scheduler knows at once, the allowlist does not.
SwitchMonitor(m, enabled) ==
    /\ Calm("request") /\ record.monitors[m] # NoMonitor
    /\ record' = SetMonitorEnabled(record, m, enabled)
    /\ sched' = record'.monitors
    /\ UNCHANGED <<config, configured, allow, browser, conf, refresh>>

\* The scheduler's own reload, on its timer.
Reload ==
    /\ sched' = record.monitors
    /\ UNCHANGED <<record, config, configured, allow, browser, conf, refresh>>

-----------------------------------------------------------------------------
(* Configure.                                                              *)

Stage(op, arg) == <<[op |-> op, arg |-> arg]>>
Each(op, S) == LET seq == SetToSeq(S) IN [i \in DOMAIN seq |-> [op |-> op, arg |-> seq[i]]]

\* SeedPack: what a pack brings into being, in its order.
SeedPack(callback) ==
    Stage("service", callback) \o Stage("schedule", "")
    \o Each("component", {ComponentOf[m] : m \in Monitors})
    \o Each("monitor", Monitors) \o Each("objective", Objectives)

\* Configure: the request is in force in memory before any of it is recorded.
Configure(req) ==
    /\ conf = <<>> /\ Calm("configure")
    /\ config' = [hosts |-> req.hosts \cup ({req.callback} \ {""}), renderer |-> req.renderer, found |-> TRUE]
    /\ conf' = Stage("config", "") \o (IF req.pack THEN SeedPack(req.callback) ELSE <<>>)
               \o Stage("ready", "") \o Stage("anchor", "")
    /\ UNCHANGED <<record, configured, allow, browser, sched, refresh>>

\* The rows after a transaction of the request; SeedPack leaves Enabled unset.
Seeded(r, stage) ==
    CASE stage.op = "config" -> [r EXCEPT !.config = config]
      [] stage.op = "service" -> UpsertService(r, stage.arg)
      [] stage.op = "schedule" -> UpsertSchedule(r)
      [] stage.op = "component" -> UpsertComponent(r, stage.arg)
      [] stage.op = "monitor" -> UpsertMonitor(r, stage.arg, PackDefinition[stage.arg], FALSE)
      [] stage.op = "objective" -> UpsertObjective(r, stage.arg)
      [] OTHER -> r

\* The next transaction of the request.  The last of them is followed by the
\* scheduler's reload.
ConfigureNext ==
    /\ conf # <<>> /\ Calm("configure")
    /\ LET stage == Head(conf)
           ready == stage.op = "ready"
       IN  /\ record' = Seeded(record, stage)
           /\ refresh' = IF ready \/ stage.op = "monitor" THEN Due("configure") ELSE refresh
           /\ configured' = (configured \/ ready)
           /\ browser' = IF ready THEN config.renderer ELSE browser
           /\ sched' = IF stage.op = "anchor" THEN record.monitors ELSE sched
    /\ conf' = Tail(conf)
    /\ UNCHANGED <<config, allow>>

\* One of them fails, and the request with it.
ConfigureFails ==
    /\ conf # <<>> /\ Calm("configure") /\ Head(conf).op # "ready"
    /\ conf' = <<>>
    /\ UNCHANGED <<record, config, configured, allow, browser, sched, refresh>>

\* LoadConfig, at the start: what the record holds, and the scheduler's first reload.
LoadConfig ==
    /\ config' = record.config
    /\ configured' = record.config.found
    /\ allow' = IF record.config.found THEN Declared(record, record.config) ELSE {}
    /\ browser' = record.config.renderer
    /\ sched' = record.monitors
    /\ conf' = <<>> /\ refresh' = [a \in Callers |-> Idle]
    /\ UNCHANGED record

InitCatalogue ==
    /\ record = [config |-> NoConfig, service |-> FALSE, callback |-> "", schedule |-> "none",
                 components |-> {}, objectives |-> {},
                 monitors |-> [m \in Monitors |-> NoMonitor],
                 versions |-> [m \in Monitors |-> <<>>]]
    /\ config = NoConfig /\ configured = FALSE /\ allow = {} /\ browser = FALSE
    /\ sched = record.monitors /\ conf = <<>>
    /\ refresh = [a \in Callers |-> Idle]
=============================================================================
