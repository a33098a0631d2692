----------------------------- MODULE Detection ------------------------------
(***************************************************************************)
(* Detection and incidents (internal/core: detect, advanceMonitor,         *)
(* rollUpComponent, openAutoIncident, resolveAutoIncident in detect.go;    *)
(* OpenIncident and UpdateIncident in incidents.go; UpsertComponent,       *)
(* UpsertMonitor and SetMonitorEnabled in catalogue.go; reload in          *)
(* probe/scheduler.go).                                                    *)
(*                                                                         *)
(* A tick's readings move the states of their monitors; a monitor whose    *)
(* verdict changed has its component rolled up again, and a component that *)
(* changed opens or resolves an incident and raises alerts, all in one     *)
(* transaction.  People open and update incidents, and amend components    *)
(* and monitors, beside it.                                                *)
(***************************************************************************)
EXTENDS Integers, FiniteSets, FiniteSetsExt

CONSTANTS
    Monitors,
    Components,
    ComponentOf,        \* the component a monitor watches at first
    Rollup,             \* a component's rollup rule at first
    Like,               \* the components whose ids a component's own id is LIKE
    NoComponent,
    FailureThreshold,
    RecoveryThreshold,
    flapWindow,
    flapThreshold,
    Incidents,          \* bound: incidents that may be opened
    NoIncident,
    MaxTime,            \* bound on the time
    MaxActs,            \* bound on what people do
    Windows,            \* at each time, sets of components that may be under maintenance
    Switchable,         \* monitors that may be turned off and on
    Homes,              \* components a monitor may be amended to watch
    Rules,              \* rules a component may be amended to have
    Named,              \* sets of components a person may open an incident on
    Outcomes            \* verdicts a reading of a monitor may come to

Verdicts == {"up", "error", "degraded", "down"}

ASSUME DetectionAssumption ==
    /\ IsFiniteSet(Monitors) /\ ComponentOf \in [Monitors -> Components]
    /\ NoComponent \notin Components
    /\ Rollup \in [Components -> {"any", "all", "majority"}]
    /\ Like \in [Components -> SUBSET Components] /\ \A c \in Components : c \in Like[c]
    /\ FailureThreshold \in Nat \ {0} /\ RecoveryThreshold \in Nat \ {0}
    /\ flapWindow \in Nat /\ flapThreshold \in Nat /\ MaxTime \in Nat /\ MaxActs \in Nat
    /\ NoIncident \notin Incidents
    /\ Windows \in [(flapWindow + 1)..MaxTime -> SUBSET SUBSET Components] /\ Switchable \subseteq Monitors
    /\ Homes \in [Monitors -> SUBSET Components]
    /\ Rules \in [Components -> SUBSET {"any", "all", "majority"}]
    /\ Named \subseteq SUBSET Components
    /\ Outcomes \in [Monitors -> SUBSET Verdicts]

VARIABLES
    now,
    acts,           \* how often people did something
    enabled,        \* monitors turned on
    home,           \* the component a monitor watches
    rule,           \* the rollup rule of a component
    listed,         \* the component under which the scheduler runs a monitor, if it does
    mstate,         \* the states of monitors
    cstate,         \* the states of components
    incidents,      \* the incidents table
    told,           \* the last component.down or component.up alert of a component
    run,            \* the run of equal readings that errors do not break
    quiet,          \* the last change to or from down raised no alert
    flapTold,       \* flapping alerts of a component in this count of its flaps
    hushed,         \* the change that made it flap fell in a window
    byHand,         \* incidents a person opened or updated
    amended,        \* components whose rule or monitors were amended since they were
                    \* last rolled up, or whose monitor's reading named another one
    joined          \* components a monitor of which was read for the first time since

modelVars == <<enabled, home, rule>>
recordVars == <<mstate, cstate, incidents, told>>
historyVars == <<run, quiet, flapTold, hushed, byHand, amended, joined>>
vars == <<now, acts, modelVars, listed, recordVars, historyVars>>

\* Counts beyond these tell nothing apart.
MaxRun == Max({FailureThreshold, RecoveryThreshold})
MaxFlaps == flapThreshold + 2

\* Time starts late enough for the first change to begin a count of flaps.
Start == flapWindow + 1

\* A subject without a row is taken to be up.
NoMonitorState == [seen |-> FALSE, verdict |-> "up", raw |-> "none", consecutive |-> 0]
NoComponentState == [verdict |-> "up", flaps |-> 0, flapsSince |-> 0, incident |-> NoIncident]
Unused == [status |-> "unused", auto |-> FALSE, components |-> {}, opened |-> 0]

Init ==
    /\ now = Start /\ acts = 0 /\ enabled = Monitors
    /\ home = ComponentOf /\ rule = Rollup /\ listed = ComponentOf
    /\ mstate = [m \in Monitors |-> NoMonitorState]
    /\ cstate = [c \in Components |-> NoComponentState]
    /\ incidents = [i \in Incidents |-> Unused]
    /\ told = [c \in Components |-> "none"]
    /\ run = [m \in Monitors |-> [verdict |-> "none", n |-> 0]]
    /\ quiet = [c \in Components |-> FALSE]
    /\ flapTold = [c \in Components |-> 0] /\ hushed = [c \in Components |-> FALSE]
    /\ byHand = {} /\ amended = {} /\ joined = {}

-----------------------------------------------------------------------------
(* Monitors.                                                               *)

Capped(n, max) == Min({n, max})

\* Mutant: a change of reading does not begin a new run.
Mut_consecutive(st, v) == Capped(st.consecutive + 1, MaxRun)

\* The run of equal readings, with reading v.
consecutive(st, v) == IF st.raw = v THEN Capped(st.consecutive + 1, MaxRun) ELSE 1

\* advanceMonitor: an error is noted and moves nothing; a failure declares down,
\* and a pass up, at the threshold; anything else is taken as it is.
advanceMonitor(st, v) ==
    LET n == consecutive(st, v)
        holds == \/ st.verdict # "down" /\ v = "down" /\ n < FailureThreshold
                 \/ st.verdict = "down" /\ v # "down" /\ n < RecoveryThreshold
    IN  IF v = "error" THEN [st EXCEPT !.seen = TRUE, !.raw = "error"]
        ELSE [seen |-> TRUE, raw |-> v, consecutive |-> n,
              verdict |-> IF holds THEN st.verdict ELSE v]

-----------------------------------------------------------------------------
(* Components.                                                             *)

rank == [up |-> 0, error |-> 1, degraded |-> 2, down |-> 3]
Worst(V) == CHOOSE v \in V : \A w \in V : rank[w] <= rank[v]

\* The monitors a component is rolled up from: those turned on that have a state.
Counted(c, ms) == {m \in enabled : home[m] = c /\ ms[m].seen}

\* The rule takes so many monitors down, of those seen, as the component being down.
AllDown(r, down, seen) ==
    CASE r = "all" -> down = seen [] r = "majority" -> down * 2 > seen [] r = "any" -> down > 0

\* rollUpComponent: the verdict that rule r makes of the monitors seen; a down that
\* is not the rule's counts as degraded.
RollUp(r, seen, ms) ==
    LET down == {m \in seen : ms[m].verdict = "down"}
        worst == Worst({"up"} \cup {ms[m].verdict : m \in seen})
    IN  IF AllDown(r, Cardinality(down), Cardinality(seen)) THEN "down"
        ELSE IF worst = "down" THEN "degraded" ELSE worst

Rolled(c, ms) == RollUp(rule[c], Counted(c, ms), ms)

\* The count of flaps, with a change now.
NewCount(st) == now - st.flapsSince > flapWindow
Flaps(st) == IF NewCount(st) THEN 1 ELSE Capped(st.flaps + 1, MaxFlaps)

\* Mutant: a resolved incident counts as open.
Mut_OpenOn(c) ==
    LET open == {i \in Incidents : incidents[i].components \cap Like[c] # {}}
    IN  {i \in open : \A j \in open : incidents[j].opened <= incidents[i].opened}

\* The unresolved incidents opened last on the components whose ids match: the list of
\* ids in an incident's row is searched for the component's id as a substring.
OpenOn(c) ==
    LET open == {i \in Incidents :
                    incidents[i].status = "open" /\ incidents[i].components \cap Like[c] # {}}
    IN  {i \in open : \A j \in open : incidents[j].opened <= incidents[i].opened}

Free == {i \in Incidents : incidents[i].status = "unused"}

\* openAutoIncident: a component going down is given the incident open on it, or a
\* new one of its own.
Given(D) ==
    {f \in [D -> Incidents] :
        /\ \A c \in D : f[c] \in IF OpenOn(c) # {} THEN OpenOn(c) ELSE Free
        /\ \A c, d \in D : c # d /\ f[c] = f[d] => OpenOn(c) # {}}

\* Mutant: the incident of a component that is back is resolved whoever opened it.
Mut_Resolves(i) == i # NoIncident /\ incidents[i].status = "open"

\* resolveAutoIncident: only an incident the monitor opened.
Resolves(i) == i # NoIncident /\ incidents[i].auto /\ incidents[i].status = "open"

\* Mutant: a component that came back degraded raises no alert.
Mut_Event(old, new) ==
    IF new = "down" THEN "down" ELSE IF old = "down" /\ new = "up" THEN "up" ELSE "none"

\* The alert a change calls for.
Event(old, new) == IF new = "down" THEN "down" ELSE IF old = "down" THEN "up" ELSE "none"

-----------------------------------------------------------------------------
(* A tick.                                                                 *)

\* What the readings were, for the properties.
Remember(v) ==
    /\ run' = [m \in Monitors |->
          IF m \notin DOMAIN v \/ v[m] = "error" THEN run[m]
          ELSE [verdict |-> v[m], n |-> IF run[m].verdict = v[m] THEN Capped(run[m].n + 1, MaxRun) ELSE 1]]

\* rollUpComponent, for the components that change to the verdicts of new, with
\* given the incidents of those that go down and W under maintenance.
Change(new, given, W) ==
    LET C == DOMAIN new
        flapping(c) == Flaps(cstate[c]) > flapThreshold
        silent(c) == c \in W \/ flapping(c)
        event(c) == Event(cstate[c].verdict, new[c])
        back == {c \in C : cstate[c].verdict = "down" /\ new[c] # "down"}
        opened == {given[c] : c \in {d \in DOMAIN given : OpenOn(d) = {}}}
        resolved == {i \in {cstate[c].incident : c \in back} : Resolves(i)}
        fresh(c) == NewCount(cstate[c])
        starts(c) == c \in C /\ Flaps(cstate[c]) = flapThreshold + 1
        sent(c) == IF c \in C /\ fresh(c) THEN 0 ELSE flapTold[c]
    IN  /\ cstate' = [c \in Components |->
              IF c \notin C THEN cstate[c]
              ELSE [verdict |-> new[c], flaps |-> Flaps(cstate[c]),
                    flapsSince |-> IF fresh(c) THEN now ELSE cstate[c].flapsSince,
                    incident |-> IF c \in DOMAIN given THEN given[c]
                                 ELSE IF c \in back THEN NoIncident ELSE cstate[c].incident]]
        /\ incidents' = [i \in Incidents |->
              IF i \in opened
              THEN [status |-> "open", auto |-> TRUE, opened |-> now,
                    components |-> {c \in DOMAIN given : given[c] = i}]
              ELSE IF i \in resolved THEN [incidents[i] EXCEPT !.status = "resolved"]
              ELSE incidents[i]]
        /\ told' = [c \in Components |->
              IF c \in C /\ event(c) # "none" /\ ~silent(c) THEN event(c) ELSE told[c]]
        /\ quiet' = [c \in Components |->
              IF c \in C /\ {cstate[c].verdict, new[c]} \cap {"down"} # {} THEN silent(c) ELSE quiet[c]]
        /\ flapTold' = [c \in Components |-> IF starts(c) /\ c \notin W THEN sent(c) + 1 ELSE sent(c)]
        /\ hushed' = [c \in Components |-> IF starts(c) THEN c \in W ELSE hushed[c]]

\* Mutant: a component is rolled up again only when a monitor of it fails.
Mut_touched(M, ms) ==
    {listed[m] : m \in {n \in M : mstate[n].verdict # "down" /\ ms[n].verdict = "down"}}

\* detect: the components rolled up again are those that the reading of a monitor
\* that changed names.
touched(M, ms) == {listed[m] : m \in {n \in M : ms[n].verdict # mstate[n].verdict}}

\* The monitors the scheduler runs.
Due == {m \in Monitors : listed[m] # NoComponent}

\* RecordSamples, detect: readings v, with the components of W under maintenance.
Tick(v, W) ==
    LET M == DOMAIN v
        ms == [m \in Monitors |-> IF m \in M THEN advanceMonitor(mstate[m], v[m]) ELSE mstate[m]]
        rolled == {c \in touched(M, ms) : Counted(c, ms) # {}}
        changed == {c \in rolled : Rolled(c, ms) # cstate[c].verdict}
        new == [c \in changed |-> Rolled(c, ms)]
        strays == {m \in M : listed[m] # home[m] /\ ms[m].verdict # mstate[m].verdict}
    IN  /\ mstate' = ms
        /\ \E given \in Given({c \in changed : new[c] = "down"}) : Change(new, given, W)
        /\ Remember(v)
        /\ amended' = (amended \cup {home[m] : m \in strays}) \ rolled
        /\ joined' = (joined \cup {home[m] : m \in {n \in M : ~mstate[n].seen}}) \ rolled
        /\ UNCHANGED <<now, acts, modelVars, listed, byHand>>

\* Time passes.
Passes ==
    /\ now < MaxTime
    /\ now' = now + 1
    /\ UNCHANGED <<acts, modelVars, listed, recordVars, historyVars>>

\* reload: the scheduler takes the monitors as they are now.
reload ==
    /\ listed' = [m \in Monitors |-> IF m \in enabled THEN home[m] ELSE NoComponent]
    /\ UNCHANGED <<now, acts, modelVars, recordVars, historyVars>>

-----------------------------------------------------------------------------
(* People.                                                                 *)

Acts == acts < MaxActs /\ acts' = acts + 1

\* What an amendment of components C leaves alone: nothing is rolled up.
Amends(C) ==
    /\ Acts
    /\ amended' = amended \cup C
    /\ UNCHANGED <<now, listed, recordVars, run, quiet, flapTold, hushed, byHand, joined>>

\* SetMonitorEnabled: off if it is on, on if it is off.
SetMonitorEnabled(m) ==
    /\ enabled' = IF m \in enabled THEN enabled \ {m} ELSE enabled \cup {m}
    /\ Amends({home[m]})
    /\ UNCHANGED <<home, rule>>

\* UpsertMonitor of a monitor there is: it watches c, and is on or off as the
\* definition says.
UpsertMonitor(m, c, on) ==
    /\ home' = [home EXCEPT ![m] = c]
    /\ enabled' = IF on THEN enabled \cup {m} ELSE enabled \ {m}
    /\ Amends({home[m], c})
    /\ UNCHANGED rule

\* UpsertComponent of a component there is.
UpsertComponent(c, r) ==
    /\ rule' = [rule EXCEPT ![c] = r]
    /\ Amends({c})
    /\ UNCHANGED <<enabled, home>>

\* OpenIncident: on some components, or on none.
OpenIncident(C) ==
    /\ Acts
    /\ \E i \in Free :
          /\ incidents' = [incidents EXCEPT ![i] =
                [status |-> "open", auto |-> FALSE, components |-> C, opened |-> now]]
          /\ byHand' = byHand \cup {i}
    /\ UNCHANGED <<now, modelVars, listed, mstate, cstate, told>>
    /\ UNCHANGED <<run, quiet, flapTold, hushed, amended, joined>>

\* UpdateIncident: resolved, or open (again).
UpdateIncident(i, status) ==
    /\ Acts /\ i \notin Free
    /\ incidents' = [incidents EXCEPT ![i].status = status]
    /\ byHand' = byHand \cup {i}
    /\ UNCHANGED <<now, modelVars, listed, mstate, cstate, told>>
    /\ UNCHANGED <<run, quiet, flapTold, hushed, amended, joined>>

Next ==
    \/ Passes
    \/ reload
    \/ \E S \in SUBSET Due \ {{}}, W \in Windows[now] :
          \E v \in {f \in [S -> Verdicts] : \A m \in S : f[m] \in Outcomes[m]} : Tick(v, W)
    \/ \E m \in Switchable : SetMonitorEnabled(m)
    \/ \E m \in Monitors : \E c \in Homes[m], on \in BOOLEAN : UpsertMonitor(m, c, on)
    \/ \E c \in Components : \E r \in Rules[c] : UpsertComponent(c, r)
    \/ \E C \in Named : OpenIncident(C)
    \/ \E i \in Incidents, status \in {"open", "resolved"} : UpdateIncident(i, status)

Spec == Init /\ [][Next]_vars

-----------------------------------------------------------------------------
(* Properties.                                                             *)

\* "A single failure is not an outage": a monitor is declared down only by as many
\* failures in a row as its threshold, and leaves down only by as many equal passes.
DeclaredByRun ==
    [][\A m \in Monitors :
          LET old == mstate[m].verdict
              new == mstate'[m].verdict
          IN  /\ old # "down" /\ new = "down" =>
                    run'[m].verdict = "down" /\ run'[m].n >= FailureThreshold
              /\ old = "down" /\ new # "down" =>
                    run'[m].verdict = new /\ run'[m].n >= RecoveryThreshold]_vars

\* rollUpComponent, under every rule: the recorded state of a component is never better
\* than its rule makes of its monitors, and is just that unless a monitor of it was
\* read for the first time since, which only the rule any takes no note of.  Nothing is
\* rolled up when people amend a component's rule or monitors, or when a reading named
\* the component its monitor watched before: such a component is left out until the
\* next change of a monitor of it.
RollupHolds ==
    \A c \in Components \ amended : Counted(c, mstate) # {} =>
        /\ rank[Rolled(c, mstate)] <= rank[cstate[c].verdict]
        /\ c \notin joined \/ rule[c] = "any" => cstate[c].verdict = Rolled(c, mstate)

\* No other component takes an incident on c for its own.
Own(c) == \A d \in Components : c \in Like[d] => d = c

\* openAutoIncident and resolveAutoIncident: an incident the monitor opened and no
\* person touched is open only as long as its component is down, and that component's;
\* and it is open that long, unless the component's id holds another's: that one may
\* have taken the incident for its own, and resolved it when it came back.
AutoIncidentsEnd ==
    \A i \in Incidents \ byHand : incidents[i].auto =>
        LET its == {c \in incidents[i].components : cstate[c].incident = i}
        IN  /\ incidents[i].status = "open" => its # {}
            /\ (\E c \in its : Own(c)) => incidents[i].status = "open"

\* "An incident a human opened is left alone": no tick resolves it.
HumanIncidentsStay ==
    [][\A i \in Incidents :
          incidents[i].status = "open" /\ ~incidents[i].auto /\ incidents'[i].status = "resolved"
              => i \in byHand' /\ UNCHANGED mstate]_vars

\* raise: unless the last change to or from down fell in a window or was flapping,
\* the last alert sent says whether the component is down; and a component whose
\* alerts are held back for flapping has had one flapping alert in this count, unless
\* the change that made it flap fell in a window.
AlertsTell ==
    \A c \in Components :
        /\ ~quiet[c] => (told[c] = "down" <=> cstate[c].verdict = "down")
        /\ flapTold[c] = IF cstate[c].flaps > flapThreshold /\ ~hushed[c] THEN 1 ELSE 0
=============================================================================
