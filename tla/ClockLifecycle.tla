--------------------------- MODULE ClockLifecycle ---------------------------
(***************************************************************************)
(* Starting, reconfiguring and stopping the platform clock                 *)
(* (internal/clock: Apply, Stop, Shutdown, goBackground, withStore,        *)
(* Incident; cmd/monitor: the order of shutdown).                          *)
(*                                                                         *)
(* Configure requests call Apply, each from its own goroutine; Apply       *)
(* replaces the loop that polls the fleet in rounds.  Incident reports     *)
(* start background work that records the report and polls the enclave.    *)
(* Loops and background work write to the record, which main closes after  *)
(* Shutdown returns, or without it when the server fails.  What a poll     *)
(* does is in ClockFleet; a write here only begins and ends.               *)
(***************************************************************************)
EXTENDS Integers, FiniteSets

CONSTANTS
    Appliers,   \* configure requests that may be under way at once
    Configs,    \* configurations that turn the clock on
    Off,        \* the one that turns it off
    Loops,      \* loops started so far are numbered by these
    NoLoop,
    Reports     \* incident reports

ASSUME LifecycleAssumption ==
    Off \notin Configs /\ NoLoop \notin Loops /\ Loops \cap Reports = {}

VARIABLES
    cfg,        \* s.cfg
    current,    \* the loop s.cancel and s.done belong to
    loops,      \* the state of every loop
    apply,      \* the calls of Apply
    mark,       \* the high-water mark: not read, being read, read
    tasks,      \* what became of every incident report
    writing,    \* the workers inside withStore
    closing,    \* s.life.closing
    gone,       \* s.life.gone
    down,       \* Shutdown
    stop,       \* the goroutine of Shutdown that stops and waits
    timedOut,   \* Shutdown gave up waiting
    closed,     \* main closed the record
    failed,     \* main closed it because the server failed
    overlapped, \* two calls of Apply were under way at once (history)
    displaced   \* the loops whose s.cancel and s.done a later one's replaced (history)

applyVars == <<cfg, current, apply, mark>>
downVars == <<closing, gone, down, stop, timedOut, closed, failed>>
history == <<overlapped, displaced>>
vars == <<cfg, current, loops, apply, mark, tasks, writing, closing, gone, down, stop,
          timedOut, closed, failed, overlapped, displaced>>

Workers == Loops \cup Reports
NoApply == [at |-> "idle", want |-> Off, loop |-> NoLoop]

Init ==
    /\ cfg = Off /\ current = NoLoop
    /\ loops = [l \in Loops |-> "unused"]
    /\ apply = [a \in Appliers |-> NoApply]
    /\ mark = "unread"
    /\ tasks = [r \in Reports |-> "none"]
    /\ writing = {}
    /\ closing = FALSE /\ gone = FALSE /\ timedOut = FALSE /\ closed = FALSE
    /\ failed = FALSE /\ overlapped = FALSE /\ displaced = {}
    /\ down = "no" /\ stop = [at |-> "no", loop |-> NoLoop]

-----------------------------------------------------------------------------
(* Apply.                                                                  *)

\* storeMu can be taken shared: a sync.RWMutex keeps readers behind whoever waits
\* to hold it alone.
Readable == down \notin {"called", "letting_go"}

\* A loop is left to start, for every call of Apply that will (the model's bound).
LoopsLeft ==
    Cardinality({l \in Loops : loops[l] = "unused"})
        > Cardinality({a \in Appliers : apply[a].at \in {"swapped", "passed"}})

\* The loops after the current one is told to stop.
Cancelled == [l \in Loops |-> IF l = current /\ loops[l] # "ended" THEN "cancelled" ELSE loops[l]]

\* Mutant: the loop in force is forgotten and not cancelled.
Mut_ApplyBegins(a, k) ==
    /\ apply[a].at = "idle"
    /\ \/ k # Off /\ k = cfg /\ UNCHANGED <<cfg, current, apply, overlapped>>
       \/ /\ k = Off \/ (k # cfg /\ LoopsLeft)
          /\ cfg' = Off /\ current' = NoLoop
          /\ apply' = [apply EXCEPT ![a] = IF k = Off THEN NoApply
                                           ELSE [NoApply EXCEPT !.at = "swapped", !.want = k]]
          /\ overlapped' = (overlapped \/ \E b \in Appliers : apply[b].at # "idle")
    /\ UNCHANGED <<loops, mark, tasks, writing, downVars, displaced>>

\* The configuration is the one in force, or the loop in force is cancelled and
\* forgotten; with nothing to start, that is all.
ApplyBegins(a, k) ==
    /\ apply[a].at = "idle"
    /\ \/ k # Off /\ k = cfg /\ UNCHANGED <<cfg, current, loops, apply, overlapped>>
       \/ /\ k = Off \/ (k # cfg /\ LoopsLeft)
          /\ loops' = Cancelled
          /\ cfg' = Off /\ current' = NoLoop
          /\ apply' = [apply EXCEPT ![a] = IF k = Off THEN NoApply
                                           ELSE [NoApply EXCEPT !.at = "swapped", !.want = k]]
          /\ overlapped' = (overlapped \/ \E b \in Appliers : apply[b].at # "idle")
    /\ UNCHANGED <<mark, tasks, writing, downVars, displaced>>

\* Nothing is started once shutdown has begun.
ApplyChecks(a) ==
    /\ apply[a].at = "swapped" /\ Readable
    /\ apply' = [apply EXCEPT ![a] = IF closing THEN NoApply ELSE [@ EXCEPT !.at = "passed"]]
    /\ UNCHANGED <<cfg, current, loops, mark, tasks, writing, downVars, history>>

\* The new loop's handles and configuration are put in place, over those of a loop
\* another call has installed since.
ApplyInstalls(a) ==
    /\ apply[a].at = "passed"
    /\ \E l \in Loops :
          /\ loops[l] = "unused"
          /\ loops' = [loops EXCEPT ![l] = "installed"]
          /\ cfg' = apply[a].want /\ current' = l
          /\ apply' = [apply EXCEPT ![a] = [@ EXCEPT !.at = "installed", !.loop = l]]
    /\ displaced' = displaced \cup ({current} \ {NoLoop})
    /\ UNCHANGED <<mark, tasks, writing, downVars, overlapped>>

\* loadHighWater claims the read of the mark, unless it was claimed before.
ApplyLoads(a) ==
    /\ apply[a].at = "installed"
    /\ mark = "unread"
    /\ mark' = "reading"
    /\ apply' = [apply EXCEPT ![a] = [@ EXCEPT !.at = "reading"]]
    /\ UNCHANGED <<cfg, current, loops, tasks, writing, downVars, history>>

\* Mutant: the loop is started before the mark is read.
Mut_ApplyRuns(a) ==
    /\ apply[a].at \in {"installed", "reading"}
    /\ mark' = IF apply[a].at = "reading" THEN "read" ELSE mark
    /\ loops' = [loops EXCEPT ![apply[a].loop] = IF @ = "installed" THEN "live" ELSE @]
    /\ apply' = [apply EXCEPT ![a] = NoApply]
    /\ UNCHANGED <<cfg, current, tasks, writing, downVars, history>>

\* The mark is read, or was someone else's to read: the loop starts.
ApplyRuns(a) ==
    /\ apply[a].at = "reading" \/ (apply[a].at = "installed" /\ mark # "unread")
    /\ mark' = IF apply[a].at = "reading" THEN "read" ELSE mark
    /\ loops' = [loops EXCEPT ![apply[a].loop] = IF @ = "installed" THEN "live" ELSE @]
    /\ apply' = [apply EXCEPT ![a] = NoApply]
    /\ UNCHANGED <<cfg, current, tasks, writing, downVars, history>>

\* run returns once its context is cancelled, if Apply has started it.
LoopEnds(l) ==
    /\ loops[l] = "cancelled"
    /\ l \notin writing
    /\ \A a \in Appliers : apply[a].loop # l
    /\ loops' = [loops EXCEPT ![l] = "ended"]
    /\ UNCHANGED <<applyVars, tasks, writing, downVars, history>>

-----------------------------------------------------------------------------
(* Incident.                                                               *)

\* A report is taken unless shutdown has begun or the clock is off.
IncidentChecks(r) ==
    /\ tasks[r] = "none" /\ Readable
    /\ tasks' = [tasks EXCEPT ![r] = IF closing \/ cfg = Off THEN "refused" ELSE "checked"]
    /\ UNCHANGED <<applyVars, loops, writing, downVars, history>>

\* The report is malformed, names an enclave that is not in the fleet, or is over
\* the rate: no receipt.
IncidentRefused(r) ==
    /\ tasks[r] = "checked" /\ Readable
    /\ tasks' = [tasks EXCEPT ![r] = "refused"]
    /\ UNCHANGED <<applyVars, loops, writing, downVars, history>>

\* Mutant: background work is started without looking at closing again.
Mut_goBackground(r) ==
    /\ tasks[r] = "checked" /\ Readable
    /\ tasks' = [tasks EXCEPT ![r] = "background"]
    /\ UNCHANGED <<applyVars, loops, writing, downVars, history>>

\* goBackground: tracked work and a receipt, or neither.
goBackground(r) ==
    /\ tasks[r] = "checked" /\ Readable
    /\ tasks' = [tasks EXCEPT ![r] = IF closing THEN "refused" ELSE "background"]
    /\ UNCHANGED <<applyVars, loops, writing, downVars, history>>

\* The report is recorded and the enclave polled, or that was called off.
TaskEnds(r) ==
    /\ tasks[r] = "background"
    /\ r \notin writing
    /\ tasks' = [tasks EXCEPT ![r] = "done"]
    /\ UNCHANGED <<applyVars, loops, writing, downVars, history>>

-----------------------------------------------------------------------------
(* The record.                                                             *)

\* A worker that may still write: a cancelled loop, once Apply has started it, may
\* be on its way to a write.
Working(w) == \/ /\ w \in Loops /\ loops[w] \in {"live", "cancelled"}
                 /\ \A a \in Appliers : apply[a].loop # w
              \/ w \in Reports /\ tasks[w] = "background"

\* withStore: a write begins unless the record was let go.
withStore(w) ==
    /\ Working(w) /\ w \notin writing
    /\ Readable /\ ~gone
    /\ writing' = writing \cup {w}
    /\ UNCHANGED <<applyVars, loops, tasks, downVars, history>>

\* A write ends.
Written(w) ==
    /\ w \in writing
    /\ writing' = writing \ {w}
    /\ UNCHANGED <<applyVars, loops, tasks, downVars, history>>

-----------------------------------------------------------------------------
(* Shutdown.                                                               *)

\* Shutdown is called: it waits for storeMu.
ShutdownCalled ==
    /\ down = "no"
    /\ down' = "called"
    /\ UNCHANGED <<applyVars, loops, tasks, writing, closing, gone, stop, timedOut, closed, failed, history>>

\* closing is set with storeMu held alone; then the background is cancelled and
\* a goroutine stops the rounds and waits.
ShutdownBegins ==
    /\ down = "called" /\ writing = {}
    /\ closing' = TRUE /\ down' = "waiting" /\ stop' = [stop EXCEPT !.at = "stop"]
    /\ UNCHANGED <<applyVars, loops, tasks, writing, gone, timedOut, closed, failed, history>>

\* Stop: remembers the loop in force, to wait for it.
StopReads ==
    /\ stop.at = "stop"
    /\ stop' = [at |-> "applying", loop |-> current]
    /\ UNCHANGED <<applyVars, loops, tasks, writing, closing, gone, down, timedOut, closed, failed, history>>

\* Stop: applies no configuration, which turns the clock off.
StopApplies ==
    /\ stop.at = "applying"
    /\ stop' = [stop EXCEPT !.at = "round"]
    /\ loops' = Cancelled
    /\ cfg' = Off /\ current' = NoLoop
    /\ UNCHANGED <<apply, mark, tasks, writing, closing, gone, down, timedOut, closed, failed, history>>

\* Stop: the round in flight has ended; its own limit is longer than Shutdown's.
StopWaits ==
    /\ stop.at = "round"
    /\ \/ stop.loop = NoLoop
       \/ stop.loop # NoLoop /\ loops[stop.loop] = "ended"
       \/ down = "returned"
    /\ stop' = [stop EXCEPT !.at = "background"]
    /\ UNCHANGED <<applyVars, loops, tasks, writing, closing, gone, down, timedOut, closed, failed, history>>

\* bg.Wait.
BackgroundDone ==
    /\ stop.at = "background"
    /\ \A r \in Reports : tasks[r] # "background"
    /\ stop' = [stop EXCEPT !.at = "finished"]
    /\ UNCHANGED <<applyVars, loops, tasks, writing, closing, gone, down, timedOut, closed, failed, history>>

\* Mutant: Shutdown waits for the work however long it takes.
Mut_ShutdownWaited ==
    /\ down = "waiting" /\ stop.at = "finished"
    /\ down' = "letting_go" /\ timedOut' = FALSE
    /\ UNCHANGED <<applyVars, loops, tasks, writing, closing, gone, stop, closed, failed, history>>

\* Shutdown goes on when that is finished, or shutdownWait has passed.
ShutdownWaited ==
    /\ down = "waiting"
    /\ down' = "letting_go" /\ timedOut' = (stop.at # "finished")
    /\ UNCHANGED <<applyVars, loops, tasks, writing, closing, gone, stop, closed, failed, history>>

\* Mutant: gone is set without waiting for the writes under way.
Mut_ShutdownLetsGo ==
    /\ down = "letting_go"
    /\ gone' = TRUE /\ down' = "returned"
    /\ UNCHANGED <<applyVars, loops, tasks, writing, closing, stop, timedOut, closed, failed, history>>

\* gone is set with storeMu held alone.
ShutdownLetsGo ==
    /\ down = "letting_go" /\ writing = {}
    /\ gone' = TRUE /\ down' = "returned"
    /\ UNCHANGED <<applyVars, loops, tasks, writing, closing, stop, timedOut, closed, failed, history>>

\* main: the record is closed once Shutdown has returned.
RecordCloses ==
    /\ down = "returned" /\ ~closed
    /\ closed' = TRUE
    /\ UNCHANGED <<applyVars, loops, tasks, writing, closing, gone, down, stop, timedOut, failed, history>>

\* main: the server fails, and the record is closed with the clock still running.
ServeFails ==
    /\ ~closed
    /\ closed' = TRUE /\ failed' = TRUE
    /\ UNCHANGED <<applyVars, loops, tasks, writing, closing, gone, down, stop, timedOut, history>>

Next ==
    \/ \E a \in Appliers :
          \/ \E k \in Configs \cup {Off} : ApplyBegins(a, k)
          \/ ApplyChecks(a) \/ ApplyInstalls(a) \/ ApplyLoads(a) \/ ApplyRuns(a)
    \/ \E l \in Loops : LoopEnds(l)
    \/ \E r \in Reports : IncidentChecks(r) \/ IncidentRefused(r) \/ goBackground(r) \/ TaskEnds(r)
    \/ \E w \in Workers : withStore(w) \/ Written(w)
    \/ ShutdownCalled \/ ShutdownBegins \/ StopReads \/ StopApplies \/ StopWaits \/ BackgroundDone
    \/ ShutdownWaited \/ ShutdownLetsGo \/ RecordCloses \/ ServeFails

Spec == Init /\ [][Next]_vars

\* Writes end, Shutdown takes its steps, and its timer goes off.
Fairness ==
    /\ \A w \in Workers : WF_vars(Written(w))
    /\ WF_vars(ShutdownBegins) /\ WF_vars(ShutdownWaited) /\ WF_vars(ShutdownLetsGo)
    /\ WF_vars(RecordCloses)

FairSpec == Spec /\ Fairness

-----------------------------------------------------------------------------
(* Properties.                                                             *)

\* "Any write that comes later still, from work that did not stop in time, is
\* dropped rather than made to a closed store": whoever is slow, nothing is
\* being written once main has closed the record behind Shutdown.  (When the server
\* fails main closes it without Shutdown, and writes go on: README.)
NoWriteAfterClose == closed /\ ~failed => writing = {}

\* goBackground and Shutdown: when Shutdown did not give up waiting, every report
\* that was given a receipt has been dealt with.
ReceiptsDealtWith ==
    down = "returned" /\ ~timedOut => \A r \in Reports : tasks[r] # "background"

\* Shutdown returns and the record is closed, however long a worker takes.
ShutdownEnds == down # "no" ~> closed

\* Apply "starts, reconfigures or stops the service to match cfg": with no call
\* under way, the loops that run are the one in force and those whose handles were
\* replaced by a call that overlapped theirs, which nothing stops any more.
LoopsMatchConfig ==
    /\ (\A a \in Appliers : apply[a] = NoApply) =>
           {l \in Loops : loops[l] = "live"} = ({current} \ {NoLoop}) \cup displaced
    /\ displaced # {} => overlapped

\* loadHighWater: no round runs before the counter and the time floor are
\* restored, but in a loop whose Apply overlapped the one that is reading them.
RoundsAfterRestore ==
    \A l \in Loops : loops[l] = "live" =>
        \/ mark = "read"
        \/ overlapped /\ \E a \in Appliers : apply[a].at = "reading" /\ apply[a].loop # l

-----------------------------------------------------------------------------
(* Claims of comments and documents that the code does not keep (README).  *)

\* "Shutdown stops the clock for good: ... the scheduled rounds stopped": no loop
\* runs once it has returned.
StoppedForGood == down = "returned" => \A l \in Loops : loops[l] # "live"
=============================================================================
