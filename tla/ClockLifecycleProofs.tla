------------------------ MODULE ClockLifecycleProofs ------------------------
(***************************************************************************)
(* What Shutdown promises, for any number of configure requests, loops and *)
(* incident reports: nothing is written to a record closed behind it, and  *)
(* a shutdown that did not give up waiting leaves no report it gave a      *)
(* receipt for.  And what Apply promises, whatever Shutdown and other      *)
(* calls do beside it: the loop in force runs and, of the others, only     *)
(* those an overlapping call displaced; and none starts before the         *)
(* high-water mark was read, unless an overlapping call is reading it.     *)
(***************************************************************************)
EXTENDS ClockLifecycle, TLAPS

\* Letting go of the record: gone is set before Shutdown returns, the record is
\* closed after that, and with gone set no write is under way.
LetGo ==
    /\ gone => writing = {}
    /\ down = "returned" => gone
    /\ closed /\ ~failed => gone

\* The variables the steps of Stop and of the background change are of their type.
Shape ==
    /\ current \in Loops \cup {NoLoop}
    /\ tasks \in [Reports -> {"none", "checked", "background", "refused", "done"}]
    /\ stop \in [at : {"no", "stop", "applying", "round", "background", "finished"},
                 loop : Loops \cup {NoLoop}]

\* Waiting for the background: it is waited for only once closing is set, and a
\* Shutdown that went on without giving up saw the wait end.
Waited ==
    /\ down \in {"waiting", "letting_go", "returned"} => closing
    /\ stop.at # "no" => closing
    /\ stop.at = "finished" => \A r \in Reports : tasks[r] # "background"
    /\ down \in {"letting_go", "returned"} => timedOut \/ stop.at = "finished"

-----------------------------------------------------------------------------

\* LetGo holds at the start and every step keeps it: withStore looks at gone, and
\* ShutdownLetsGo waits for the writes under way.
LEMMA LetGoInductive == (Init => LetGo) /\ (LetGo /\ [Next]_vars => LetGo')
<1>1. Init => LetGo
  BY DEF Init, LetGo
<1>2. ASSUME LetGo, [Next]_vars PROVE LetGo'
  <2> USE <1>2 DEF LetGo
  <2>1. CASE \E a \in Appliers :
               \/ \E k \in Configs \cup {Off} : ApplyBegins(a, k)
               \/ ApplyChecks(a) \/ ApplyInstalls(a) \/ ApplyLoads(a) \/ ApplyRuns(a)
    <3>1. UNCHANGED <<writing, downVars>>
      BY <2>1 DEF ApplyBegins, ApplyChecks, ApplyInstalls, ApplyLoads, ApplyRuns
    <3>2. QED
      BY <3>1 DEF downVars
  <2>2. CASE \/ \E l \in Loops : LoopEnds(l)
             \/ \E r \in Reports : IncidentChecks(r) \/ IncidentRefused(r) \/ goBackground(r) \/ TaskEnds(r)
    BY <2>2 DEF LoopEnds, IncidentChecks, IncidentRefused, goBackground, TaskEnds, downVars
  <2>3. CASE \E w \in Workers : withStore(w) \/ Written(w)
    BY <2>3 DEF withStore, Written, downVars
  <2>4. CASE ShutdownCalled \/ ShutdownBegins \/ StopReads \/ StopApplies \/ StopWaits
    BY <2>4 DEF ShutdownCalled, ShutdownBegins, StopReads, StopApplies, StopWaits
  <2>5. CASE BackgroundDone \/ ShutdownWaited \/ ShutdownLetsGo \/ RecordCloses \/ ServeFails
    BY <2>5 DEF BackgroundDone, ShutdownWaited, ShutdownLetsGo, RecordCloses, ServeFails
  <2>6. CASE UNCHANGED vars
    BY <2>6 DEF vars
  <2>7. QED
    BY <2>1, <2>2, <2>3, <2>4, <2>5, <2>6 DEF Next
<1>3. QED
  BY <1>1, <1>2

\* Shape holds at the start and every step keeps it.
LEMMA ShapeInductive == (Init => Shape) /\ (Shape /\ [Next]_vars => Shape')
<1>1. Init => Shape
  BY DEF Init, Shape
<1>2. ASSUME Shape, [Next]_vars PROVE Shape'
  <2> USE <1>2 DEF Shape, applyVars, downVars
  <2>1. CASE \E a \in Appliers :
               \/ \E k \in Configs \cup {Off} : ApplyBegins(a, k)
               \/ ApplyChecks(a) \/ ApplyInstalls(a) \/ ApplyLoads(a) \/ ApplyRuns(a)
    BY <2>1 DEF ApplyBegins, ApplyChecks, ApplyInstalls, ApplyLoads, ApplyRuns
  <2>2. CASE \E l \in Loops : LoopEnds(l)
    BY <2>2 DEF LoopEnds
  <2>3. CASE \E r \in Reports : IncidentChecks(r) \/ IncidentRefused(r) \/ goBackground(r) \/ TaskEnds(r)
    BY <2>3 DEF IncidentChecks, IncidentRefused, goBackground, TaskEnds
  <2>4. CASE \E w \in Workers : withStore(w) \/ Written(w)
    BY <2>4 DEF withStore, Written
  <2>5. CASE ShutdownCalled \/ ShutdownBegins \/ ShutdownWaited \/ ShutdownLetsGo \/ RecordCloses
             \/ ServeFails
    BY <2>5 DEF ShutdownCalled, ShutdownBegins, ShutdownWaited, ShutdownLetsGo, RecordCloses, ServeFails
  <2>6. CASE StopReads \/ StopApplies \/ StopWaits \/ BackgroundDone
    BY <2>6 DEF StopReads, StopApplies, StopWaits, BackgroundDone
  <2>7. CASE UNCHANGED vars
    BY <2>7 DEF vars
  <2>8. QED
    BY <2>1, <2>2, <2>3, <2>4, <2>5, <2>6, <2>7 DEF Next
<1>3. QED
  BY <1>1, <1>2

\* Waited holds at the start and every step keeps it: goBackground starts nothing
\* once closing is set, so a wait that ended stays ended.
LEMMA WaitedInductive == (Init => Waited) /\ (Shape /\ Waited /\ [Next]_vars => Waited')
<1>1. Init => Waited
  BY DEF Init, Waited
<1>2. ASSUME Shape, Waited, [Next]_vars PROVE Waited'
  <2> USE <1>2 DEF Waited
  <2>1. CASE \E a \in Appliers :
               \/ \E k \in Configs \cup {Off} : ApplyBegins(a, k)
               \/ ApplyChecks(a) \/ ApplyInstalls(a) \/ ApplyLoads(a) \/ ApplyRuns(a)
    <3>1. UNCHANGED <<tasks, downVars>>
      BY <2>1 DEF ApplyBegins, ApplyChecks, ApplyInstalls, ApplyLoads, ApplyRuns
    <3>2. QED
      BY <3>1 DEF downVars
  <2>2. CASE \E l \in Loops : LoopEnds(l)
    BY <2>2 DEF LoopEnds, downVars
  <2>3. ASSUME NEW r \in Reports, IncidentChecks(r) \/ IncidentRefused(r) \/ goBackground(r) \/ TaskEnds(r)
        PROVE  Waited'
    <3>1. UNCHANGED downVars
      BY <2>3 DEF IncidentChecks, IncidentRefused, goBackground, TaskEnds
    <3>2. CASE closing
      <4>1. tasks'[r] # "background"
        BY <2>3, <3>2 DEF Shape, IncidentChecks, IncidentRefused, goBackground, TaskEnds
      <4>2. \A x \in Reports \ {r} : tasks'[x] = tasks[x]
        BY <2>3 DEF Shape, IncidentChecks, IncidentRefused, goBackground, TaskEnds
      <4>3. QED
        BY <3>1, <4>1, <4>2 DEF downVars
    <3>3. CASE ~closing
      BY <3>1, <3>3 DEF downVars
    <3>4. QED
      BY <3>2, <3>3
  <2>4. CASE \E w \in Workers : withStore(w) \/ Written(w)
    BY <2>4 DEF withStore, Written, downVars
  <2>5. CASE ShutdownCalled
    BY <2>5 DEF ShutdownCalled
  <2>6. CASE ShutdownBegins
    <3>1. stop'.at = "stop"
      BY <2>6 DEF Shape, ShutdownBegins
    <3>2. QED
      BY <2>6, <3>1 DEF ShutdownBegins
  <2>7. CASE StopReads \/ StopApplies \/ StopWaits \/ BackgroundDone
    <3>1. stop.at \notin {"no", "finished"} /\ UNCHANGED <<down, closing, timedOut, tasks>>
      BY <2>7 DEF StopReads, StopApplies, StopWaits, BackgroundDone
    <3>2. stop'.at = "finished" => \A r \in Reports : tasks[r] # "background"
      BY <2>7 DEF Shape, StopReads, StopApplies, StopWaits, BackgroundDone
    <3>3. QED
      BY <3>1, <3>2
  <2>8. CASE ShutdownWaited \/ ShutdownLetsGo \/ RecordCloses \/ ServeFails
    BY <2>8 DEF ShutdownWaited, ShutdownLetsGo, RecordCloses, ServeFails
  <2>9. CASE UNCHANGED vars
    BY <2>9 DEF vars
  <2>10. QED
    BY <2>1, <2>2, <2>3, <2>4, <2>5, <2>6, <2>7, <2>8, <2>9 DEF Next
<1>3. QED
  BY <1>1, <1>2

\* withStore and Shutdown: however slow the workers, nothing is written once main
\* has closed the record behind Shutdown.
THEOREM ClosedUnwritten == Spec => []NoWriteAfterClose
<1>1. LetGo => NoWriteAfterClose
  BY DEF LetGo, NoWriteAfterClose
<1>2. QED
  BY <1>1, LetGoInductive, PTL DEF Spec

\* goBackground and Shutdown: when Shutdown did not give up waiting, every report
\* given a receipt has been dealt with.
THEOREM ReceiptsHonoured == Spec => []ReceiptsDealtWith
<1>1. Waited => ReceiptsDealtWith
  BY DEF Waited, ReceiptsDealtWith
<1>2. QED
  BY <1>1, ShapeInductive, WaitedInductive, PTL DEF Spec

-----------------------------------------------------------------------------
(* Apply, with any number of calls under way.                              *)

States == {"unused", "installed", "live", "cancelled", "ended"}

Calls == [at : {"idle", "swapped", "passed", "installed", "reading"},
          want : Configs \cup {Off}, loop : Loops \cup {NoLoop}]

ApplyShape ==
    /\ current \in Loops \cup {NoLoop}
    /\ loops \in [Loops -> States]
    /\ apply \in [Appliers -> Calls]
    /\ mark \in {"unread", "reading", "read"}
    /\ displaced \subseteq Loops

\* A call holds a loop of its own from its installation until it has started it.
Holding ==
    /\ \A a \in Appliers : apply[a].loop # NoLoop <=> apply[a].at \in {"installed", "reading"}
    /\ \A a, b \in Appliers : apply[a].loop = apply[b].loop /\ apply[a].loop # NoLoop => a = b
    /\ \A a \in Appliers : apply[a].loop # NoLoop => loops[apply[a].loop] # "unused"

\* Only the loop in force and the displaced ones run, or wait to be run by the call
\* that installed them.
InForce ==
    /\ \A l \in Loops : loops[l] \in {"installed", "live"} => l = current \/ l \in displaced
    /\ \A l \in displaced : loops[l] \in {"installed", "live"} /\ l # current
    /\ current # NoLoop => loops[current] \in {"installed", "live"}
    /\ \A l \in Loops : loops[l] = "installed" => \E a \in Appliers : apply[a].loop = l

\* A loop is displaced only by a call that overlapped another: one that is about to
\* install a loop has put the one before it out of force.
Overlap ==
    /\ \A a, b \in Appliers : a # b /\ apply[a].at # "idle" /\ apply[b].at # "idle" => overlapped
    /\ \A a \in Appliers : apply[a].at \in {"swapped", "passed"} => current = NoLoop \/ overlapped
    /\ displaced # {} => overlapped

\* The mark is being read by one call, and a loop started before that has ended was
\* started by another.
Marked ==
    /\ mark = "reading" => \E a \in Appliers : apply[a].at = "reading"
    /\ \A a \in Appliers : apply[a].at = "reading" => mark = "reading"
    /\ \A a, b \in Appliers : apply[a].at = "reading" /\ apply[b].at = "reading" => a = b
    /\ RoundsAfterRestore

ApplyInv == ApplyShape /\ Holding /\ InForce /\ Overlap /\ Marked

\* The loops after the one in force is told to stop: only displaced ones are left.
LEMMA CancelledLeft ==
    ASSUME ApplyShape, InForce
    PROVE  /\ Cancelled \in [Loops -> States]
           /\ \A l \in Loops : loops[l] = "unused" <=> Cancelled[l] = "unused"
           /\ \A l \in Loops : Cancelled[l] \in {"installed", "live"} =>
                  l \in displaced /\ Cancelled[l] = loops[l]
           /\ \A l \in displaced : Cancelled[l] = loops[l]
BY LifecycleAssumption DEF ApplyShape, InForce, Cancelled, States

\* Taking the loop in force out of force keeps the invariant, whoever does it.
LEMMA CancelKeeps ==
    ASSUME ApplyInv, loops' = Cancelled, current' = NoLoop, UNCHANGED <<apply, mark, displaced>>,
           overlapped => overlapped'
    PROVE  ApplyInv'
<1> USE DEF ApplyInv
<1>1. ApplyShape'
  BY CancelledLeft DEF ApplyShape
<1>2. Holding'
  BY CancelledLeft DEF Holding, ApplyShape, Calls
<1>3. InForce'
  BY CancelledLeft, LifecycleAssumption DEF InForce, ApplyShape
<1>4. Overlap'
  BY DEF Overlap
<1>5. Marked'
  BY CancelledLeft DEF Marked, RoundsAfterRestore, ApplyShape
<1> QED
  BY <1>1, <1>2, <1>3, <1>4, <1>5

\* A call that holds no loop and reads no mark moves on, or begins.
LEMMA MoveKeeps ==
    ASSUME ApplyInv, NEW a \in Appliers, NEW new \in Calls,
           apply[a].loop = NoLoop, new.loop = NoLoop, new.at \in {"idle", "swapped", "passed"},
           apply' = [apply EXCEPT ![a] = new], UNCHANGED <<current, loops, mark, displaced>>,
           overlapped => overlapped',
           new.at # "idle" => current = NoLoop \/ overlapped',
           new.at # "idle" => \A b \in Appliers : b # a /\ apply[b].at # "idle" => overlapped'
    PROVE  ApplyInv'
<1> USE DEF ApplyInv
<1>1. /\ apply' \in [Appliers -> Calls] /\ apply'[a] = new
      /\ \A b \in Appliers : b # a => apply'[b] = apply[b]
  BY DEF ApplyShape
<1>2. apply[a].at # "reading"
  BY DEF Holding
<1>3. ApplyShape'
  BY <1>1 DEF ApplyShape
<1>4. Holding'
  BY <1>1 DEF Holding
<1>5. InForce'
  <2>1. ASSUME NEW l \in Loops, loops[l] = "installed" PROVE \E b \in Appliers : apply'[b].loop = l
    <3>1. PICK b \in Appliers : apply[b].loop = l
      BY <2>1 DEF InForce
    <3>2. b # a
      BY <3>1, LifecycleAssumption
    <3> QED
      BY <1>1, <3>1, <3>2
  <2> QED
    BY <2>1 DEF InForce
<1>6. Overlap'
  BY <1>1 DEF Overlap
<1>7. Marked'
  <2>1. \A b \in Appliers : /\ apply'[b].at = "reading" <=> apply[b].at = "reading"
                            /\ apply[b].at = "reading" => apply'[b] = apply[b]
    BY <1>1, <1>2
  <2>2. mark' = "reading" => \E b \in Appliers : apply'[b].at = "reading"
    BY <2>1 DEF Marked
  <2>3. RoundsAfterRestore'
    BY <2>1 DEF Marked, RoundsAfterRestore
  <2> QED
    BY <2>1, <2>2, <2>3 DEF Marked
<1> QED
  BY <1>3, <1>4, <1>5, <1>6, <1>7

\* The steps of Apply.
LEMMA ApplyKeeps ==
    ASSUME ApplyInv, NEW a \in Appliers,
           \/ \E k \in Configs \cup {Off} : ApplyBegins(a, k)
           \/ ApplyChecks(a) \/ ApplyInstalls(a) \/ ApplyLoads(a) \/ ApplyRuns(a)
    PROVE  ApplyInv'
<1> USE DEF ApplyInv
<1>0. NoLoop \notin Loops /\ apply[a] \in Calls
  BY LifecycleAssumption DEF ApplyShape
<1>n. NoApply \in Calls /\ NoApply.at = "idle" /\ NoApply.loop = NoLoop
  BY DEF NoApply, Calls
<1>1. ASSUME NEW k \in Configs \cup {Off}, ApplyBegins(a, k) PROVE ApplyInv'
  <2>1. CASE UNCHANGED <<cfg, current, loops, apply, overlapped>>
    <3>1. UNCHANGED <<current, loops, apply, mark, displaced, overlapped>>
      BY <1>1, <2>1 DEF ApplyBegins
    <3> QED
      BY <3>1 DEF ApplyShape, Holding, InForce, Overlap, Marked, RoundsAfterRestore
  <2>2. CASE /\ loops' = Cancelled /\ current' = NoLoop /\ apply[a].at = "idle"
             /\ apply' = [apply EXCEPT ![a] = IF k = Off THEN NoApply
                                              ELSE [NoApply EXCEPT !.at = "swapped", !.want = k]]
             /\ overlapped' = (overlapped \/ \E b \in Appliers : apply[b].at # "idle")
    <3> DEFINE new == IF k = Off THEN NoApply ELSE [NoApply EXCEPT !.at = "swapped", !.want = k]
    <3>1. new \in Calls /\ new.at \in {"idle", "swapped"} /\ new.loop = NoLoop
      BY <1>n DEF Calls, NoApply
    <3> HIDE DEF new
    <3>2. apply' = [apply EXCEPT ![a] = new] /\ mark' = mark /\ displaced' = displaced
      BY <1>1, <2>2 DEF ApplyBegins, new
    <3>3. /\ apply' \in [Appliers -> Calls] /\ apply'[a] = new
          /\ \A b \in Appliers : b # a => apply'[b] = apply[b]
      BY <3>1, <3>2 DEF ApplyShape
    <3>4. apply[a].loop = NoLoop
      BY <2>2 DEF Holding
    <3>5. ApplyShape'
      BY <2>2, <3>2, <3>3, CancelledLeft DEF ApplyShape
    <3>6. Holding'
      <4>1. \A b \in Appliers : apply'[b].loop = apply[b].loop
        BY <3>1, <3>3, <3>4
      <4>2. \A b \in Appliers : apply'[b].at \in {"installed", "reading"} <=> apply[b].at \in {"installed", "reading"}
        BY <2>2, <3>1, <3>3
      <4>3. \A b \in Appliers : apply[b].loop # NoLoop => apply[b].loop \in Loops
        BY DEF ApplyShape, Calls
      <4> QED
        BY <2>2, <4>1, <4>2, <4>3, CancelledLeft DEF Holding
    <3>7. InForce'
      <4>1. \A b \in Appliers : apply'[b].loop = apply[b].loop
        BY <3>1, <3>3, <3>4
      <4>2. \A l \in Loops : loops'[l] = "installed" => \E b \in Appliers : apply'[b].loop = l
        BY <2>2, <4>1, CancelledLeft DEF InForce
      <4>3. \A l \in displaced : loops'[l] \in {"installed", "live"} /\ l # NoLoop
        BY <1>0, <2>2, CancelledLeft DEF InForce, ApplyShape
      <4> QED
        BY <2>2, <3>2, <4>2, <4>3, CancelledLeft DEF InForce
    <3>8. Overlap'
      <4>1. \A b \in Appliers : b # a /\ apply'[b].at # "idle" => overlapped'
        BY <2>2, <3>3
      <4>2. overlapped => overlapped'
        BY <2>2
      <4> QED
        BY <2>2, <3>2, <3>3, <4>1, <4>2 DEF Overlap
    <3>9. Marked'
      <4>1. \A b \in Appliers : apply'[b].at = "reading" <=> apply[b].at = "reading"
        BY <2>2, <3>1, <3>3
      <4>2. \A b \in Appliers : apply'[b].loop = apply[b].loop
        BY <3>1, <3>3, <3>4
      <4>3. \A l \in Loops : loops'[l] = "live" => loops[l] = "live"
        BY <2>2, CancelledLeft
      <4>4. overlapped => overlapped'
        BY <2>2
      <4>5. RoundsAfterRestore'
        BY <3>2, <4>1, <4>2, <4>3, <4>4 DEF Marked, RoundsAfterRestore
      <4>6. mark' = "reading" => \E b \in Appliers : apply'[b].at = "reading"
        BY <3>2, <4>1 DEF Marked
      <4> QED
        BY <3>2, <4>1, <4>5, <4>6 DEF Marked
    <3> QED
      BY <3>5, <3>6, <3>7, <3>8, <3>9
  <2> QED
    BY <1>1, <2>1, <2>2 DEF ApplyBegins
<1>2. CASE ApplyChecks(a)
  <2> DEFINE new == IF closing THEN NoApply ELSE [apply[a] EXCEPT !.at = "passed"]
  <2>1. apply[a].at = "swapped" /\ apply' = [apply EXCEPT ![a] = new]
        /\ UNCHANGED <<current, loops, mark, displaced, overlapped>>
    BY <1>2 DEF ApplyChecks, history
  <2>2. apply[a].loop = NoLoop
    BY <2>1 DEF Holding
  <2>3. new \in Calls /\ new.at \in {"idle", "passed"} /\ new.loop = NoLoop
    BY <1>0, <1>n, <2>1, <2>2 DEF Calls
  <2> HIDE DEF new
  <2>4. /\ current = NoLoop \/ overlapped
        /\ \A b \in Appliers : b # a /\ apply[b].at # "idle" => overlapped
    BY <2>1 DEF Overlap
  <2> QED
    BY <2>1, <2>2, <2>3, <2>4, MoveKeeps
<1>3. CASE ApplyInstalls(a)
  <2>1. PICK l \in Loops :
          /\ apply[a].at = "passed" /\ loops[l] = "unused"
          /\ loops' = [loops EXCEPT ![l] = "installed"] /\ current' = l
          /\ apply' = [apply EXCEPT ![a] = [@ EXCEPT !.at = "installed", !.loop = l]]
          /\ mark' = mark /\ overlapped' = overlapped
          /\ displaced' = displaced \cup ({current} \ {NoLoop})
    BY <1>3 DEF ApplyInstalls
  <2>2. apply'[a] = [apply[a] EXCEPT !.at = "installed", !.loop = l]
    BY <2>1 DEF ApplyShape
  <2>3. /\ apply'[a].at = "installed" /\ apply'[a].loop = l /\ apply' \in [Appliers -> Calls]
        /\ \A b \in Appliers : b # a => apply'[b] = apply[b]
    BY <1>0, <2>1, <2>2 DEF ApplyShape, Calls
  <2>4. /\ loops' \in [Loops -> States] /\ loops'[l] = "installed"
        /\ \A x \in Loops \ {l} : loops'[x] = loops[x]
    BY <2>1 DEF ApplyShape, States
  <2>5. l \notin displaced /\ l # current
    BY <1>0, <2>1 DEF InForce
  <2>6. \A b \in Appliers : apply[b].loop # l
    BY <1>0, <2>1 DEF Holding
  <2>7. ApplyShape'
    BY <2>1, <2>3, <2>4 DEF ApplyShape
  <2>8. Holding'
    <3>1. \A b \in Appliers : b # a => apply[b].loop = NoLoop \/ apply[b].loop \in Loops \ {l}
      BY <2>6 DEF ApplyShape, Calls
    <3> QED
      BY <1>0, <2>3, <2>4, <2>6, <3>1 DEF Holding
  <2>9. InForce'
    <3>1. ASSUME NEW x \in Loops, loops'[x] = "installed" PROVE \E b \in Appliers : apply'[b].loop = x
      <4>1. CASE x = l
        BY <2>3, <4>1
      <4>2. CASE x # l
        <5>1. PICK b \in Appliers : apply[b].loop = x
          BY <2>4, <3>1, <4>2 DEF InForce
        <5>2. b # a
          BY <1>0, <2>1, <5>1 DEF Holding
        <5> QED
          BY <2>3, <5>1, <5>2
      <4> QED
        BY <4>1, <4>2
    <3>2. \A x \in Loops : loops'[x] \in {"installed", "live"} => x = l \/ x \in displaced'
      BY <1>0, <2>1, <2>4 DEF InForce
    <3>3. \A x \in displaced' : loops'[x] \in {"installed", "live"} /\ x # l
      BY <2>1, <2>4, <2>5 DEF InForce, ApplyShape
    <3> QED
      BY <1>0, <2>1, <2>4, <3>1, <3>2, <3>3 DEF InForce
  <2>10. Overlap'
    <3>1. \A b \in Appliers : b # a /\ apply[b].at # "idle" => overlapped
      BY <2>1 DEF Overlap
    <3>2. displaced' # {} => overlapped
      BY <2>1 DEF Overlap
    <3> QED
      BY <2>1, <2>3, <3>1, <3>2 DEF Overlap
  <2>11. Marked'
    <3>1. \A b \in Appliers : /\ apply'[b].at = "reading" <=> apply[b].at = "reading"
                              /\ apply[b].at = "reading" => apply'[b] = apply[b]
      BY <2>1, <2>3
    <3>2. \A x \in Loops : loops'[x] = "live" => loops[x] = "live"
      BY <2>4
    <3>3. RoundsAfterRestore'
      BY <2>1, <3>1, <3>2 DEF Marked, RoundsAfterRestore
    <3>4. mark' = "reading" => \E b \in Appliers : apply'[b].at = "reading"
      BY <2>1, <3>1 DEF Marked
    <3> QED
      BY <2>1, <3>1, <3>3, <3>4 DEF Marked
  <2> QED
    BY <2>7, <2>8, <2>9, <2>10, <2>11
<1>4. CASE ApplyLoads(a)
  <2>1. /\ apply[a].at = "installed" /\ mark = "unread" /\ mark' = "reading"
        /\ apply' = [apply EXCEPT ![a] = [@ EXCEPT !.at = "reading"]]
        /\ UNCHANGED <<current, loops, displaced, overlapped>>
    BY <1>4 DEF ApplyLoads, history
  <2>2. apply'[a] = [apply[a] EXCEPT !.at = "reading"]
    BY <2>1 DEF ApplyShape
  <2>3. /\ apply'[a].at = "reading" /\ apply'[a].loop = apply[a].loop /\ apply' \in [Appliers -> Calls]
        /\ \A b \in Appliers : b # a => apply'[b] = apply[b]
    BY <1>0, <2>1, <2>2 DEF ApplyShape, Calls
  <2>4. ApplyShape'
    BY <2>1, <2>3 DEF ApplyShape
  <2>5. Holding'
    <3>1. \A b \in Appliers : apply'[b].loop = apply[b].loop
      BY <2>3
    <3>2. \A b \in Appliers : apply'[b].at \in {"installed", "reading"} <=> apply[b].at \in {"installed", "reading"}
      BY <2>1, <2>3
    <3> QED
      BY <2>1, <3>1, <3>2 DEF Holding
  <2>6. InForce'
    <3>1. \A b \in Appliers : apply'[b].loop = apply[b].loop
      BY <2>3
    <3> QED
      BY <2>1, <3>1 DEF InForce
  <2>7. Overlap'
    <3>1. \A b \in Appliers : apply'[b].at # "idle" <=> apply[b].at # "idle"
      BY <2>1, <2>3
    <3>2. \A b \in Appliers : apply'[b].at \in {"swapped", "passed"} => apply[b].at \in {"swapped", "passed"}
      BY <2>3
    <3> QED
      BY <2>1, <3>1, <3>2 DEF Overlap
  <2>8. \A l \in Loops : loops[l] # "live"
    BY <2>1 DEF Marked, RoundsAfterRestore
  <2>9. Marked'
    BY <2>1, <2>3, <2>8 DEF Marked, RoundsAfterRestore
  <2> QED
    BY <2>4, <2>5, <2>6, <2>7, <2>9
<1>5. CASE ApplyRuns(a)
  <2> DEFINE l == apply[a].loop
  <2>1. /\ apply[a].at = "reading" \/ (apply[a].at = "installed" /\ mark # "unread")
        /\ mark' = IF apply[a].at = "reading" THEN "read" ELSE mark
        /\ loops' = [loops EXCEPT ![l] = IF @ = "installed" THEN "live" ELSE @]
        /\ apply' = [apply EXCEPT ![a] = NoApply]
        /\ UNCHANGED <<current, displaced, overlapped>>
    BY <1>5 DEF ApplyRuns, history
  <2>2. l \in Loops
    BY <1>0, <2>1 DEF Holding, Calls
  <2>3. /\ apply'[a] = NoApply /\ apply' \in [Appliers -> Calls]
        /\ \A b \in Appliers : b # a => apply'[b] = apply[b]
    BY <1>n, <2>1 DEF ApplyShape
  <2>4. \A b \in Appliers : b # a => apply[b].loop # l
    BY <1>0, <2>2 DEF Holding
  <2>5. /\ loops' \in [Loops -> States]
        /\ loops'[l] = IF loops[l] = "installed" THEN "live" ELSE loops[l]
        /\ \A x \in Loops \ {l} : loops'[x] = loops[x]
    BY <2>1, <2>2 DEF ApplyShape, States
  <2>i. \A x \in Loops : loops[x] = "installed" => \E b \in Appliers : apply[b].loop = x
    BY DEF InForce
  <2>6. ApplyShape'
    <3>1. mark' \in {"unread", "reading", "read"}
      BY <2>1 DEF ApplyShape
    <3> QED
      BY <2>1, <2>3, <2>5, <3>1 DEF ApplyShape
  <2>u. \A x \in Loops : loops'[x] = "unused" <=> loops[x] = "unused"
    BY <2>5
  <2>7. Holding'
    <3>1. \A b \in Appliers : b # a => apply'[b].loop = apply[b].loop /\ apply'[b].at = apply[b].at
      BY <2>3
    <3>2. \A b \in Appliers : apply[b].loop # NoLoop => apply[b].loop \in Loops
      BY DEF ApplyShape, Calls
    <3> HIDE DEF l
    <3> QED
      BY <1>n, <2>3, <2>u, <3>1, <3>2 DEF Holding
  <2> HIDE DEF l
  <2>8. InForce'
    <3>1. \A x \in Loops : loops'[x] \in {"installed", "live"} <=> loops[x] \in {"installed", "live"}
      BY <2>5
    <3>2. ASSUME NEW x \in Loops, loops'[x] = "installed" PROVE \E b \in Appliers : apply'[b].loop = x
      <4>1. x # l /\ loops[x] = "installed"
        BY <2>2, <2>5, <3>2
      <4>2. PICK b \in Appliers : apply[b].loop = x
        BY <2>i, <4>1
      <4>3. b # a
        BY <4>1, <4>2 DEF l
      <4> QED
        BY <2>3, <4>2, <4>3
    <3> QED
      BY <1>0, <2>1, <3>1, <3>2 DEF InForce, ApplyShape
  <2>9. Overlap'
    BY <1>n, <2>1, <2>3 DEF Overlap
  <2>10. Marked'
    <3>1. CASE apply[a].at = "reading"
      <4>1. mark' = "read" /\ \A b \in Appliers : apply'[b].at # "reading"
        BY <1>n, <2>1, <2>3, <3>1 DEF Marked
      <4> QED
        BY <4>1 DEF Marked, RoundsAfterRestore
    <3>2. CASE apply[a].at = "installed" /\ mark # "unread"
      <4>1. mark' = mark
        BY <2>1, <3>2
      <4>2. \A b \in Appliers : /\ apply'[b].at = "reading" <=> apply[b].at = "reading"
                                /\ apply[b].at = "reading" => apply'[b] = apply[b] /\ b # a
        BY <1>n, <2>3, <3>2
      <4>3. mark' = "reading" => \E b \in Appliers : apply'[b].at = "reading"
        BY <4>1, <4>2 DEF Marked
      <4>4. RoundsAfterRestore'
        <5>1. ASSUME NEW x \in Loops, loops'[x] = "live", mark # "read"
              PROVE  overlapped /\ \E b \in Appliers : apply'[b].at = "reading" /\ apply'[b].loop # x
          <6>1. CASE loops[x] = "live"
            <7>1. overlapped /\ \E b \in Appliers : apply[b].at = "reading" /\ apply[b].loop # x
              BY <5>1, <6>1 DEF Marked, RoundsAfterRestore
            <7> QED
              BY <4>2, <7>1
          <6>2. CASE loops[x] # "live"
            <7>1. x = l
              BY <2>5, <5>1, <6>2
            <7>2. mark = "reading"
              BY <3>2, <5>1 DEF ApplyShape
            <7>3. PICK b \in Appliers : apply[b].at = "reading"
              BY <7>2 DEF Marked
            <7>4. b # a
              BY <3>2, <7>3
            <7>5. overlapped
              BY <3>2, <7>3, <7>4 DEF Overlap
            <7>6. apply'[b].at = "reading" /\ apply'[b].loop # x
              BY <2>3, <2>4, <7>1, <7>3, <7>4
            <7> QED
              BY <7>5, <7>6
          <6> QED
            BY <6>1, <6>2
        <5> QED
          BY <2>1, <4>1, <5>1 DEF RoundsAfterRestore
      <4> QED
        BY <4>1, <4>2, <4>3, <4>4 DEF Marked
    <3> QED
      BY <2>1, <3>1, <3>2
  <2> QED
    BY <2>6, <2>7, <2>8, <2>9, <2>10
<1> QED
  BY <1>1, <1>2, <1>3, <1>4, <1>5

\* Every step keeps what Apply relies on: a loop that ends was out of force, and Stop
\* puts the one in force out of it, installed or running.
LEMMA ApplyInvInductive == (Init => ApplyInv) /\ (ApplyInv /\ [Next]_vars => ApplyInv')
<1>1. Init => ApplyInv
  <2> SUFFICES ASSUME Init PROVE ApplyInv
    OBVIOUS
  <2>1. \A a \in Appliers : apply[a] = NoApply /\ apply[a].at = "idle" /\ apply[a].loop = NoLoop
    BY DEF Init, NoApply
  <2>2. \A l \in Loops : loops[l] = "unused"
    BY DEF Init
  <2>3. ApplyShape
    BY DEF Init, ApplyShape, NoApply, Calls, States
  <2>4. Holding /\ InForce /\ Overlap /\ Marked
    BY <2>1, <2>2, LifecycleAssumption DEF Init, Holding, InForce, Overlap, Marked, RoundsAfterRestore
  <2> QED
    BY <2>3, <2>4 DEF ApplyInv
<1>2. ASSUME ApplyInv, [Next]_vars PROVE ApplyInv'
  <2> USE <1>2 DEF ApplyInv
  <2>1. CASE \E a \in Appliers :
               \/ \E k \in Configs \cup {Off} : ApplyBegins(a, k)
               \/ ApplyChecks(a) \/ ApplyInstalls(a) \/ ApplyLoads(a) \/ ApplyRuns(a)
    BY <2>1, ApplyKeeps
  <2>2. ASSUME NEW l \in Loops, LoopEnds(l) PROVE ApplyInv'
    <3>1. /\ loops[l] = "cancelled" /\ loops' = [loops EXCEPT ![l] = "ended"]
          /\ UNCHANGED <<current, apply, mark, displaced, overlapped>>
      BY <2>2 DEF LoopEnds, applyVars, history
    <3>2. ApplyShape'
      BY <3>1 DEF ApplyShape, States
    <3>3. \A x \in Loops : loops'[x] # loops[x] =>
              loops[x] = "cancelled" /\ loops'[x] = "ended"
      BY <3>1 DEF ApplyShape
    <3>4. InForce'
      BY <3>1, <3>3 DEF InForce, ApplyShape
    <3>5. Holding'
      BY <3>1, <3>3 DEF Holding, ApplyShape, Calls
    <3>6. Overlap'
      BY <3>1 DEF Overlap
    <3> QED
      BY <3>1, <3>2, <3>3, <3>4, <3>5, <3>6 DEF Marked, RoundsAfterRestore
  <2>3. CASE StopApplies
    <3>1. /\ loops' = Cancelled /\ current' = NoLoop
          /\ UNCHANGED <<apply, mark, displaced, overlapped>>
      BY <2>3 DEF StopApplies, history
    <3> QED
      BY <3>1, CancelKeeps
  <2>4. CASE UNCHANGED <<current, loops, apply, mark, displaced, overlapped>>
    BY <2>4 DEF ApplyShape, Holding, InForce, Overlap, Marked, RoundsAfterRestore
  <2>5. CASE \/ \E r \in Reports : IncidentChecks(r) \/ IncidentRefused(r) \/ goBackground(r) \/ TaskEnds(r)
             \/ \E w \in Workers : withStore(w) \/ Written(w)
    <3>1. UNCHANGED <<current, loops, apply, mark, displaced, overlapped>>
      BY <2>5 DEF IncidentChecks, IncidentRefused, goBackground, TaskEnds, withStore, Written,
                  applyVars, history
    <3> QED
      BY <3>1, <2>4
  <2>6. CASE ShutdownCalled \/ ShutdownBegins \/ StopReads \/ StopWaits \/ BackgroundDone
             \/ ShutdownWaited \/ ShutdownLetsGo \/ RecordCloses \/ ServeFails \/ UNCHANGED vars
    <3>1. UNCHANGED <<current, loops, apply, mark, displaced, overlapped>>
      BY <2>6 DEF ShutdownCalled, ShutdownBegins, StopReads, StopWaits, BackgroundDone,
                  ShutdownWaited, ShutdownLetsGo, RecordCloses, ServeFails, applyVars, history, vars
    <3> QED
      BY <3>1, <2>4
  <2> QED
    BY <2>1, <2>2, <2>3, <2>5, <2>6 DEF Next
<1> QED
  BY <1>1, <1>2

\* Apply: with no call under way, the loops that run are the one in force and those
\* a call displaced that overlapped another, whatever Stop and Shutdown did between.
THEOREM OneLoopRuns == Spec => []LoopsMatchConfig
<1>1. ASSUME ApplyInv PROVE LoopsMatchConfig
  <2> USE <1>1 DEF ApplyInv
  <2>1. ASSUME \A a \in Appliers : apply[a] = NoApply
        PROVE  {l \in Loops : loops[l] = "live"} = ({current} \ {NoLoop}) \cup displaced
    <3>1. \A a \in Appliers : apply[a].loop \notin Loops
      BY <2>1, LifecycleAssumption DEF NoApply
    <3>2. \A l \in Loops : loops[l] # "installed"
      BY <3>1 DEF InForce
    <3>3. \A l \in Loops : loops[l] = "live" <=> l = current \/ l \in displaced
      BY <3>2, LifecycleAssumption DEF InForce
    <3>4. current \in Loops \cup {NoLoop} /\ displaced \subseteq Loops /\ NoLoop \notin Loops
      BY LifecycleAssumption DEF ApplyShape
    <3> QED
      BY <3>3, <3>4
  <2> QED
    BY <2>1 DEF LoopsMatchConfig, Overlap
<1> QED
  BY <1>1, ApplyInvInductive, PTL DEF Spec

\* loadHighWater: no round runs before the counter and the floor for the time are
\* restored from the record, but in a loop whose Apply overlapped the one that is
\* reading them.
THEOREM RestoredBeforeRounds == Spec => []RoundsAfterRestore
<1>1. ApplyInv => RoundsAfterRestore
  BY DEF ApplyInv, Marked
<1> QED
  BY <1>1, ApplyInvInductive, PTL DEF Spec
=============================================================================
