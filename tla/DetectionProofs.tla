-------------------------- MODULE DetectionProofs ---------------------------
(***************************************************************************)
(* What Detection promises for any number of monitors, components and      *)
(* incidents, any rollup rules, thresholds and maintenance windows.        *)
(***************************************************************************)
EXTENDS Detection, FiniteSetTheorems, TLAPS

Record == [status : {"unused", "open", "resolved"}, auto : BOOLEAN,
           components : SUBSET Components, opened : Int]

-----------------------------------------------------------------------------
(* Thresholds.                                                             *)

\* A capped count is the count or the cap, whichever is less.
LEMMA CappedIs ==
    ASSUME NEW n \in Nat, NEW max \in Nat
    PROVE  /\ Capped(n, max) \in Nat
           /\ n <= max => Capped(n, max) = n
           /\ n > max => Capped(n, max) = max
<1>1. CASE n <= max
  <2>1. \A x \in {n, max} : (\A y \in {n, max} : x <= y) => x = n
    BY <1>1
  <2>2. n \in {n, max} /\ \A y \in {n, max} : n <= y
    BY <1>1
  <2> QED
    BY <1>1, <2>1, <2>2 DEF Capped, Min
<1>2. CASE n > max
  <2>1. \A x \in {n, max} : (\A y \in {n, max} : x <= y) => x = max
    BY <1>2
  <2>2. max \in {n, max} /\ \A y \in {n, max} : max <= y
    BY <1>2
  <2> QED
    BY <1>2, <2>1, <2>2 DEF Capped, Min
<1> QED
  BY <1>1, <1>2

\* The longest run counted reaches both thresholds.
LEMMA MaxRunReaches ==
    MaxRun \in Nat /\ MaxRun >= FailureThreshold /\ MaxRun >= RecoveryThreshold /\ MaxRun >= 1
<1> DEFINE T == {FailureThreshold, RecoveryThreshold}
<1>1. FailureThreshold \in Nat \ {0} /\ RecoveryThreshold \in Nat \ {0}
  BY DetectionAssumption
<1>2. \E x \in T : \A y \in T : x >= y
  BY <1>1
<1>3. MaxRun \in T /\ \A y \in T : MaxRun >= y
  BY <1>2 DEF MaxRun, Max
<1> QED
  BY <1>1, <1>3

\* A monitor's count of equal readings never exceeds the run there really was.
RunOf(st, r) ==
    /\ st.consecutive \in Nat /\ r.n \in Nat
    /\ st.consecutive <= MaxRun /\ r.n <= MaxRun
    /\ st.raw \in {"up", "degraded", "down"} => r.verdict = st.raw /\ st.consecutive <= r.n
    /\ st.raw \in {"none", "error", "up", "degraded", "down"}

RunInv == \A m \in Monitors : RunOf(mstate[m], run[m])

\* The run after reading w.
RunAfter(r, w) ==
    IF w = "error" THEN r
    ELSE [verdict |-> w, n |-> IF r.verdict = w THEN Capped(r.n + 1, MaxRun) ELSE 1]

\* One reading keeps the count within the run, and declares only at a threshold.
LEMMA AdvanceRuns ==
    ASSUME NEW st, NEW r, NEW w \in Verdicts, RunOf(st, r)
    PROVE  LET t == advanceMonitor(st, w)
               s == RunAfter(r, w)
           IN  /\ RunOf(t, s)
               /\ st.verdict # "down" /\ t.verdict = "down" =>
                      s.verdict = "down" /\ s.n >= FailureThreshold
               /\ st.verdict = "down" /\ t.verdict # "down" =>
                      s.verdict = t.verdict /\ s.n >= RecoveryThreshold
<1>0. MaxRun \in Nat /\ MaxRun >= 1 /\ FailureThreshold \in Nat /\ RecoveryThreshold \in Nat
  BY MaxRunReaches, DetectionAssumption
<1> DEFINE t == advanceMonitor(st, w)
           s == RunAfter(r, w)
           n == consecutive(st, w)
<1>1. CASE w = "error"
  <2>1. t = [st EXCEPT !.seen = TRUE, !.raw = "error"] /\ s = r
    BY <1>1 DEF advanceMonitor, RunAfter
  <2>2. t.raw = "error" /\ t.consecutive = st.consecutive /\ t.verdict = st.verdict
    BY <2>1
  <2> QED
    BY <2>1, <2>2 DEF RunOf
<1>2. CASE w # "error"
  <2>1. w \in {"up", "degraded", "down"}
    BY <1>2 DEF Verdicts
  <2>2. /\ s.verdict = w
        /\ s.n = IF r.verdict = w THEN Capped(r.n + 1, MaxRun) ELSE 1
    BY <1>2 DEF RunAfter
  <2>3. /\ t.raw = w /\ t.consecutive = n
        /\ t.verdict = IF \/ st.verdict # "down" /\ w = "down" /\ n < FailureThreshold
                          \/ st.verdict = "down" /\ w # "down" /\ n < RecoveryThreshold
                       THEN st.verdict ELSE w
    BY <1>2 DEF advanceMonitor
  <2>4. st.consecutive \in Nat /\ r.n \in Nat /\ st.consecutive <= MaxRun /\ r.n <= MaxRun
    BY DEF RunOf
  <2>5. s.n \in Nat /\ 1 <= s.n /\ s.n <= MaxRun
    <3>1. r.n + 1 \in Nat
      BY <2>4
    <3>2. /\ Capped(r.n + 1, MaxRun) \in Nat
          /\ r.n + 1 <= MaxRun => Capped(r.n + 1, MaxRun) = r.n + 1
          /\ r.n + 1 > MaxRun => Capped(r.n + 1, MaxRun) = MaxRun
      BY <1>0, <3>1, CappedIs
    <3> HIDE DEF s
    <3> QED
      BY <1>0, <2>2, <2>4, <3>2
  <2>6. n \in Nat /\ n <= s.n
    <3>1. CASE st.raw = w
      <4>1. r.verdict = w /\ st.consecutive <= r.n
        BY <2>1, <3>1 DEF RunOf
      <4>2. n = Capped(st.consecutive + 1, MaxRun) /\ s.n = Capped(r.n + 1, MaxRun)
        BY <2>2, <3>1, <4>1 DEF consecutive
      <4>3. st.consecutive + 1 \in Nat /\ r.n + 1 \in Nat
        BY <2>4
      <4>4. /\ Capped(st.consecutive + 1, MaxRun) \in Nat
            /\ st.consecutive + 1 <= MaxRun =>
                  Capped(st.consecutive + 1, MaxRun) = st.consecutive + 1
            /\ st.consecutive + 1 > MaxRun => Capped(st.consecutive + 1, MaxRun) = MaxRun
        BY <1>0, <4>3, CappedIs
      <4>5. /\ r.n + 1 <= MaxRun => Capped(r.n + 1, MaxRun) = r.n + 1
            /\ r.n + 1 > MaxRun => Capped(r.n + 1, MaxRun) = MaxRun
        BY <1>0, <4>3, CappedIs
      <4> HIDE DEF n, s
      <4> QED
        BY <1>0, <2>4, <4>1, <4>2, <4>4, <4>5
    <3>2. CASE st.raw # w
      <4>1. n = 1
        BY <3>2 DEF consecutive
      <4> QED
        BY <2>5, <4>1
    <3> QED
      BY <3>1, <3>2
  <2> HIDE DEF n, s, t
  <2>7. RunOf(t, s)
    BY <1>0, <2>1, <2>2, <2>3, <2>5, <2>6 DEF RunOf
  <2> QED
    BY <1>0, <2>2, <2>3, <2>5, <2>6, <2>7 DEF t, s
<1> QED
  BY <1>1, <1>2

-----------------------------------------------------------------------------
(* Incidents.                                                              *)

\* A component with an incident is down; its incident was opened, and names it or a
\* component whose id matches.
Linked ==
    \A c \in Components : cstate[c].incident # NoIncident =>
        /\ cstate[c].verdict = "down"
        /\ cstate[c].incident \in Incidents
        /\ incidents[cstate[c].incident].status # "unused"
        /\ incidents[cstate[c].incident].components \cap Like[c] # {}

\* An incident the monitor opened is on one component.
OnOne ==
    \A i \in Incidents : incidents[i].auto =>
        \A c, d \in incidents[i].components : c = d

\* A monitor watches a component; the scheduler runs it under one, or not at all.
HomesOK ==
    home \in [Monitors -> Components] /\ listed \in [Monitors -> Components \cup {NoComponent}]

\* Flaps are counted.
FlapsOK ==
    /\ \A c \in Components : cstate[c].flaps \in Nat
    /\ flapTold \in [Components -> Nat] /\ hushed \in [Components -> BOOLEAN]

IInv ==
    /\ now \in Int /\ incidents \in [Incidents -> Record]
    /\ byHand \subseteq Incidents
    /\ quiet \in [Components -> BOOLEAN]
    /\ HomesOK /\ FlapsOK
    /\ RunInv /\ Linked /\ OnOne
    /\ AutoIncidentsEnd /\ AlertsTell

\* At the start no monitor has a run and no component an incident.
LEMMA InvInit == Init => IInv
<1> SUFFICES ASSUME Init PROVE IInv
  OBVIOUS
<1>1. RunInv
  BY MaxRunReaches DEF Init, RunInv, RunOf, NoMonitorState
<1>2. Linked /\ AlertsTell
  BY DetectionAssumption DEF Init, Linked, AlertsTell, NoComponentState
<1>6. HomesOK /\ FlapsOK
  BY DetectionAssumption DEF Init, HomesOK, FlapsOK, NoComponentState
<1>3. incidents \in [Incidents -> Record]
  BY DEF Init, Unused, Record
<1>4. OnOne /\ AutoIncidentsEnd
  BY DEF Init, OnOne, AutoIncidentsEnd, Unused
<1>5. now \in Int
  BY DetectionAssumption DEF Init, Start
<1> QED
  BY <1>1, <1>2, <1>3, <1>4, <1>5, <1>6 DEF Init, IInv

\* The components that change, the incidents they are given, and the incidents
\* opened and resolved with them.
Changes(new, given) ==
    /\ DOMAIN new \subseteq Components
    /\ \A c \in DOMAIN new : new[c] # cstate[c].verdict
    /\ given \in Given({c \in DOMAIN new : new[c] = "down"})

Opened(given) == {given[c] : c \in {d \in DOMAIN given : OpenOn(d) = {}}}
Back(new) == {c \in DOMAIN new : cstate[c].verdict = "down" /\ new[c] # "down"}
Resolved(new) == {i \in {cstate[c].incident : c \in Back(new)} : Resolves(i)}

\* A tick opens incidents never used, each for one component, and resolves only
\* incidents the monitor opened.
LEMMA ChangeIncidents ==
    ASSUME IInv, NEW new, NEW given, NEW W, Changes(new, given), Change(new, given, W)
    PROVE  /\ \A c \in DOMAIN given :
                  /\ c \in DOMAIN new /\ new[c] = "down" /\ given[c] \in Incidents
                  /\ OpenOn(c) # {} => /\ incidents[given[c]].status = "open"
                                       /\ incidents[given[c]].components \cap Like[c] # {}
                  /\ OpenOn(c) = {} => given[c] \in Free
           /\ \A i \in Opened(given) :
                  /\ i \in Free
                  /\ \A c, d \in {e \in DOMAIN given : given[e] = i} : c = d
           /\ \A c \in Components : cstate'[c].incident =
                  IF c \in DOMAIN given THEN given[c]
                  ELSE IF c \in Back(new) THEN NoIncident ELSE cstate[c].incident
           /\ \A i \in Incidents : incidents'[i] =
                  IF i \in Opened(given)
                  THEN [status |-> "open", auto |-> TRUE, opened |-> now,
                        components |-> {c \in DOMAIN given : given[c] = i}]
                  ELSE IF i \in Resolved(new) THEN [incidents[i] EXCEPT !.status = "resolved"]
                  ELSE incidents[i]
<1> DEFINE D == {c \in DOMAIN new : new[c] = "down"}
<1>1. /\ given \in [D -> Incidents]
      /\ \A c \in D : given[c] \in IF OpenOn(c) # {} THEN OpenOn(c) ELSE Free
      /\ \A c, d \in D : c # d /\ given[c] = given[d] => OpenOn(c) # {}
  BY DEF Changes, Given
<1>2. ASSUME NEW c \in DOMAIN given
      PROVE  /\ c \in DOMAIN new /\ new[c] = "down" /\ given[c] \in Incidents
             /\ OpenOn(c) # {} => /\ incidents[given[c]].status = "open"
                                       /\ incidents[given[c]].components \cap Like[c] # {}
             /\ OpenOn(c) = {} => given[c] \in Free
  <2>1. c \in D
    BY <1>1
  <2>2. OpenOn(c) # {} => given[c] \in OpenOn(c)
    BY <1>1, <2>1
  <2> QED
    BY <1>1, <2>1, <2>2 DEF OpenOn
<1>3. ASSUME NEW i \in Opened(given)
      PROVE  i \in Free /\ \A c, d \in {e \in DOMAIN given : given[e] = i} : c = d
  <2>1. PICK c \in DOMAIN given : OpenOn(c) = {} /\ given[c] = i
    BY DEF Opened
  <2>2. \A d \in DOMAIN given : given[d] = i => d = c
    BY <1>1, <2>1
  <2> QED
    BY <1>2, <2>1, <2>2
<1>4. \A c \in Components : cstate'[c].incident =
          IF c \in DOMAIN given THEN given[c]
          ELSE IF c \in Back(new) THEN NoIncident ELSE cstate[c].incident
  BY <1>2 DEF Change, Back
<1>5. \A i \in Incidents : incidents'[i] =
          IF i \in Opened(given)
          THEN [status |-> "open", auto |-> TRUE, opened |-> now,
                components |-> {c \in DOMAIN given : given[c] = i}]
          ELSE IF i \in Resolved(new) THEN [incidents[i] EXCEPT !.status = "resolved"]
          ELSE incidents[i]
  BY DEF Change, Opened, Resolved, Back
<1> QED
  BY <1>2, <1>3, <1>4, <1>5

\* A tick keeps the incidents' part of the invariant.
LEMMA ChangeKeepsIncidents ==
    ASSUME IInv, NEW new, NEW given, NEW W, Changes(new, given), Change(new, given, W),
           UNCHANGED <<now, byHand>>
    PROVE  incidents' \in [Incidents -> Record] /\ Linked' /\ OnOne' /\ AutoIncidentsEnd'
<1>1. /\ \A c \in DOMAIN given :
             /\ c \in DOMAIN new /\ new[c] = "down" /\ given[c] \in Incidents
             /\ OpenOn(c) # {} => /\ incidents[given[c]].status = "open"
                                       /\ incidents[given[c]].components \cap Like[c] # {}
             /\ OpenOn(c) = {} => given[c] \in Free
      /\ \A i \in Opened(given) :
             /\ i \in Free
             /\ \A c, d \in {e \in DOMAIN given : given[e] = i} : c = d
  BY ChangeIncidents
<1>2. \A c \in Components : cstate'[c].incident =
          IF c \in DOMAIN given THEN given[c]
          ELSE IF c \in Back(new) THEN NoIncident ELSE cstate[c].incident
  BY ChangeIncidents
<1>3. \A i \in Incidents : incidents'[i] =
          IF i \in Opened(given)
          THEN [status |-> "open", auto |-> TRUE, opened |-> now,
                components |-> {c \in DOMAIN given : given[c] = i}]
          ELSE IF i \in Resolved(new) THEN [incidents[i] EXCEPT !.status = "resolved"]
          ELSE incidents[i]
  BY ChangeIncidents
<1>4. DOMAIN new \subseteq Components /\ \A c \in DOMAIN new : new[c] # cstate[c].verdict
  BY DEF Changes
<1>5. \A i \in Incidents : incidents[i] \in Record
  BY DEF IInv
<1>6. NoIncident \notin Incidents
  BY DetectionAssumption
<1>7. \A c \in DOMAIN given : c \in Components /\ cstate[c].verdict # "down" /\ c \notin Back(new)
  BY <1>1, <1>4 DEF Back
<1>8. \A c \in Components : cstate'[c].verdict = IF c \in DOMAIN new THEN new[c] ELSE cstate[c].verdict
  BY DEF Change
<1>9. \A i \in Incidents :
         /\ i \in Opened(given) =>
               /\ incidents'[i].status = "open" /\ incidents'[i].auto = TRUE
               /\ incidents'[i].components = {c \in DOMAIN given : given[c] = i}
         /\ i \notin Opened(given) =>
               /\ incidents'[i].auto = incidents[i].auto
               /\ incidents'[i].components = incidents[i].components
               /\ incidents'[i].status = IF i \in Resolved(new) THEN "resolved" ELSE incidents[i].status
  <2> SUFFICES ASSUME NEW i \in Incidents
               PROVE  /\ i \in Opened(given) =>
                            /\ incidents'[i].status = "open" /\ incidents'[i].auto = TRUE
                            /\ incidents'[i].components = {c \in DOMAIN given : given[c] = i}
                      /\ i \notin Opened(given) =>
                            /\ incidents'[i].auto = incidents[i].auto
                            /\ incidents'[i].components = incidents[i].components
                            /\ incidents'[i].status =
                                  IF i \in Resolved(new) THEN "resolved" ELSE incidents[i].status
    OBVIOUS
  <2> DEFINE K == {c \in DOMAIN given : given[c] = i}
  <2>1. i \in Opened(given) =>
           incidents'[i] = [status |-> "open", auto |-> TRUE, opened |-> now, components |-> K]
    BY <1>3
  <2>2. i \notin Opened(given) => incidents'[i] =
           IF i \in Resolved(new) THEN [incidents[i] EXCEPT !.status = "resolved"] ELSE incidents[i]
    BY <1>3
  <2>3. incidents[i] \in Record
    BY <1>5
  <2> HIDE DEF K
  <2>4. i \in Opened(given) =>
           incidents'[i].status = "open" /\ incidents'[i].auto = TRUE /\ incidents'[i].components = K
    BY <2>1
  <2>5. i \notin Opened(given) =>
           /\ incidents'[i].auto = incidents[i].auto
           /\ incidents'[i].components = incidents[i].components
           /\ incidents'[i].status = IF i \in Resolved(new) THEN "resolved" ELSE incidents[i].status
    BY <2>2, <2>3 DEF Record
  <2> QED
    BY <2>4, <2>5 DEF K
<1>10. ASSUME NEW i \in Resolved(new), i \in Incidents
       PROVE  /\ incidents[i].auto /\ incidents[i].status = "open"
              /\ \E c \in Back(new) : cstate[c].incident = i
  BY <1>10 DEF Resolved, Resolves
<1>11. incidents' \in [Incidents -> Record]
  <2>1. \A i \in Incidents : incidents'[i] \in Record
    <3> SUFFICES ASSUME NEW i \in Incidents PROVE incidents'[i] \in Record
      OBVIOUS
    <3>1. CASE i \in Opened(given)
      <4> DEFINE K == {c \in DOMAIN given : given[c] = i}
      <4>1. K \in SUBSET Components /\ now \in Int
        BY <1>7 DEF IInv
      <4>2. incidents'[i] = [status |-> "open", auto |-> TRUE, opened |-> now, components |-> K]
        BY <1>3, <3>1
      <4> HIDE DEF K
      <4> QED
        BY <4>1, <4>2 DEF Record
    <3>2. CASE i \notin Opened(given)
      BY <1>3, <1>5, <3>2 DEF Record
    <3> QED
      BY <3>1, <3>2
  <2>2. incidents' = [i \in Incidents |-> incidents'[i]]
    BY DEF Change
  <2> QED
    BY <2>1, <2>2
<1>12. Linked'
  <2> SUFFICES ASSUME NEW c \in Components, cstate'[c].incident # NoIncident
               PROVE  /\ cstate'[c].verdict = "down"
                      /\ cstate'[c].incident \in Incidents
                      /\ incidents'[cstate'[c].incident].status # "unused"
                      /\ incidents'[cstate'[c].incident].components \cap Like[c] # {}
    BY DEF Linked
  <2>1. CASE c \in DOMAIN given
    <3>1. cstate'[c].incident = given[c] /\ cstate'[c].verdict = "down" /\ given[c] \in Incidents
      BY <1>1, <1>2, <1>8, <2>1
    <3>2. CASE given[c] \in Opened(given)
      <4>1. c \in Like[c]
        BY DetectionAssumption
      <4> QED
        BY <1>9, <2>1, <3>1, <3>2, <4>1
    <3>3. CASE given[c] \notin Opened(given)
      <4>1. OpenOn(c) # {}
        BY <2>1, <3>3 DEF Opened
      <4> QED
        BY <1>1, <1>9, <2>1, <3>1, <3>3, <4>1
    <3> QED
      BY <3>2, <3>3
  <2>2. CASE c \notin DOMAIN given
    <3>1. c \notin Back(new) /\ cstate'[c].incident = cstate[c].incident
      BY <1>2, <2>2
    <3>2. /\ cstate[c].verdict = "down" /\ cstate[c].incident \in Incidents
          /\ incidents[cstate[c].incident].status # "unused"
          /\ incidents[cstate[c].incident].components \cap Like[c] # {}
      BY <3>1 DEF IInv, Linked
    <3>3. cstate'[c].verdict = "down"
      BY <1>4, <1>8, <3>1, <3>2 DEF Back
    <3>4. cstate[c].incident \notin Opened(given)
      BY <1>1, <3>2 DEF Free
    <3> QED
      BY <1>9, <3>1, <3>2, <3>3, <3>4
  <2> QED
    BY <2>1, <2>2
<1>13. OnOne'
  <2> SUFFICES ASSUME NEW i \in Incidents, incidents'[i].auto,
                      NEW c \in incidents'[i].components, NEW d \in incidents'[i].components
               PROVE  c = d
    BY DEF OnOne
  <2>1. CASE i \in Opened(given)
    BY <1>1, <1>9, <2>1
  <2>2. CASE i \notin Opened(given)
    BY <1>9, <2>2 DEF IInv, OnOne
  <2> QED
    BY <2>1, <2>2
<1>14. AutoIncidentsEnd'
  <2> SUFFICES ASSUME NEW i \in Incidents \ byHand, incidents'[i].auto
               PROVE  /\ incidents'[i].status = "open" =>
                            \E c \in incidents'[i].components : cstate'[c].incident = i
                      /\ \A c \in incidents'[i].components :
                            cstate'[c].incident = i /\ Own(c) => incidents'[i].status = "open"
    BY DEF AutoIncidentsEnd
  <2>1. CASE i \in Opened(given)
    <3>1. PICK c \in DOMAIN given : given[c] = i
      BY <2>1 DEF Opened
    <3> QED
      BY <1>2, <1>7, <1>9, <2>1, <3>1
  <2>2. CASE i \notin Opened(given) /\ i \in Resolved(new)
    <3>1. PICK c \in Back(new) : cstate[c].incident = i
      BY <1>10, <2>2
    <3>2. c \in Components /\ incidents[i].components \cap Like[c] # {}
      BY <1>4, <1>6, <3>1 DEF Back, IInv, Linked
    <3>3. cstate'[c].incident = NoIncident
      BY <1>2, <1>7, <3>1, <3>2
    <3>4. ASSUME NEW d \in incidents[i].components, Own(d)
          PROVE  d = c
      <4>1. d \in Like[c]
        BY <1>10, <2>2, <3>2 DEF IInv, OnOne
      <4> QED
        BY <3>2, <3>4, <4>1 DEF Own
    <3> QED
      BY <1>6, <1>9, <2>2, <3>3, <3>4
  <2>3. CASE i \notin Opened(given) /\ i \notin Resolved(new)
    <3>1. /\ incidents'[i].status = incidents[i].status /\ incidents[i].auto
          /\ incidents'[i].components = incidents[i].components
      BY <1>9, <2>3
    <3>2. incidents[i].components \subseteq Components
      BY <1>5 DEF Record
    <3>3. /\ incidents[i].status = "open" => \E c \in incidents[i].components : cstate[c].incident = i
          /\ \A c \in incidents[i].components :
                cstate[c].incident = i /\ Own(c) => incidents[i].status = "open"
      BY <3>1 DEF IInv, AutoIncidentsEnd
    <3>4. ASSUME NEW c \in Components, cstate[c].incident = i, incidents[i].status = "open"
          PROVE  cstate'[c].incident = i
      <4>1. cstate[c].verdict = "down"
        BY <1>6, <3>4 DEF IInv, Linked
      <4>2. c \notin DOMAIN given
        BY <1>7, <4>1
      <4>3. Resolves(i)
        BY <1>6, <3>1, <3>4 DEF Resolves
      <4>4. c \notin Back(new)
        BY <2>3, <3>4, <4>3 DEF Resolved
      <4> QED
        BY <1>2, <3>4, <4>2, <4>4
    <3>5. ASSUME NEW c \in incidents[i].components, cstate'[c].incident = i, Own(c)
          PROVE  incidents[i].status = "open"
      <4>1. CASE c \in DOMAIN given
        <5>1. given[c] = i
          BY <1>2, <1>7, <3>5, <4>1
        <5>2. OpenOn(c) # {}
          BY <2>3, <4>1, <5>1 DEF Opened
        <5> QED
          BY <1>1, <4>1, <5>1, <5>2
      <4>2. CASE c \notin DOMAIN given
        <5>1. cstate[c].incident = i
          BY <1>2, <1>6, <3>2, <3>5, <4>2
        <5> QED
          BY <3>3, <3>5, <5>1
      <4> QED
        BY <4>1, <4>2
    <3> QED
      BY <3>1, <3>2, <3>3, <3>4, <3>5
  <2> QED
    BY <2>1, <2>2, <2>3
<1> QED
  BY <1>11, <1>12, <1>13, <1>14

\* A tick keeps the alerts in step: a change that is not silent raises its alert.
LEMMA ChangeKeepsAlerts ==
    ASSUME IInv, NEW new, NEW given, NEW W, Changes(new, given), Change(new, given, W)
    PROVE  quiet' \in [Components -> BOOLEAN] /\ FlapsOK' /\ AlertsTell'
<1> DEFINE silent(c) == c \in W \/ Flaps(cstate[c]) > flapThreshold
           event(c) == Event(cstate[c].verdict, new[c])
<1>1. /\ quiet' = [c \in Components |->
             IF c \in DOMAIN new /\ {cstate[c].verdict, new[c]} \cap {"down"} # {}
             THEN silent(c) ELSE quiet[c]]
      /\ told' = [c \in Components |->
             IF c \in DOMAIN new /\ event(c) # "none" /\ ~silent(c) THEN event(c) ELSE told[c]]
  BY DEF Change
<1>2. \A c \in Components : cstate'[c].verdict = IF c \in DOMAIN new THEN new[c] ELSE cstate[c].verdict
  BY DEF Change
<1>3. \A c \in Components : silent(c) \in BOOLEAN
  OBVIOUS
<1> HIDE DEF silent
<1>4. quiet' \in [Components -> BOOLEAN]
  BY <1>1, <1>3 DEF IInv
<1>5. ASSUME NEW c \in Components, ~quiet'[c]
      PROVE  told'[c] = "down" <=> cstate'[c].verdict = "down"
  <2>1. CASE c \notin DOMAIN new
    <3>1. quiet'[c] = quiet[c] /\ told'[c] = told[c] /\ cstate'[c].verdict = cstate[c].verdict
      BY <1>1, <1>2, <2>1
    <3> QED
      BY <1>5, <3>1 DEF IInv, AlertsTell
  <2>2. CASE c \in DOMAIN new /\ cstate[c].verdict # "down" /\ new[c] # "down"
    <3>1. event(c) = "none"
      BY <2>2 DEF Event
    <3>2. quiet'[c] = quiet[c] /\ told'[c] = told[c]
      BY <1>1, <2>2, <3>1
    <3> QED
      BY <1>2, <1>5, <2>2, <3>2 DEF IInv, AlertsTell
  <2>3. CASE c \in DOMAIN new /\ (cstate[c].verdict = "down" \/ new[c] = "down")
    <3>1. {cstate[c].verdict, new[c]} \cap {"down"} # {}
      BY <2>3
    <3>2. ~silent(c)
      BY <1>1, <1>5, <2>3, <3>1
    <3>3. event(c) = IF new[c] = "down" THEN "down" ELSE "up"
      BY <2>3 DEF Event
    <3>4. told'[c] = event(c)
      BY <1>1, <2>3, <3>2, <3>3
    <3> QED
      BY <1>2, <2>3, <3>3, <3>4
  <2> QED
    BY <2>1, <2>2, <2>3
<1>6. ASSUME NEW c \in Components
      PROVE  /\ cstate'[c].flaps \in Nat /\ flapTold'[c] \in Nat /\ hushed'[c] \in BOOLEAN
             /\ flapTold'[c] = IF cstate'[c].flaps > flapThreshold /\ ~hushed'[c] THEN 1 ELSE 0
  <2>1. /\ cstate[c].flaps \in Nat /\ flapTold[c] \in Nat /\ hushed[c] \in BOOLEAN
        /\ flapTold[c] = IF cstate[c].flaps > flapThreshold /\ ~hushed[c] THEN 1 ELSE 0
    BY DEF IInv, FlapsOK, AlertsTell
  <2> DEFINE f == Flaps(cstate[c])
             starts == c \in DOMAIN new /\ f = flapThreshold + 1
             sent == IF c \in DOMAIN new /\ NewCount(cstate[c]) THEN 0 ELSE flapTold[c]
  <2>2. /\ cstate'[c].flaps = IF c \in DOMAIN new THEN f ELSE cstate[c].flaps
        /\ flapTold'[c] = IF starts /\ c \notin W THEN sent + 1 ELSE sent
        /\ hushed'[c] = IF starts THEN c \in W ELSE hushed[c]
    BY DEF Change
  <2>3. CASE c \notin DOMAIN new
    BY <2>1, <2>2, <2>3
  <2>4. CASE c \in DOMAIN new
    <3>1. flapThreshold \in Nat /\ MaxFlaps \in Nat /\ MaxFlaps = flapThreshold + 2
      BY DetectionAssumption DEF MaxFlaps
    <3>2. cstate[c].flaps + 1 \in Nat
      BY <2>1
    <3>3. /\ Capped(cstate[c].flaps + 1, MaxFlaps) \in Nat
          /\ cstate[c].flaps + 1 <= MaxFlaps =>
                Capped(cstate[c].flaps + 1, MaxFlaps) = cstate[c].flaps + 1
          /\ cstate[c].flaps + 1 > MaxFlaps => Capped(cstate[c].flaps + 1, MaxFlaps) = MaxFlaps
      BY <3>1, <3>2, CappedIs
    <3>4. flapTold[c] = 0 \/ cstate[c].flaps > flapThreshold
      BY <2>1
    <3>5. f \in Nat /\ (f = flapThreshold + 1 => sent = 0)
      BY <2>1, <2>4, <3>1, <3>3, <3>4 DEF Flaps
    <3>6. f <= flapThreshold => sent = 0
      BY <2>1, <2>4, <3>1, <3>3, <3>4 DEF Flaps
    <3>7. f > flapThreshold + 1 => sent = flapTold[c] /\ cstate[c].flaps > flapThreshold
      BY <2>1, <2>4, <3>1, <3>3 DEF Flaps
    <3> HIDE DEF f, sent
    <3>8. CASE f <= flapThreshold
      <4>1. ~starts /\ ~(f > flapThreshold)
        BY <3>1, <3>5, <3>8
      <4> QED
        BY <2>1, <2>2, <2>4, <3>5, <3>6, <3>8, <4>1
    <3>9. CASE f = flapThreshold + 1
      <4>1. starts /\ f > flapThreshold /\ sent = 0
        BY <2>4, <3>1, <3>5, <3>9
      <4> HIDE DEF starts
      <4>2. cstate'[c].flaps = f /\ hushed'[c] = (c \in W)
        BY <2>2, <2>4, <4>1
      <4>3. CASE c \in W
        <5>1. hushed'[c] = TRUE
          BY <4>2, <4>3, Zenon
        <5>2. flapTold'[c] = 0
          BY <2>2, <4>1, <4>3
        <5> QED
          BY <3>5, <4>1, <4>2, <5>1, <5>2
      <4>4. CASE c \notin W
        <5>0. hushed'[c] \in BOOLEAN
          BY <4>2
        <5>1. ~hushed'[c]
          BY <4>2, <4>4, Zenon
        <5>2. flapTold'[c] = sent + 1
          BY <2>2, <4>1, <4>4
        <5>3. flapTold'[c] = 1
          BY <4>1, <5>2
        <5> QED
          BY <3>5, <4>1, <4>2, <5>0, <5>1, <5>3
      <4> QED
        BY <4>3, <4>4
    <3>10. CASE f > flapThreshold + 1
      <4>1. ~starts /\ f > flapThreshold
        BY <3>1, <3>5, <3>10
      <4>2. /\ cstate'[c].flaps = f /\ hushed'[c] = hushed[c] /\ flapTold'[c] = flapTold[c]
            /\ cstate[c].flaps > flapThreshold
        BY <2>2, <2>4, <3>7, <3>10, <4>1
      <4> QED
        BY <2>1, <3>5, <4>1, <4>2
    <3> QED
      BY <3>1, <3>5, <3>8, <3>9, <3>10
  <2> QED
    BY <2>3, <2>4
<1>7. FlapsOK'
  <2>1. /\ flapTold' = [c \in Components |-> flapTold'[c]]
        /\ hushed' = [c \in Components |-> hushed'[c]]
    BY DEF Change
  <2> QED
    BY <1>6, <2>1 DEF FlapsOK
<1> QED
  BY <1>4, <1>5, <1>6, <1>7 DEF AlertsTell

-----------------------------------------------------------------------------
(* Steps.                                                                  *)

\* A tick is a change of components, and advances the monitors it read.
LEMMA TickIs ==
    ASSUME HomesOK, NEW S \in SUBSET Due, NEW v \in [S -> Verdicts], NEW W, Tick(v, W)
    PROVE  /\ \E new, given : Changes(new, given) /\ Change(new, given, W)
           /\ \A m \in Monitors :
                  /\ m \in S => /\ mstate'[m] = advanceMonitor(mstate[m], v[m])
                                /\ run'[m] = RunAfter(run[m], v[m])
                  /\ m \notin S => mstate'[m] = mstate[m] /\ run'[m] = run[m]
           /\ UNCHANGED <<now, home, listed, byHand>>
<1> DEFINE ms == [m \in Monitors |->
                    IF m \in DOMAIN v THEN advanceMonitor(mstate[m], v[m]) ELSE mstate[m]]
           rolled == {c \in touched(DOMAIN v, ms) : Counted(c, ms) # {}}
           changed == {c \in rolled : Rolled(c, ms) # cstate[c].verdict}
           new == [c \in changed |-> Rolled(c, ms)]
<1>1. /\ mstate' = ms /\ Remember(v) /\ UNCHANGED <<now, home, listed, byHand>>
      /\ \E given \in Given({c \in changed : new[c] = "down"}) : Change(new, given, W)
  BY DEF Tick, modelVars
<1>2. changed \subseteq Components
  <2>1. \A m \in S : m \in Monitors /\ listed[m] \in Components
    BY DEF Due, HomesOK
  <2> QED
    BY <2>1 DEF touched
<1>3. \E x, given : Changes(x, given) /\ Change(x, given, W)
  <2>1. PICK given \in Given({c \in changed : new[c] = "down"}) : Change(new, given, W)
    BY <1>1
  <2>2. DOMAIN new = changed /\ \A c \in changed : new[c] # cstate[c].verdict
    OBVIOUS
  <2> HIDE DEF new, changed
  <2>3. Changes(new, given)
    BY <1>2, <2>1, <2>2 DEF Changes
  <2> QED
    BY <2>1, <2>3
<1>4. \A m \in Monitors :
         /\ m \in S => mstate'[m] = advanceMonitor(mstate[m], v[m])
         /\ m \notin S => mstate'[m] = mstate[m]
  BY <1>1
<1>5. \A m \in Monitors :
         /\ m \in S => run'[m] = RunAfter(run[m], v[m])
         /\ m \notin S => run'[m] = run[m]
  BY <1>1 DEF Remember, RunAfter
<1> QED
  BY <1>1, <1>3, <1>4, <1>5

\* A tick keeps the runs, and declares only at a threshold.
LEMMA TickRuns ==
    ASSUME HomesOK, RunInv, NEW S \in SUBSET Due, NEW v \in [S -> Verdicts], NEW W, Tick(v, W)
    PROVE  /\ RunInv'
           /\ \A m \in Monitors :
                 /\ mstate[m].verdict # "down" /\ mstate'[m].verdict = "down" =>
                        run'[m].verdict = "down" /\ run'[m].n >= FailureThreshold
                 /\ mstate[m].verdict = "down" /\ mstate'[m].verdict # "down" =>
                        run'[m].verdict = mstate'[m].verdict /\ run'[m].n >= RecoveryThreshold
<1> SUFFICES ASSUME NEW m \in Monitors
             PROVE  /\ RunOf(mstate'[m], run'[m])
                    /\ mstate[m].verdict # "down" /\ mstate'[m].verdict = "down" =>
                          run'[m].verdict = "down" /\ run'[m].n >= FailureThreshold
                    /\ mstate[m].verdict = "down" /\ mstate'[m].verdict # "down" =>
                          run'[m].verdict = mstate'[m].verdict /\ run'[m].n >= RecoveryThreshold
  BY DEF RunInv, RunOf
<1>0. RunOf(mstate[m], run[m])
  BY DEF RunInv
<1>1. CASE m \in S
  <2>1. v[m] \in Verdicts
    BY <1>1
  <2>2. mstate'[m] = advanceMonitor(mstate[m], v[m]) /\ run'[m] = RunAfter(run[m], v[m])
    BY <1>1, TickIs
  <2> QED
    BY <1>0, <2>1, <2>2, AdvanceRuns
<1>2. CASE m \notin S
  <2>1. mstate'[m] = mstate[m] /\ run'[m] = run[m]
    BY <1>2, TickIs
  <2> QED
    BY <1>0, <2>1
<1> QED
  BY <1>1, <1>2

\* People amend monitors and components.
Amendment ==
    \/ \E m \in Switchable : SetMonitorEnabled(m)
    \/ \E m \in Monitors : \E c \in Homes[m], on \in BOOLEAN : UpsertMonitor(m, c, on)
    \/ \E c \in Components : \E r \in Rules[c] : UpsertComponent(c, r)

\* An amendment touches no state, no incident and no alert.
LEMMA AmendmentLeaves ==
    ASSUME HomesOK, Amendment
    PROVE  /\ HomesOK'
           /\ UNCHANGED <<now, listed, mstate, cstate, incidents, told>>
           /\ UNCHANGED <<run, quiet, flapTold, hushed, byHand, joined>>
<1>1. /\ UNCHANGED <<now, listed, mstate, cstate, incidents, told>>
      /\ UNCHANGED <<run, quiet, flapTold, hushed, byHand, joined>>
  BY DEF Amendment, SetMonitorEnabled, UpsertMonitor, UpsertComponent, Amends, recordVars
<1>2. home' \in [Monitors -> Components]
  <2>1. CASE UNCHANGED home
    BY <2>1 DEF HomesOK
  <2>2. ASSUME NEW m \in Monitors, NEW c \in Homes[m], home' = [home EXCEPT ![m] = c]
        PROVE  home' \in [Monitors -> Components]
    <3>1. c \in Components
      BY DetectionAssumption
    <3> QED
      BY <2>2, <3>1 DEF HomesOK
  <2> QED
    BY <2>1, <2>2 DEF Amendment, SetMonitorEnabled, UpsertMonitor, UpsertComponent
<1> QED
  BY <1>1, <1>2 DEF HomesOK

\* Neither time nor the scheduler's list touches them either.
LEMMA CalmLeaves ==
    ASSUME HomesOK, now \in Int, UNCHANGED vars \/ Passes \/ reload
    PROVE  /\ HomesOK' /\ now' \in Int
           /\ UNCHANGED <<enabled, home, rule, mstate, cstate, incidents, told>>
           /\ UNCHANGED <<run, quiet, flapTold, hushed, byHand, amended, joined>>
<1>1. /\ UNCHANGED <<enabled, home, rule, mstate, cstate, incidents, told>>
      /\ UNCHANGED <<run, quiet, flapTold, hushed, byHand, amended, joined>>
  BY DEF vars, Passes, reload, modelVars, recordVars, historyVars
<1>2. now' \in Int
  BY DEF vars, Passes, reload
<1>3. listed' \in [Monitors -> Components \cup {NoComponent}]
  BY DEF vars, Passes, reload, HomesOK
<1> QED
  BY <1>1, <1>2, <1>3 DEF HomesOK

\* Every step keeps the invariant.
LEMMA InvStep ==
    ASSUME IInv, [Next]_vars
    PROVE  IInv'
<1> USE DEF modelVars, recordVars, historyVars
<1>1. CASE UNCHANGED vars \/ Passes \/ reload \/ Amendment
  <2>1. /\ HomesOK' /\ now' \in Int
        /\ UNCHANGED <<mstate, cstate, incidents, told, run, quiet, flapTold, hushed, byHand>>
    BY <1>1, AmendmentLeaves, CalmLeaves DEF IInv
  <2> QED
    BY <2>1 DEF IInv, RunInv, RunOf, Linked, OnOne, AutoIncidentsEnd, AlertsTell, FlapsOK
<1>2. ASSUME NEW S \in SUBSET Due, NEW v \in [S -> Verdicts], NEW W, Tick(v, W)
      PROVE  IInv'
  <2>1. PICK new, given : Changes(new, given) /\ Change(new, given, W)
    BY <1>2, TickIs DEF IInv
  <2>2. UNCHANGED <<now, home, listed, byHand>>
    BY <1>2 DEF Tick
  <2>3. incidents' \in [Incidents -> Record] /\ Linked' /\ OnOne' /\ AutoIncidentsEnd'
    BY <2>1, <2>2, ChangeKeepsIncidents
  <2>4. quiet' \in [Components -> BOOLEAN] /\ FlapsOK' /\ AlertsTell'
    BY <2>1, ChangeKeepsAlerts
  <2>5. RunInv'
    BY <1>2, TickRuns DEF IInv
  <2> QED
    BY <2>2, <2>3, <2>4, <2>5 DEF IInv, HomesOK
<1>3. ASSUME NEW C \in Named, OpenIncident(C)
      PROVE  IInv'
  <2>1. PICK i \in Free :
           /\ incidents' = [incidents EXCEPT ![i] =
                 [status |-> "open", auto |-> FALSE, components |-> C, opened |-> now]]
           /\ byHand' = byHand \cup {i}
    BY <1>3 DEF OpenIncident
  <2>2. UNCHANGED <<now, home, listed, mstate, cstate, told, run, quiet, flapTold, hushed>>
    BY <1>3 DEF OpenIncident
  <2>3. i \in Incidents /\ incidents[i].status = "unused"
    BY DEF Free
  <2>4. incidents' \in [Incidents -> Record]
    BY <2>1, <2>3, DetectionAssumption DEF IInv, Record
  <2>5. incidents'[i].auto = FALSE /\ \A j \in Incidents \ {i} : incidents'[j] = incidents[j]
    BY <2>1, <2>3 DEF IInv
  <2>6. Linked'
    <3>1. \A c \in Components : cstate[c].incident # i
      BY <2>3, DetectionAssumption DEF IInv, Linked
    <3> QED
      BY <2>2, <2>5, <3>1 DEF IInv, Linked
  <2>7. OnOne' /\ AutoIncidentsEnd'
    BY <2>1, <2>2, <2>5 DEF IInv, OnOne, AutoIncidentsEnd
  <2>8. RunInv' /\ AlertsTell' /\ HomesOK' /\ FlapsOK'
    BY <2>2 DEF IInv, RunInv, RunOf, AlertsTell, HomesOK, FlapsOK
  <2> QED
    BY <2>1, <2>2, <2>3, <2>4, <2>6, <2>7, <2>8 DEF IInv
<1>4. ASSUME NEW i \in Incidents, NEW status \in {"open", "resolved"}, UpdateIncident(i, status)
      PROVE  IInv'
  <2>1. incidents' = [incidents EXCEPT ![i].status = status] /\ byHand' = byHand \cup {i}
    BY <1>4 DEF UpdateIncident
  <2>2. UNCHANGED <<now, home, listed, mstate, cstate, told, run, quiet, flapTold, hushed>>
    BY <1>4 DEF UpdateIncident
  <2>3. incidents[i] \in Record /\ incidents \in [Incidents -> Record]
    BY DEF IInv
  <2>4. incidents' \in [Incidents -> Record]
    BY <2>1, <2>3 DEF Record
  <2>5. /\ \A j \in Incidents \ {i} : incidents'[j] = incidents[j]
        /\ incidents'[i].auto = incidents[i].auto
        /\ incidents'[i].components = incidents[i].components
        /\ incidents'[i].status = status
    BY <2>1, <2>3 DEF Record
  <2>6. Linked'
    BY <2>2, <2>5 DEF IInv, Linked
  <2>7. OnOne'
    BY <2>5 DEF IInv, OnOne
  <2>8. AutoIncidentsEnd'
    BY <2>1, <2>2, <2>5 DEF IInv, AutoIncidentsEnd
  <2>9. RunInv' /\ AlertsTell' /\ HomesOK' /\ FlapsOK'
    BY <2>2 DEF IInv, RunInv, RunOf, AlertsTell, HomesOK, FlapsOK
  <2> QED
    BY <2>1, <2>2, <2>4, <2>6, <2>7, <2>8, <2>9 DEF IInv
<1> QED
  BY <1>1, <1>2, <1>3, <1>4 DEF Next, Amendment

\* No step resolves an incident a person opened but the person's own.
LEMMA StayStep ==
    ASSUME IInv, [Next]_vars, NEW i \in Incidents,
           incidents[i].status = "open", ~incidents[i].auto, incidents'[i].status = "resolved"
    PROVE  i \in byHand' /\ UNCHANGED mstate
<1> USE DEF modelVars, recordVars, historyVars
<1>1. CASE UNCHANGED vars \/ Passes \/ reload \/ Amendment
  <2>1. UNCHANGED incidents
    BY <1>1, AmendmentLeaves, CalmLeaves DEF IInv
  <2> QED
    BY <2>1
<1>2. ASSUME NEW S \in SUBSET Due, NEW v \in [S -> Verdicts], NEW W, Tick(v, W)
      PROVE  FALSE
  <2>1. PICK new, given : Changes(new, given) /\ Change(new, given, W)
    BY <1>2, TickIs DEF IInv
  <2>2. \A j \in Opened(given) : j \in Free
    BY <2>1, ChangeIncidents
  <2>3. i \notin Opened(given)
    BY <2>2 DEF Free
  <2>4. i \notin Resolved(new)
    BY DEF Resolved, Resolves
  <2>5. incidents'[i] =
           IF i \in Opened(given)
           THEN [status |-> "open", auto |-> TRUE, opened |-> now,
                 components |-> {c \in DOMAIN given : given[c] = i}]
           ELSE IF i \in Resolved(new) THEN [incidents[i] EXCEPT !.status = "resolved"]
           ELSE incidents[i]
    BY <2>1, ChangeIncidents
  <2> QED
    BY <2>3, <2>4, <2>5
<1>3. ASSUME NEW C \in Named, OpenIncident(C)
      PROVE  FALSE
  <2>1. PICK j \in Free : incidents' = [incidents EXCEPT ![j] =
           [status |-> "open", auto |-> FALSE, components |-> C, opened |-> now]]
    BY <1>3 DEF OpenIncident
  <2>2. incidents'[i] = incidents[i]
    BY <2>1 DEF Free, IInv
  <2> QED
    BY <2>2
<1>4. ASSUME NEW j \in Incidents, NEW status \in {"open", "resolved"}, UpdateIncident(j, status)
      PROVE  i \in byHand' /\ UNCHANGED mstate
  <2>1. /\ incidents' = [incidents EXCEPT ![j].status = status]
        /\ byHand' = byHand \cup {j} /\ UNCHANGED mstate
    BY <1>4 DEF UpdateIncident
  <2>2. i # j => incidents'[i] = incidents[i]
    BY <2>1 DEF IInv
  <2> QED
    BY <2>1, <2>2
<1> QED
  BY <1>1, <1>2, <1>3, <1>4 DEF Next, Amendment

\* No step declares a monitor down, or back, but at its threshold.
LEMMA DeclaredStep ==
    ASSUME IInv, [Next]_vars, NEW m \in Monitors
    PROVE  /\ mstate[m].verdict # "down" /\ mstate'[m].verdict = "down" =>
                  run'[m].verdict = "down" /\ run'[m].n >= FailureThreshold
           /\ mstate[m].verdict = "down" /\ mstate'[m].verdict # "down" =>
                  run'[m].verdict = mstate'[m].verdict /\ run'[m].n >= RecoveryThreshold
<1> USE DEF modelVars, recordVars, historyVars
<1>1. CASE \/ UNCHANGED vars \/ Passes \/ reload \/ Amendment
           \/ \E C \in Named : OpenIncident(C)
           \/ \E i \in Incidents, status \in {"open", "resolved"} : UpdateIncident(i, status)
  <2>1. UNCHANGED mstate
    BY <1>1, AmendmentLeaves, CalmLeaves DEF IInv, OpenIncident, UpdateIncident
  <2> QED
    BY <2>1
<1>2. ASSUME NEW S \in SUBSET Due, NEW v \in [S -> Verdicts], NEW W, Tick(v, W)
      PROVE  /\ mstate[m].verdict # "down" /\ mstate'[m].verdict = "down" =>
                    run'[m].verdict = "down" /\ run'[m].n >= FailureThreshold
             /\ mstate[m].verdict = "down" /\ mstate'[m].verdict # "down" =>
                    run'[m].verdict = mstate'[m].verdict /\ run'[m].n >= RecoveryThreshold
  BY <1>2, TickRuns DEF IInv
<1> QED
  BY <1>1, <1>2 DEF Next, Amendment

\* advanceMonitor, rollUpComponent, OpenIncident and UpdateIncident keep the
\* invariant the theorems below rest on.
THEOREM DetectionSound == Spec => []IInv
BY InvInit, InvStep, PTL DEF Spec

\* advanceMonitor: whatever the thresholds, a monitor is declared down, and back,
\* only by a run of equal readings as long as the threshold.
THEOREM DeclaredByThreshold == Spec => DeclaredByRun
<1>1. IInv /\ [Next]_vars =>
         \A m \in Monitors :
            LET old == mstate[m].verdict
                new == mstate'[m].verdict
            IN  /\ old # "down" /\ new = "down" =>
                      run'[m].verdict = "down" /\ run'[m].n >= FailureThreshold
                /\ old = "down" /\ new # "down" =>
                      run'[m].verdict = new /\ run'[m].n >= RecoveryThreshold
  BY DeclaredStep
<1> QED
  BY <1>1, DetectionSound, PTL DEF Spec, DeclaredByRun

\* openAutoIncident and resolveAutoIncident: however many components fail at once,
\* however their ids match, and whatever people open beside it, an incident of the
\* monitor's own is open only as long as its component is down, and that long if no
\* other component's id is found in its component's.
THEOREM IncidentsEnd == Spec => []AutoIncidentsEnd
<1>1. IInv => AutoIncidentsEnd
  BY DEF IInv
<1> QED
  BY <1>1, DetectionSound, PTL

\* resolveAutoIncident: no tick resolves an incident a person opened.
THEOREM HumanIncidentsLeft == Spec => HumanIncidentsStay
<1>1. IInv /\ [Next]_vars =>
         \A i \in Incidents :
            incidents[i].status = "open" /\ ~incidents[i].auto /\ incidents'[i].status = "resolved"
              => i \in byHand' /\ UNCHANGED mstate
  BY StayStep
<1> QED
  BY <1>1, DetectionSound, PTL DEF Spec, HumanIncidentsStay

\* raise: under any rollup rule, the last alert sent tells whether the component is
\* down, unless the last change to or from down was silenced.
THEOREM AlertsTellTrue == Spec => []AlertsTell
<1>1. IInv => AlertsTell
  BY DEF IInv
<1> QED
  BY <1>1, DetectionSound, PTL

-----------------------------------------------------------------------------
(* Components.                                                             *)

Read == {"up", "degraded", "down"}

IsState(st) ==
    st = [seen |-> st.seen, verdict |-> st.verdict, raw |-> st.raw, consecutive |-> st.consecutive]

\* A monitor's verdict is never an error, and is up until it is seen.
StateOK(st) == IsState(st) /\ st.verdict \in Read /\ (~st.seen => st.verdict = "up")
StatesOK(ms) == \A m \in Monitors : StateOK(ms[m])

\* What the worst of some verdicts is.
LEMMA WorstIs ==
    ASSUME NEW V \in SUBSET Read, "up" \in V, "down" \notin V
    PROVE  Worst(V) = IF "degraded" \in V THEN "degraded" ELSE "up"
<1>1. rank["up"] = 0 /\ rank["degraded"] = 2
  BY DEF rank
<1>2. \A v \in V : v = "up" \/ v = "degraded"
  BY DEF Read
<1>3. CASE "degraded" \in V
  <2>1. \A w \in V : rank[w] <= rank["degraded"]
    BY <1>1, <1>2
  <2>2. \A v \in V : (\A w \in V : rank[w] <= rank[v]) => v = "degraded"
    BY <1>1, <1>2, <1>3
  <2> QED
    BY <1>3, <2>1, <2>2 DEF Worst
<1>4. CASE "degraded" \notin V
  <2>1. V = {"up"}
    BY <1>2, <1>4
  <2>2. \A w \in V : rank[w] <= rank["up"]
    BY <1>1, <2>1
  <2> QED
    BY <1>4, <2>1, <2>2 DEF Worst
<1> QED
  BY <1>3, <1>4

\* rollUpComponent: the verdict a rule makes of some monitors is down, degraded or up.
LEMMA RollUpIs ==
    ASSUME NEW r, NEW ms, StatesOK(ms), NEW seen \in SUBSET Monitors
    PROVE  RollUp(r, seen, ms) =
               IF AllDown(r, Cardinality({m \in seen : ms[m].verdict = "down"}), Cardinality(seen))
               THEN "down"
               ELSE IF \E m \in seen : ms[m].verdict # "up" THEN "degraded" ELSE "up"
<1> DEFINE V == {"up"} \cup {ms[m].verdict : m \in seen}
           all == AllDown(r, Cardinality({m \in seen : ms[m].verdict = "down"}), Cardinality(seen))
<1>1. RollUp(r, seen, ms) = IF all THEN "down" ELSE IF Worst(V) = "down" THEN "degraded" ELSE Worst(V)
  BY DEF RollUp
<1>2. V \subseteq Read /\ "up" \in V
  BY DEF StatesOK, StateOK, Read
<1>3. (\E m \in seen : ms[m].verdict # "up") <=> ("down" \in V \/ "degraded" \in V)
  BY DEF StatesOK, StateOK, Read
<1> HIDE DEF all, V
<1>4. CASE "down" \in V
  <2>1. rank["up"] = 0 /\ rank["degraded"] = 2 /\ rank["down"] = 3
    BY DEF rank
  <2>2. \A v \in V : v \in {"up", "degraded", "down"}
    BY <1>2 DEF Read
  <2>3. \A w \in V : rank[w] <= rank["down"]
    BY <2>1, <2>2
  <2>4. \A v \in V : (\A w \in V : rank[w] <= rank[v]) => v = "down"
    BY <1>4, <2>1, <2>2
  <2>5. Worst(V) = "down"
    BY <1>4, <2>3, <2>4 DEF Worst
  <2> QED
    BY <1>1, <1>3, <1>4, <2>5 DEF all
<1>5. CASE "down" \notin V
  <2>1. Worst(V) = IF "degraded" \in V THEN "degraded" ELSE "up"
    BY <1>2, <1>5, WorstIs
  <2> QED
    BY <1>1, <1>3, <1>5, <2>1 DEF all
<1> QED
  BY <1>4, <1>5

\* More monitors that are up make a component no worse, and under the rule any no
\* better either.
LEMMA JoinedUp ==
    ASSUME NEW r \in {"any", "all", "majority"}, NEW ms, NEW mt, StatesOK(ms), StatesOK(mt),
           NEW A \in SUBSET Monitors, NEW B \in SUBSET Monitors, A \subseteq B, B # {},
           \A m \in A : mt[m].verdict = ms[m].verdict,
           \A m \in B \ A : mt[m].verdict = "up"
    PROVE  /\ A = {} => RollUp(r, B, mt) = "up"
           /\ A # {} => rank[RollUp(r, B, mt)] <= rank[RollUp(r, A, ms)]
           /\ A # {} /\ r = "any" => RollUp(r, B, mt) = RollUp(r, A, ms)
           /\ A = B => RollUp(r, B, mt) = RollUp(r, A, ms)
<1> DEFINE D == {m \in A : ms[m].verdict = "down"}
           E == {m \in B : mt[m].verdict = "down"}
<1>1. D = E /\ D \subseteq A /\ A \subseteq B
  OBVIOUS
<1>2. (\E m \in B : mt[m].verdict # "up") <=> (\E m \in A : ms[m].verdict # "up")
  OBVIOUS
<1>3. /\ IsFiniteSet(A) /\ IsFiniteSet(B) /\ IsFiniteSet(D)
      /\ Cardinality(D) \in Nat /\ Cardinality(A) \in Nat /\ Cardinality(B) \in Nat
      /\ Cardinality(D) <= Cardinality(A) /\ Cardinality(A) <= Cardinality(B)
      /\ Cardinality(B) # 0 /\ (A = {} => Cardinality(D) = 0)
  <2>1. IsFiniteSet(B)
    BY DetectionAssumption, FS_Subset
  <2>2. IsFiniteSet(A) /\ Cardinality(A) <= Cardinality(B)
    BY <2>1, FS_Subset
  <2> HIDE DEF D
  <2>3. IsFiniteSet(D) /\ Cardinality(D) <= Cardinality(A)
    BY <1>1, <2>2, FS_Subset
  <2>4. A = {} => D = {}
    BY <1>1
  <2> QED
    BY <2>1, <2>2, <2>3, <2>4, FS_CardinalityType, FS_EmptySet
<1> DEFINE a == AllDown(r, Cardinality(D), Cardinality(A))
           b == AllDown(r, Cardinality(E), Cardinality(B))
           bad == \E m \in A : ms[m].verdict # "up"
<1>4. RollUp(r, A, ms) = IF a THEN "down" ELSE IF bad THEN "degraded" ELSE "up"
  BY RollUpIs
<1>5. RollUp(r, B, mt) = IF b THEN "down" ELSE IF bad THEN "degraded" ELSE "up"
  BY <1>2, RollUpIs
<1>6. /\ b => a
      /\ r = "any" => (a <=> b)
      /\ A = {} => ~b
  <2>1. Cardinality(E) = Cardinality(D)
    BY <1>1
  <2> DEFINE d == Cardinality(D)
             j == Cardinality(A)
             k == Cardinality(B)
  <2>2. (a <=> AllDown(r, d, j)) /\ (b <=> AllDown(r, d, k))
    BY <2>1
  <2>3. d \in Nat /\ j \in Nat /\ k \in Nat /\ d <= j /\ j <= k /\ k # 0 /\ (A = {} => d = 0)
    BY <1>3
  <2> HIDE DEF D, E, d, j, k, a, b
  <2>4. CASE r = "all"
    <3>1. (a <=> d = j) /\ (b <=> d = k)
      BY <2>2, <2>4 DEF AllDown
    <3> QED
      BY <2>3, <2>4, <3>1
  <2>5. CASE r = "majority"
    <3>1. (a <=> d * 2 > j) /\ (b <=> d * 2 > k)
      BY <2>2, <2>5 DEF AllDown
    <3> QED
      BY <2>3, <2>5, <3>1
  <2>6. CASE r = "any"
    <3>1. (a <=> d > 0) /\ (b <=> d > 0)
      BY <2>2, <2>6 DEF AllDown
    <3> QED
      BY <2>3, <2>6, <3>1
  <2> QED
    BY <2>4, <2>5, <2>6
<1>7. A = B => (a <=> b)
  BY <1>1
<1>8. rank["up"] = 0 /\ rank["degraded"] = 2 /\ rank["down"] = 3
  BY DEF rank
<1>9. A = {} => ~bad
  OBVIOUS
<1> HIDE DEF a, b, bad
<1> QED
  BY <1>4, <1>5, <1>6, <1>7, <1>8, <1>9

\* The recorded state of a component that nothing was amended of, whether or not a
\* monitor of it was ever seen.
RolledOK(c, ms) ==
    /\ Counted(c, ms) = {} => cstate[c].verdict = "up"
    /\ Counted(c, ms) # {} =>
          /\ rank[Rolled(c, ms)] <= rank[cstate[c].verdict]
          /\ c \notin joined \/ rule[c] = "any" => cstate[c].verdict = Rolled(c, ms)

RollInv ==
    /\ enabled \subseteq Monitors /\ rule \in [Components -> {"any", "all", "majority"}]
    /\ HomesOK /\ now \in Int /\ StatesOK(mstate)
    /\ \A c \in Components : cstate[c].verdict \in Read
    /\ \A c \in Components \ amended : RolledOK(c, mstate)

\* A reading leaves a monitor seen, and with a verdict.
LEMMA AdvanceStates ==
    ASSUME NEW st, StateOK(st), NEW w \in Verdicts
    PROVE  StateOK(advanceMonitor(st, w)) /\ advanceMonitor(st, w).seen
<1> DEFINE t == advanceMonitor(st, w)
<1>1. CASE w = "error"
  <2>1. t = [st EXCEPT !.seen = TRUE, !.raw = "error"]
    BY <1>1 DEF advanceMonitor
  <2>2. st = [seen |-> st.seen, verdict |-> st.verdict, raw |-> st.raw,
              consecutive |-> st.consecutive]
    BY DEF StateOK, IsState
  <2>3. t = [seen |-> TRUE, verdict |-> st.verdict, raw |-> "error",
             consecutive |-> st.consecutive]
    BY <2>1, <2>2
  <2> HIDE DEF t
  <2>4. t.seen = TRUE /\ t.verdict = st.verdict /\ t.raw = "error" /\ t.consecutive = st.consecutive
    BY <2>3
  <2>5. IsState(t)
    BY <2>3, <2>4 DEF IsState
  <2> QED
    BY <2>4, <2>5 DEF StateOK, t
<1>2. CASE w # "error"
  <2> DEFINE n == consecutive(st, w)
             verdict == IF \/ st.verdict # "down" /\ w = "down" /\ n < FailureThreshold
                           \/ st.verdict = "down" /\ w # "down" /\ n < RecoveryThreshold
                        THEN st.verdict ELSE w
  <2>1. t = [seen |-> TRUE, raw |-> w, consecutive |-> n, verdict |-> verdict]
    BY <1>2 DEF advanceMonitor
  <2>2. verdict \in Read
    BY <1>2 DEF StateOK, Read, Verdicts
  <2> HIDE DEF t, n, verdict
  <2>3. t.seen = TRUE /\ t.verdict = verdict /\ t.raw = w /\ t.consecutive = n
    BY <2>1
  <2>4. IsState(t)
    BY <2>1, <2>3 DEF IsState
  <2> QED
    BY <2>2, <2>3, <2>4 DEF StateOK, t
<1> QED
  BY <1>1, <1>2

\* A tick rolls up every component it makes a difference to: one that is not rolled up,
\* and was not amended, had no monitor change, and is joined at most by monitors that
\* are up.
LEMMA TickRolls ==
    ASSUME RollInv, NEW S \in SUBSET Due, NEW v \in [S -> Verdicts], NEW W, Tick(v, W)
    PROVE  RollInv'
<1> DEFINE ms == [m \in Monitors |->
                    IF m \in DOMAIN v THEN advanceMonitor(mstate[m], v[m]) ELSE mstate[m]]
           rolled == {c \in touched(DOMAIN v, ms) : Counted(c, ms) # {}}
           changed == {c \in rolled : Rolled(c, ms) # cstate[c].verdict}
           new == [c \in changed |-> Rolled(c, ms)]
           strays == {m \in DOMAIN v : listed[m] # home[m] /\ ms[m].verdict # mstate[m].verdict}
           fresh == {m \in DOMAIN v : ~mstate[m].seen}
<1>1. /\ mstate' = ms /\ UNCHANGED <<now, enabled, home, rule, listed>>
      /\ amended' = (amended \cup {home[m] : m \in strays}) \ rolled
      /\ joined' = (joined \cup {home[m] : m \in fresh}) \ rolled
      /\ \E given \in Given({c \in changed : new[c] = "down"}) : Change(new, given, W)
  BY DEF Tick, modelVars
<1>2. \A c \in Components : cstate'[c].verdict = IF c \in changed THEN Rolled(c, ms) ELSE cstate[c].verdict
  <2>1. PICK given \in Given({c \in changed : new[c] = "down"}) : Change(new, given, W)
    BY <1>1
  <2>2. DOMAIN new = changed /\ \A c \in changed : new[c] = Rolled(c, ms)
    OBVIOUS
  <2> HIDE DEF new, changed, ms, rolled
  <2>3. \A c \in Components : cstate'[c].verdict = IF c \in DOMAIN new THEN new[c] ELSE cstate[c].verdict
    BY <2>1 DEF Change
  <2> QED
    BY <2>2, <2>3
<1>3. \A m \in Monitors : ms[m] = IF m \in S THEN advanceMonitor(mstate[m], v[m]) ELSE mstate[m]
  OBVIOUS
<1>4. \A m \in Monitors : StateOK(mstate[m])
  BY DEF RollInv, StatesOK
<1>5. \A m \in S : v[m] \in Verdicts /\ m \in Monitors
  BY DEF Due
<1>6. DOMAIN v = S
  OBVIOUS
<1>7. enabled \subseteq Monitors /\ rule \in [Components -> {"any", "all", "majority"}]
  BY DEF RollInv
<1> HIDE DEF ms
<1>8. StatesOK(ms) /\ StatesOK(mstate) /\ \A m \in S : ms[m].seen
  BY <1>3, <1>4, <1>5, AdvanceStates DEF StatesOK
<1>9. ASSUME NEW c, c \notin rolled, c \notin amended', NEW m \in enabled, home[m] = c
      PROVE  ms[m].verdict = mstate[m].verdict
  <2>1. m \in Monitors
    BY <1>7
  <2>2. CASE m \notin S
    BY <1>3, <2>1, <2>2
  <2>3. CASE m \in S
    <3>1. m \in Counted(c, ms)
      BY <1>8, <1>9, <2>3 DEF Counted
    <3>2. c \notin touched(S, ms)
      BY <1>6, <1>9, <3>1
    <3>3. m \notin strays
      BY <1>1, <1>9
    <3> QED
      BY <1>6, <1>9, <2>3, <3>2, <3>3 DEF touched
  <2> QED
    BY <2>2, <2>3
<1>14. \A c \in Components : cstate'[c].verdict \in Read
  <2>1. \A c : Counted(c, ms) \in SUBSET Monitors
    BY <1>7 DEF Counted
  <2>2. \A c : Rolled(c, ms) \in Read
    BY <1>8, <2>1, RollUpIs DEF Rolled, Read
  <2> QED
    BY <1>2, <2>2 DEF RollInv
<1>10. ASSUME NEW c \in Components, c \notin amended'
       PROVE  /\ Counted(c, ms) = {} => cstate'[c].verdict = "up"
              /\ Counted(c, ms) # {} =>
                    /\ rank[Rolled(c, ms)] <= rank[cstate'[c].verdict]
                    /\ c \notin joined' \/ rule[c] = "any" => cstate'[c].verdict = Rolled(c, ms)
  <2>0. rule[c] \in {"any", "all", "majority"}
    BY <1>7
  <2>1. CASE c \in rolled
    <3>1. cstate'[c].verdict = Rolled(c, ms) /\ Counted(c, ms) # {}
      BY <1>2, <2>1
    <3>2. Counted(c, ms) \in SUBSET Monitors
      BY <1>7 DEF Counted
    <3>3. Rolled(c, ms) \in Read
      BY <1>8, <3>2, RollUpIs DEF Rolled, Read
    <3>4. rank[Rolled(c, ms)] <= rank[Rolled(c, ms)]
      <4>1. rank["up"] = 0 /\ rank["degraded"] = 2 /\ rank["down"] = 3
        BY DEF rank
      <4> QED
        BY <3>3, <4>1 DEF Read
    <3> QED
      BY <3>1, <3>4
  <2>2. CASE c \notin rolled
    <3> DEFINE A == Counted(c, mstate)
               B == Counted(c, ms)
    <3>1. c \notin amended /\ cstate'[c].verdict = cstate[c].verdict /\ (c \notin joined' => c \notin joined)
      BY <1>1, <1>2, <1>10, <2>2
    <3>2. RolledOK(c, mstate)
      BY <1>10, <3>1 DEF RollInv
    <3>3. \A m \in enabled : home[m] = c => ms[m].verdict = mstate[m].verdict
      BY <1>9, <1>10, <2>2
    <3>4. \A m \in Monitors : /\ mstate[m].seen => ms[m].seen
                              /\ ms[m].seen /\ ~mstate[m].seen => m \in S /\ mstate[m].verdict = "up"
      BY <1>3, <1>4, <1>8 DEF StateOK
    <3>5. A \in SUBSET Monitors /\ B \in SUBSET Monitors /\ A \subseteq B
      BY <1>7, <3>4 DEF Counted
    <3>6. \A m \in A : ms[m].verdict = mstate[m].verdict
      BY <3>3 DEF Counted
    <3>7. \A m \in B \ A : ms[m].verdict = "up" /\ m \in S /\ home[m] = c /\ ~mstate[m].seen
      BY <1>7, <3>3, <3>4 DEF Counted
    <3>8. c \notin joined' => A = B
      BY <1>1, <1>6, <2>2, <3>5, <3>7
    <3> HIDE DEF A, B
    <3>9. ASSUME B # {}
          PROVE  /\ A = {} => RollUp(rule[c], B, ms) = "up"
                 /\ A # {} => rank[RollUp(rule[c], B, ms)] <= rank[RollUp(rule[c], A, mstate)]
                 /\ A # {} /\ rule[c] = "any" => RollUp(rule[c], B, ms) = RollUp(rule[c], A, mstate)
                 /\ A = B => RollUp(rule[c], B, ms) = RollUp(rule[c], A, mstate)
      <4>1. \A m \in B \ A : ms[m].verdict = "up"
        BY <3>7
      <4>2. A \in SUBSET Monitors /\ B \in SUBSET Monitors /\ A \subseteq B
        BY <3>5
      <4>3. StatesOK(mstate) /\ StatesOK(ms)
        BY <1>8
      <4> QED
        BY <2>0, <3>6, <3>9, <4>1, <4>2, <4>3, JoinedUp
    <3>10. /\ A = {} => cstate[c].verdict = "up"
           /\ A # {} =>
                /\ rank[RollUp(rule[c], A, mstate)] <= rank[cstate[c].verdict]
                /\ c \notin joined \/ rule[c] = "any" => cstate[c].verdict = RollUp(rule[c], A, mstate)
      BY <3>2 DEF RolledOK, Rolled, A
    <3>11. B = {} => A = {}
      BY <3>5
    <3>12. A # {} => RollUp(rule[c], A, mstate) \in Read
      BY <1>8, <3>5, RollUpIs DEF Read
    <3>13. B # {} => RollUp(rule[c], B, ms) \in Read
      BY <1>8, <3>5, RollUpIs DEF Read
    <3>14. \A x \in Read : rank[x] \in Nat
      BY DEF rank, Read
    <3>15. CASE B = {}
      BY <3>1, <3>10, <3>11, <3>15 DEF B
    <3>16. CASE B # {} /\ A = {}
      <4>1. RollUp(rule[c], B, ms) = "up" /\ cstate'[c].verdict = "up"
        BY <3>1, <3>9, <3>10, <3>16
      <4>2. rank["up"] <= rank["up"]
        BY DEF rank
      <4> QED
        BY <3>16, <4>1, <4>2 DEF Rolled, B
    <3>17. CASE B # {} /\ A # {}
      <4>1. c \notin joined' \/ rule[c] = "any" => cstate'[c].verdict = RollUp(rule[c], B, ms)
        BY <3>1, <3>8, <3>9, <3>10, <3>17
      <4>2. cstate[c].verdict \in Read
        BY DEF RollInv
      <4>3. rank[RollUp(rule[c], B, ms)] <= rank[cstate'[c].verdict]
        BY <3>1, <3>9, <3>10, <3>12, <3>13, <3>14, <3>17, <4>2
      <4> QED
        BY <3>17, <4>1, <4>3 DEF Rolled, B
    <3> QED
      BY <3>15, <3>16, <3>17
  <2> QED
    BY <2>1, <2>2
<1>11. \A c : Counted(c, mstate)' = Counted(c, ms) /\ Rolled(c, mstate)' = Rolled(c, ms)
  BY <1>1 DEF Counted, Rolled, RollUp
<1>12. StatesOK(mstate)' /\ enabled' \subseteq Monitors /\ HomesOK' /\ now' \in Int
  BY <1>1, <1>7, <1>8 DEF StatesOK, StateOK, IsState, RollInv, HomesOK
<1>13. \A c \in Components \ amended' : RolledOK(c, mstate)'
  BY <1>1, <1>10, <1>11 DEF RolledOK
<1> QED
  BY <1>1, <1>7, <1>12, <1>13, <1>14 DEF RollInv

\* An amendment makes a difference only to the components it names.
LEMMA AmendmentRolls ==
    ASSUME RollInv, Amendment
    PROVE  RollInv'
<1>1. HomesOK' /\ UNCHANGED <<now, listed, mstate, cstate, joined>>
  BY AmendmentLeaves DEF RollInv
<1>2. ASSUME NEW m \in Switchable, SetMonitorEnabled(m)
      PROVE  /\ enabled' \subseteq Monitors /\ rule' \in [Components -> {"any", "all", "majority"}]
             /\ amended \subseteq amended'
             /\ \A c \in Components \ amended' :
                   rule'[c] = rule[c] /\ \A n : (n \in enabled' /\ home'[n] = c) <=> (n \in enabled /\ home[n] = c)
  <2>1. m \in Monitors
    BY DetectionAssumption
  <2> QED
    BY <1>2, <2>1 DEF SetMonitorEnabled, Amends, RollInv
<1>3. ASSUME NEW m \in Monitors, NEW d \in Homes[m], NEW on \in BOOLEAN, UpsertMonitor(m, d, on)
      PROVE  /\ enabled' \subseteq Monitors /\ rule' \in [Components -> {"any", "all", "majority"}]
             /\ amended \subseteq amended'
             /\ \A c \in Components \ amended' :
                   rule'[c] = rule[c] /\ \A n : (n \in enabled' /\ home'[n] = c) <=> (n \in enabled /\ home[n] = c)
  <2>1. /\ home' = [home EXCEPT ![m] = d] /\ rule' = rule /\ amended' = amended \cup {home[m], d}
        /\ enabled' = IF on THEN enabled \cup {m} ELSE enabled \ {m}
    BY <1>3 DEF UpsertMonitor, Amends
  <2>2. home \in [Monitors -> Components] /\ enabled \subseteq Monitors
    BY DEF RollInv, HomesOK
  <2>3. home'[m] = d /\ \A n \in Monitors \ {m} : home'[n] = home[n]
    BY <2>1, <2>2
  <2>4. enabled' \subseteq Monitors /\ \A n : n # m => (n \in enabled' <=> n \in enabled)
    BY <2>1, <2>2
  <2> QED
    BY <2>1, <2>2, <2>3, <2>4 DEF RollInv
<1>4. ASSUME NEW d \in Components, NEW r \in Rules[d], UpsertComponent(d, r)
      PROVE  /\ enabled' \subseteq Monitors /\ rule' \in [Components -> {"any", "all", "majority"}]
             /\ amended \subseteq amended'
             /\ \A c \in Components \ amended' :
                   rule'[c] = rule[c] /\ \A n : (n \in enabled' /\ home'[n] = c) <=> (n \in enabled /\ home[n] = c)
  <2>1. r \in {"any", "all", "majority"}
    BY DetectionAssumption
  <2> QED
    BY <1>4, <2>1 DEF UpsertComponent, Amends, RollInv
<1>5. /\ enabled' \subseteq Monitors /\ rule' \in [Components -> {"any", "all", "majority"}]
      /\ amended \subseteq amended'
      /\ \A c \in Components \ amended' :
            rule'[c] = rule[c] /\ \A n : (n \in enabled' /\ home'[n] = c) <=> (n \in enabled /\ home[n] = c)
  BY <1>2, <1>3, <1>4 DEF Amendment
<1>6. ASSUME NEW c \in Components \ amended'
      PROVE  RolledOK(c, mstate)'
  <2>1. RolledOK(c, mstate)
    BY <1>5, <1>6 DEF RollInv
  <2>2. Counted(c, mstate)' = Counted(c, mstate)
    BY <1>1, <1>5, <1>6 DEF Counted
  <2>3. Rolled(c, mstate)' = Rolled(c, mstate)
    BY <1>1, <1>5, <1>6, <2>2 DEF Rolled, RollUp
  <2> QED
    BY <1>1, <1>5, <1>6, <2>1, <2>2, <2>3 DEF RolledOK
<1> QED
  BY <1>1, <1>5, <1>6 DEF RollInv, StatesOK, StateOK, IsState

\* Every step keeps the components in step with their monitors.
LEMMA RollStep ==
    ASSUME RollInv, [Next]_vars
    PROVE  RollInv'
<1> USE DEF modelVars, recordVars, historyVars
<1>1. CASE \/ UNCHANGED vars \/ Passes \/ reload
           \/ \E C \in Named : OpenIncident(C)
           \/ \E i \in Incidents, status \in {"open", "resolved"} : UpdateIncident(i, status)
  <2>1. HomesOK' /\ now' \in Int /\ UNCHANGED <<enabled, home, rule, mstate, cstate, amended, joined>>
    <3>1. CASE UNCHANGED vars \/ Passes \/ reload
      BY <3>1, CalmLeaves DEF RollInv
    <3>2. CASE UNCHANGED <<now, modelVars, listed, mstate, cstate, amended, joined>>
      BY <3>2 DEF RollInv, HomesOK
    <3> QED
      BY <1>1, <3>1, <3>2 DEF OpenIncident, UpdateIncident
  <2>2. \A c : Counted(c, mstate)' = Counted(c, mstate) /\ Rolled(c, mstate)' = Rolled(c, mstate)
    BY <2>1 DEF Counted, Rolled, RollUp
  <2>3. \A c \in Components \ amended : RolledOK(c, mstate)'
    BY <2>1, <2>2 DEF RollInv, RolledOK
  <2> QED
    BY <2>1, <2>3 DEF RollInv, StatesOK, StateOK, IsState
<1>2. ASSUME NEW S \in SUBSET Due, NEW v \in [S -> Verdicts], NEW W, Tick(v, W)
      PROVE  RollInv'
  BY <1>2, TickRolls
<1>3. CASE Amendment
  BY <1>3, AmendmentRolls
<1> QED
  BY <1>1, <1>2, <1>3 DEF Next, Amendment

\* rollUpComponent, whatever the rules and however people amend them and the monitors:
\* the recorded state of a component is never better than its rule makes of its monitors,
\* and is just that unless a monitor of it was read for the first time since; components
\* amended since they were last rolled up are left out.
THEOREM RollupExact == Spec => []RollupHolds
<1>1. Init => RollInv
  <2> SUFFICES ASSUME Init PROVE RollInv
    OBVIOUS
  <2>1. \A m \in Monitors : mstate[m] = NoMonitorState
    BY DEF Init
  <2>2. StateOK(NoMonitorState) /\ ~NoMonitorState.seen
    BY DEF NoMonitorState, StateOK, IsState, Read
  <2>3. enabled = Monitors /\ \A c \in Components : cstate[c].verdict = "up"
    BY DEF Init, NoComponentState
  <2>4. \A c : Counted(c, mstate) = {}
    BY <2>1, <2>2, <2>3 DEF Counted
  <2>5. \A c \in Components : RolledOK(c, mstate)
    BY <2>3, <2>4 DEF RolledOK
  <2>6. HomesOK /\ now \in Int /\ rule \in [Components -> {"any", "all", "majority"}]
    BY DetectionAssumption DEF Init, HomesOK, Start
  <2> QED
    BY <2>1, <2>2, <2>3, <2>5, <2>6 DEF RollInv, StatesOK, Read
<1>2. RollInv /\ [Next]_vars => RollInv'
  BY RollStep
<1>3. RollInv => RollupHolds
  BY DEF RollInv, RolledOK, RollupHolds
<1> QED
  BY <1>1, <1>2, <1>3, PTL DEF Spec
=============================================================================
