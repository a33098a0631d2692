--------------------------- MODULE ClockSeqProofs ---------------------------
(***************************************************************************)
(* The sequence numbers of ClockSeq, for any number of enclaves, servers   *)
(* and restarts, as long as the high-water mark can be read; and the time  *)
(* it trusts, for any answers of an honest server or one that lies.        *)
(***************************************************************************)
EXTENDS ClockSeq, FiniteSetTheorems, WellFoundedInduction, NaturalsInduction, TLAPS

\* A set of numbers with a bound has a highest member.
LEMMA HighestBounds ==
    ASSUME NEW S \in SUBSET (0..MaxSeq)
    PROVE  Highest(S) \in 0..MaxSeq /\ \A x \in S : x <= Highest(S)
<1>0. MaxSeq \in Nat
  BY SeqAssumption
<1>1. CASE S = {}
  BY <1>0, <1>1 DEF Highest
<1>2. CASE S # {}
  <2> DEFINE T == {MaxSeq - x : x \in S}
  <2>1. T \in SUBSET Nat /\ T # {}
    <3>1. \A x \in S : MaxSeq - x \in Nat
      BY <1>0
    <3>2. PICK x \in S : MaxSeq - x \in T
      BY <1>2
    <3> QED
      BY <3>1, <3>2
  <2>2. PICK m \in T : \A y \in T : ~(<<y, m>> \in {p \in Nat \X Nat : p[1] < p[2]})
    BY <2>1, NatLessThanWellFounded, WFMin, Zenon DEF OpToRel
  <2>3. \A y \in T : m <= y
    <3> SUFFICES ASSUME NEW y \in T PROVE m <= y
      OBVIOUS
    <3> HIDE DEF T
    <3>1. y \in Nat /\ m \in Nat
      BY <2>1, <2>2
    <3>2. <<y, m>> \notin {p \in Nat \X Nat : p[1] < p[2]}
      BY <2>2
    <3>3. ~(y < m)
      BY <3>1, <3>2
    <3> QED
      BY <3>1, <3>3
  <2>4. \E x \in S : \A y \in S : y <= x
    <3>1. PICK x \in S : m = MaxSeq - x
      BY <2>2
    <3>2. \A y \in S : MaxSeq - x <= MaxSeq - y
      BY <2>3, <3>1
    <3> QED
      BY <1>0, <3>2
  <2> QED
    BY <1>2, <2>4 DEF Highest
<1> QED
  BY <1>1, <1>2

-----------------------------------------------------------------------------

\* A floor under way carries a number of its own, not in the record.
Fresh ==
    /\ \A e \in Enclaves :
          poll[e] = NoPoll \/ (poll[e].seq \in 1..seq /\ \A r \in readings : r.seq # poll[e].seq)
    /\ \A e, f \in Enclaves :
          poll[e] # NoPoll /\ poll[f] # NoPoll /\ poll[e].seq = poll[f].seq => e = f

\* Once the rounds run the counter is above the record; before that there is no
\* time, so no floor.
Restored ==
    /\ running = "on" => \A r \in readings : r.seq <= seq
    /\ running # "on" => ~has /\ \A e \in Enclaves : poll[e] = NoPoll

SeqInv ==
    /\ poll = [e \in Enclaves |-> poll[e]]
    /\ seq \in 0..MaxSeq
    /\ \A r \in readings : r.seq \in 1..MaxSeq
    /\ Fresh /\ Restored /\ RecordedOnce

\* The invariant holds before anything is signed.
LEMMA SeqInit == Init => SeqInv
BY SeqAssumption DEF Init, SourceInit, SeqInv, Fresh, Restored, RecordedOnce, NoPoll

\* Every step keeps the numbers apart.
LEMMA SeqStep ==
    ASSUME ~ReadsFail, SeqInv, [Next]_vars
    PROVE  SeqInv'
<1> USE DEF serviceVars, sourceVars, history
<1>0. MaxSeq \in Nat
  BY SeqAssumption
<1>1. CASE UNCHANGED vars \/ Apply \/ Cycle \/ (Tick /\ UNCHANGED <<serviceVars, history>>)
  <2>1. UNCHANGED <<poll, seq, readings>>
    BY <1>1 DEF vars, Apply, Cycle, Tick
  <2>2. Restored'
    BY <1>1, <2>1 DEF SeqInv, Restored, vars, Apply, Cycle, Tick, Refresh
  <2> QED
    BY <2>1, <2>2 DEF SeqInv, Fresh, RecordedOnce
<1>2. CASE loadHighWater
  <2> DEFINE S == {seq} \cup {r.seq : r \in readings}
  <2>1. seq' = Highest(S) /\ UNCHANGED <<poll, readings, has>> /\ running = "loading"
        /\ running' = "on"
    BY <1>2 DEF loadHighWater
  <2>2. S \in SUBSET (0..MaxSeq)
    BY <1>0 DEF SeqInv
  <2>3. seq' \in 0..MaxSeq /\ \A x \in S : x <= seq'
    BY <2>1, <2>2, HighestBounds
  <2>4. \A e \in Enclaves : poll[e] = NoPoll
    BY <2>1 DEF SeqInv, Restored
  <2> QED
    BY <2>1, <2>3, <2>4 DEF SeqInv, Fresh, Restored, RecordedOnce
<1>3. ASSUME NEW e \in Enclaves, PollSigns(e) PROVE SeqInv'
  <2>1. /\ seq' = seq + 1 /\ seq < MaxSeq /\ poll[e] = NoPoll
        /\ poll' = [poll EXCEPT ![e] = [seq |-> seq + 1, sent |-> Now]]
        /\ UNCHANGED <<readings, running, has>> /\ has
    BY <1>3 DEF PollSigns, HasTime
  <2>2. running = "on" /\ \A r \in readings : r.seq <= seq /\ r.seq \in Nat
    BY <1>0, <2>1 DEF SeqInv, Restored
  <2>3. poll'[e].seq = seq + 1 /\ \A f \in Enclaves \ {e} : poll'[f] = poll[f]
    BY <2>1 DEF SeqInv
  <2>4. seq \in Nat /\ seq' \in 0..MaxSeq
    BY <1>0, <2>1 DEF SeqInv
  <2>5. Fresh'
    BY <2>1, <2>2, <2>3, <2>4 DEF SeqInv, Fresh
  <2> QED
    BY <2>1, <2>2, <2>4, <2>5 DEF SeqInv, Restored, RecordedOnce
<1>4. ASSUME NEW e \in Enclaves, PollRecords(e) PROVE SeqInv'
  <2>1. PICK t : readings' = readings \cup {[seq |-> poll[e].seq, enclave |-> e, monitor |-> t]}
    BY <1>4 DEF PollRecords
  <2>2. /\ poll[e] # NoPoll /\ poll' = [poll EXCEPT ![e] = NoPoll]
        /\ UNCHANGED <<seq, running, has>>
    BY <1>4 DEF PollRecords
  <2>3. /\ poll'[e] = NoPoll /\ \A f \in Enclaves \ {e} : poll'[f] = poll[f]
        /\ poll' = [f \in Enclaves |-> poll'[f]]
    BY <2>2 DEF SeqInv
  <2>4. poll[e].seq \in 1..seq /\ \A r \in readings : r.seq # poll[e].seq
    BY <2>2 DEF SeqInv, Fresh
  <2>5. Fresh'
    BY <2>1, <2>2, <2>3, <2>4 DEF SeqInv, Fresh
  <2>6. RecordedOnce'
    BY <2>1, <2>4 DEF SeqInv, RecordedOnce
  <2>7. Restored' /\ \A r \in readings' : r.seq \in 1..MaxSeq
    BY <1>0, <2>1, <2>2, <2>3, <2>4 DEF SeqInv, Restored
  <2> QED
    BY <2>2, <2>3, <2>5, <2>6, <2>7 DEF SeqInv
<1>5. ASSUME NEW e \in Enclaves, PollDrops(e) PROVE SeqInv'
  <2>1. /\ poll' = [poll EXCEPT ![e] = NoPoll] /\ UNCHANGED <<seq, running, has, readings>>
    BY <1>5 DEF PollDrops
  <2>2. /\ poll'[e] = NoPoll /\ \A f \in Enclaves \ {e} : poll'[f] = poll[f]
        /\ poll' = [f \in Enclaves |-> poll'[f]]
    BY <2>1 DEF SeqInv
  <2> QED
    BY <2>1, <2>2 DEF SeqInv, Fresh, Restored, RecordedOnce
<1>6. CASE Restart
  BY <1>0, <1>6 DEF Restart, SeqInv, Fresh, Restored, RecordedOnce
<1> QED
  BY <1>1, <1>2, <1>3, <1>4, <1>5, <1>6 DEF Next

\* RecordClockReadings: no two readings of the record carry the same number.
THEOREM ReadingsApart ==
    ASSUME ~ReadsFail
    PROVE  Spec => []RecordedOnce
<1>1. SeqInv /\ [Next]_vars => SeqInv'
  BY SeqStep
<1>2. SeqInv => RecordedOnce
  BY DEF SeqInv
<1> QED
  BY <1>1, <1>2, SeqInit, PTL DEF Spec

\* Poll: every floor signed carries a number above all those of the record.
THEOREM SignsAbove ==
    ASSUME ~ReadsFail
    PROVE  Spec => SignsAboveRecord
<1> DEFINE A == \A e \in Enclaves : poll[e] = NoPoll /\ poll'[e] # NoPoll =>
                   \A r \in readings : r.seq < poll'[e].seq
<1>1. SeqInv /\ [Next]_vars => SeqInv'
  BY SeqStep
<1>2. SeqInv /\ [Next]_vars => A \/ UNCHANGED vars
  <2> SUFFICES ASSUME SeqInv, Next, NEW e \in Enclaves, poll[e] = NoPoll, poll'[e] # NoPoll,
                      NEW r \in readings
               PROVE  r.seq < poll'[e].seq
    OBVIOUS
  <2> USE DEF serviceVars, sourceVars, history
  <2>1. PollSigns(e)
    <3>1. ASSUME NEW f \in Enclaves, PollSigns(f) PROVE f = e
      BY <3>1 DEF PollSigns, SeqInv
    <3>2. ASSUME NEW f \in Enclaves, PollRecords(f) \/ PollDrops(f) PROVE FALSE
      BY <3>2 DEF PollRecords, PollDrops, SeqInv
    <3>3. CASE Apply \/ loadHighWater \/ Cycle \/ (Tick /\ UNCHANGED <<serviceVars, history>>)
      BY <3>3 DEF Apply, loadHighWater, Cycle
    <3>4. CASE Restart
      BY <3>4 DEF Restart
    <3> QED
      BY <3>1, <3>2, <3>3, <3>4 DEF Next
  <2>2. running = "on" /\ poll'[e].seq = seq + 1
    BY <2>1 DEF PollSigns, HasTime, SeqInv, Restored
  <2>3. r.seq <= seq /\ r.seq \in 1..MaxSeq /\ seq \in 0..MaxSeq /\ MaxSeq \in Nat
    BY <2>2, SeqAssumption DEF SeqInv, Restored
  <2> QED
    BY <2>2, <2>3
<1> QED
  BY <1>1, <1>2, SeqInit, PTL DEF Spec, SignsAboveRecord

-----------------------------------------------------------------------------
(* The trusted time.                                                       *)

\* How far the trusted time may be off.
Bound == HonestError + (Agreement - Half(Agreement))

Honest(o) == o \in (-HonestError)..HonestError

\* The answers of a fetch, of which one at most is a liar's.
OneLiar(got) ==
    /\ got \in Seq(Int)
    /\ \A i, j \in DOMAIN got : i # j => Honest(got[i]) \/ Honest(got[j])

LEMMA BoundIs ==
    /\ HonestError \in Nat /\ Agreement \in Nat /\ MinNow \in Nat
    /\ Half(Agreement) \in Nat /\ 2 * Half(Agreement) <= Agreement
    /\ Agreement <= 2 * Half(Agreement) + 1 /\ Bound \in Nat
<1>1. HonestError \in Nat /\ Agreement \in Nat /\ MinNow \in Nat
  BY SourceAssumption
<1>2. Half(Agreement) = Agreement \div 2
  BY <1>1 DEF Half
<1>3. Agreement \div 2 \in Nat /\ 2 * (Agreement \div 2) <= Agreement
      /\ Agreement <= 2 * (Agreement \div 2) + 1
  BY <1>1
<1> QED
  BY <1>1, <1>2, <1>3 DEF Bound

\* The mean of two answers that agree, one of them honest.
LEMMA MeanNear ==
    ASSUME NEW x \in Int, NEW y \in Int, Distance(x, y) <= Agreement, Honest(x) \/ Honest(y)
    PROVE  x + Half(y - x) \in (-Bound)..Bound
<1> DEFINE d == y - x
           h == Half(d)
<1>1. d \in Int /\ d <= Agreement /\ -d <= Agreement /\ y = x + d
  BY BoundIs DEF Distance
<1> HIDE DEF d
<1>2. h \in Int /\ (d >= 0 => h >= 0 /\ 2 * h <= d /\ d <= 2 * h + 1)
                /\ (d < 0 => h <= 0 /\ d <= 2 * h /\ 2 * h - 1 <= d)
  <2>1. CASE d >= 0
    <3>1. h = d \div 2
      BY <2>1 DEF Half
    <3>2. d \div 2 \in Nat /\ 2 * (d \div 2) <= d /\ d <= 2 * (d \div 2) + 1
      BY <1>1, <2>1
    <3> HIDE DEF h
    <3>3. h \in Int /\ h >= 0 /\ 2 * h <= d /\ d <= 2 * h + 1
      BY <3>1, <3>2
    <3> QED
      BY <1>1, <2>1, <3>3
  <2>2. CASE d < 0
    <3> DEFINE m == -d
    <3>1. h = -(m \div 2)
      BY <1>1, <2>2 DEF Half
    <3>2. m \in Nat
      BY <1>1, <2>2
    <3> HIDE DEF m
    <3>3. m \div 2 \in Nat /\ 2 * (m \div 2) <= m /\ m <= 2 * (m \div 2) + 1
      BY <3>2
    <3> QED
      BY <1>1, <2>2, <3>1, <3>2, <3>3 DEF m
  <2> QED
    BY <1>1, <2>1, <2>2
<1> HIDE DEF h
<1> DEFINE k == Half(Agreement)
<1>3. /\ HonestError \in Nat /\ Agreement \in Nat /\ k \in Nat
      /\ 2 * k <= Agreement /\ Agreement <= 2 * k + 1 /\ Bound = HonestError + Agreement - k
  BY BoundIs DEF Bound
<1> HIDE DEF k
<1>4. h <= k /\ -k <= h /\ d - h <= Agreement - k /\ h - d <= Agreement - k /\ k <= Agreement - k
  BY <1>1, <1>2, <1>3
<1>5. (-HonestError <= x /\ x <= HonestError) \/ (-HonestError <= x + d /\ x + d <= HonestError)
  BY <1>1, <1>3 DEF Honest
<1>6. -Bound <= x + h /\ x + h <= Bound /\ x + h \in Int
  BY <1>1, <1>2, <1>3, <1>4, <1>5
<1> QED
  BY <1>3, <1>6 DEF h, d

\* agreeing: whatever pair of answers it adopts.
LEMMA AgreeingNear ==
    ASSUME NEW got, OneLiar(got), NEW o \in agreeing(got)
    PROVE  o \in (-Bound)..Bound
<1>1. PICK p \in Pairs(got) : o = got[p[1]] + Half(got[p[2]] - got[p[1]])
  BY DEF agreeing
<1>2. /\ p[1] \in 1..Len(got) /\ p[2] \in 1..Len(got) /\ p[1] < p[2]
      /\ Distance(got[p[1]], got[p[2]]) <= Agreement
  BY <1>1 DEF Pairs
<1>3. /\ got[p[1]] \in Int /\ got[p[2]] \in Int
      /\ Honest(got[p[1]]) \/ Honest(got[p[2]])
  BY <1>2 DEF OneLiar
<1> QED
  BY <1>1, <1>2, <1>3, MeanNear

\* Of two servers one is honest.
LEMMA TwoServers ==
    ASSUME NEW s \in Servers, NEW t \in Servers, s # t
    PROVE  s \notin Liars \/ t \notin Liars
<1> SUFFICES ASSUME s \in Liars, t \in Liars PROVE FALSE
  OBVIOUS
<1>1. IsFiniteSet(Liars) /\ Cardinality(Liars) <= 1 /\ Cardinality(Liars) \in Nat
  BY SourceAssumption, FS_Subset, FS_CardinalityType
<1>2. Cardinality({s}) = 1 /\ IsFiniteSet({s})
  BY FS_Singleton
<1>3. Cardinality({s} \cup {t}) = 2
  BY <1>2, FS_AddElement
<1>4. Cardinality({s} \cup {t}) <= Cardinality(Liars)
  BY <1>1, FS_Subset
<1> QED
  BY <1>1, <1>3, <1>4

\* What a server answers is nothing or one sample, honest unless it lies.
LEMMA AnswerIs ==
    ASSUME NEW s \in Servers, NEW a \in Answers(s)
    PROVE  a = <<>> \/ \E o \in Int : a = <<o>> /\ (s \notin Liars => Honest(o))
BY SourceAssumption DEF Answers, Honest

\* The answer of one more server, beside answers that are honest if it lies.
AllHonest(got) == \A i \in DOMAIN got : Honest(got[i])

LEMMA OneMore ==
    ASSUME NEW got \in Seq(Int), OneLiar(got), NEW u \in Servers, NEW c \in Answers(u),
           u \in Liars => AllHonest(got)
    PROVE  /\ OneLiar(got \o c)
           /\ AllHonest(got) /\ u \notin Liars => AllHonest(got \o c)
<1>1. CASE c = <<>>
  <2>1. got \o c = got
    BY <1>1
  <2> QED
    BY <2>1
<1>2. ASSUME NEW o \in Int, c = <<o>>, u \notin Liars => Honest(o)
      PROVE  /\ OneLiar(got \o c)
             /\ AllHonest(got) /\ u \notin Liars => AllHonest(got \o c)
  <2> DEFINE g == got \o c
             n == Len(got)
  <2>1. /\ g \in Seq(Int) /\ DOMAIN g = 1..(n + 1) /\ DOMAIN got = 1..n /\ n \in Nat
        /\ g[n + 1] = o /\ \A i \in 1..n : g[i] = got[i]
    BY <1>2
  <2> HIDE DEF g, n
  <2>2. \A i, j \in 1..n : i # j => Honest(g[i]) \/ Honest(g[j])
    BY <2>1 DEF OneLiar
  <2>3. \A i \in 1..n : Honest(g[i]) \/ Honest(g[n + 1])
    BY <1>2, <2>1 DEF AllHonest
  <2>4. \A i \in DOMAIN g : i \in 1..n \/ i = n + 1
    BY <2>1
  <2>5. OneLiar(g)
    BY <2>1, <2>2, <2>3, <2>4 DEF OneLiar
  <2>6. AllHonest(got) /\ u \notin Liars => AllHonest(g)
    BY <1>2, <2>1, <2>4 DEF AllHonest
  <2> QED
    BY <2>5, <2>6 DEF g
<1> QED
  BY <1>1, <1>2, AnswerIs

\* The answers of two servers, and of a third beside them, have one liar at most.
LEMMA AnswersOneLiar ==
    ASSUME NEW s \in Servers, NEW t \in Servers \ {s}, NEW a \in Answers(s), NEW b \in Answers(t)
    PROVE  /\ OneLiar(a \o b)
           /\ \A u \in Servers \ {s, t} : \A c \in Answers(u) : OneLiar((a \o b) \o c)
<1>1. a \in Seq(Int) /\ OneLiar(a) /\ (s \notin Liars => AllHonest(a))
  <2>1. CASE a = <<>>
    <3>1. a \in Seq(Int) /\ DOMAIN a = {}
      BY <2>1
    <3> QED
      BY <3>1 DEF OneLiar, AllHonest
  <2>2. ASSUME NEW o \in Int, a = <<o>>, s \notin Liars => Honest(o)
        PROVE  a \in Seq(Int) /\ OneLiar(a) /\ (s \notin Liars => AllHonest(a))
    <3>1. a \in Seq(Int) /\ DOMAIN a = {1} /\ a[1] = o
      BY <2>2
    <3> QED
      BY <2>2, <3>1 DEF OneLiar, AllHonest
  <2> QED
    BY <2>1, <2>2, AnswerIs
<1>2. t \in Liars => s \notin Liars
  BY TwoServers
<1>3. OneLiar(a \o b) /\ (s \notin Liars /\ t \notin Liars => AllHonest(a \o b))
  BY <1>1, <1>2, OneMore
<1>4. a \o b \in Seq(Int)
  BY <1>3 DEF OneLiar
<1>5. ASSUME NEW u \in Servers \ {s, t}, NEW c \in Answers(u)
      PROVE  OneLiar((a \o b) \o c)
  <2>1. u \in Liars => s \notin Liars /\ t \notin Liars
    BY TwoServers
  <2> QED
    BY <1>3, <1>4, <2>1, OneMore
<1> QED
  BY <1>3, <1>5

\* quorum: an offset a fetch adopts is near the truth.
LEMMA QuorumNear ==
    ASSUME NEW q \in Quorums, NEW o \in q
    PROVE  o \in (-Bound)..Bound
<1>0. PICK s \in Servers, t \in Servers :
        s # t /\ \E a \in Answers(s), b \in Answers(t) : q \in Settled(a \o b, Servers \ {s, t})
  BY DEF Quorums
<1>1. PICK a \in Answers(s), b \in Answers(t) : q \in Settled(a \o b, Servers \ {s, t})
  BY <1>0
<1>2. CASE q = agreeing(a \o b)
  BY <1>0, <1>2, AnswersOneLiar, AgreeingNear
<1>3. CASE \E u \in Servers \ {s, t} : \E c \in Answers(u) : q = agreeing((a \o b) \o c)
  BY <1>0, <1>3, AnswersOneLiar, AgreeingNear
<1> QED
  BY <1>1, <1>2, <1>3 DEF Settled

\* Nothing the monitor signed, recorded or restored is ahead of the truth by more
\* than the bound, and the offset it extrapolates with is within it.
TimeInv ==
    /\ now \in Nat /\ offset \in (-Bound)..Bound
    /\ floor \in Int /\ floor <= now + Bound
    /\ poll = [e \in Enclaves |-> poll[e]]
    /\ \A e \in Enclaves : poll[e].sent \in Int /\ poll[e].sent <= now + Bound
    /\ \A r \in readings : r.monitor \in Int /\ r.monitor <= now + Bound

\* A bounded set of times has a highest one.
LEMMA HighestTime ==
    ASSUME NEW S \in SUBSET Int, NEW n \in Nat, \A x \in S : x <= n
    PROVE  Highest(S) \in Int /\ Highest(S) <= n
<1>1. CASE S = {}
  BY <1>1 DEF Highest
<1>2. CASE S # {}
  <2> DEFINE T == {n - x : x \in S}
  <2>1. T \in SUBSET Nat /\ T # {}
    <3>1. \A x \in S : n - x \in Nat
      OBVIOUS
    <3>2. PICK x \in S : n - x \in T
      BY <1>2
    <3> QED
      BY <3>1, <3>2
  <2>2. PICK m \in T : \A y \in T : ~(<<y, m>> \in {p \in Nat \X Nat : p[1] < p[2]})
    BY <2>1, NatLessThanWellFounded, WFMin, Zenon DEF OpToRel
  <2>3. \A y \in T : m <= y
    <3> SUFFICES ASSUME NEW y \in T PROVE m <= y
      OBVIOUS
    <3> HIDE DEF T
    <3>1. y \in Nat /\ m \in Nat
      BY <2>1, <2>2
    <3>2. <<y, m>> \notin {p \in Nat \X Nat : p[1] < p[2]}
      BY <2>2
    <3> QED
      BY <3>1, <3>2
  <2>4. \E x \in S : \A y \in S : y <= x
    <3>1. PICK x \in S : m = n - x
      BY <2>2
    <3>2. \A y \in S : n - x <= n - y
      BY <2>3, <3>1
    <3> QED
      BY <3>2
  <2> QED
    BY <1>2, <2>4 DEF Highest
<1> QED
  BY <1>1, <1>2

\* The trusted time is a number, within the bound of the truth.
LEMMA NowNear ==
    ASSUME TimeInv
    PROVE  Now \in Int /\ Now <= now + Bound /\ now - Bound <= Now
BY BoundIs DEF TimeInv, Now

\* Every step keeps the times within the bound: the truth only moves forwards.
LEMMA TimeStep == TimeInv /\ [Next]_vars => TimeInv'
<1> SUFFICES ASSUME TimeInv, [Next]_vars PROVE TimeInv'
  OBVIOUS
<1> USE DEF serviceVars, sourceVars, history
<1>0. Bound \in Nat
  BY BoundIs
<1>1. CASE UNCHANGED vars \/ Apply
  BY <1>1 DEF vars, Apply, TimeInv
<1>2. CASE loadHighWater
  <2> DEFINE S == {r.monitor : r \in readings}
  <2>1. now' = now /\ UNCHANGED <<offset, poll, readings>>
        /\ (floor' = floor \/ floor' = Highest(S))
    BY <1>2 DEF loadHighWater, SetFloor
  <2>2. S \in SUBSET Int /\ now + Bound \in Nat /\ \A x \in S : x <= now + Bound
    BY <1>0 DEF TimeInv
  <2>3. Highest(S) \in Int /\ Highest(S) <= now + Bound
    BY <2>2, HighestTime
  <2> QED
    BY <2>1, <2>3 DEF TimeInv
<1>3. CASE Cycle
  <2>1. UNCHANGED <<now, floor, poll, readings>>
    BY <1>3 DEF Cycle, Refresh
  <2>2. offset' = offset \/ \E q \in Quorums : offset' \in q
    BY <1>3 DEF Cycle, Refresh
  <2>3. offset' \in (-Bound)..Bound
    BY <2>2, QuorumNear DEF TimeInv
  <2> QED
    BY <2>1, <2>3 DEF TimeInv
<1>4. ASSUME NEW e \in Enclaves, PollSigns(e) PROVE TimeInv'
  <2>1. /\ poll' = [poll EXCEPT ![e] = [seq |-> seq + 1, sent |-> Now]]
        /\ UNCHANGED <<now, offset, floor, readings>>
    BY <1>4 DEF PollSigns
  <2>2. /\ poll'[e].sent = Now /\ \A f \in Enclaves \ {e} : poll'[f] = poll[f]
        /\ poll' = [f \in Enclaves |-> poll'[f]]
    BY <2>1 DEF TimeInv
  <2> QED
    BY <2>1, <2>2, NowNear DEF TimeInv
<1>5. ASSUME NEW e \in Enclaves, PollRecords(e) \/ PollDrops(e) PROVE TimeInv'
  <2>1. /\ poll' = [poll EXCEPT ![e] = NoPoll] /\ UNCHANGED <<now, offset, floor>>
    BY <1>5 DEF PollRecords, PollDrops
  <2>2. /\ poll'[e].sent = 0 /\ \A f \in Enclaves \ {e} : poll'[f] = poll[f]
        /\ poll' = [f \in Enclaves |-> poll'[f]]
    BY <2>1 DEF TimeInv, NoPoll
  <2>3. \A r \in readings' : r \in readings \/ r.monitor = Now \/ r.monitor = poll[e].sent
    BY <1>5 DEF PollRecords, PollDrops
  <2>4. \A r \in readings' : r.monitor \in Int /\ r.monitor <= now + Bound
    BY <2>3, NowNear DEF TimeInv
  <2> QED
    BY <1>0, <2>1, <2>2, <2>4 DEF TimeInv
<1>6. CASE Tick /\ UNCHANGED <<serviceVars, history>>
  <2>1. now' = now + 1 /\ UNCHANGED <<offset, floor, poll, readings>>
    BY <1>6 DEF Tick
  <2> QED
    BY <1>0, <2>1 DEF TimeInv
<1>7. CASE Restart
  <2>1. /\ poll' = [e \in Enclaves |-> NoPoll] /\ offset' = 0 /\ floor' = 0
        /\ UNCHANGED <<now, readings>>
    BY <1>7 DEF Restart
  <2> QED
    BY <1>0, <2>1 DEF TimeInv, NoPoll
<1> QED
  BY <1>1, <1>2, <1>3, <1>4, <1>5, <1>6, <1>7 DEF Next

\* Refresh, Now and loadHighWater: with one lying server at most, the time the monitor
\* trusts and signs is within an honest error and half the agreement of the true one,
\* whatever the liar says, which servers are asked, and however often the process
\* restarts and restores its floor from the record.
THEOREM TrustedTime == Spec => []TimeNearTruth
<1>1. Init => TimeInv
  BY BoundIs DEF Init, SourceInit, TimeInv, NoPoll
<1>2. TimeInv => TimeNearTruth
  <2> SUFFICES ASSUME TimeInv PROVE Distance(Now, now) <= Bound
    BY DEF TimeNearTruth, Bound
  <2> QED
    BY NowNear, BoundIs DEF Distance, TimeInv
<1> QED
  BY <1>1, <1>2, TimeStep, PTL DEF Spec
=============================================================================
