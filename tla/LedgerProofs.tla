---------------------------- MODULE LedgerProofs ----------------------------
(***************************************************************************)
(* What Ledger promises for every set of tables, keys and requests, and    *)
(* however many versions, reclaims and restores there are: the stored      *)
(* checkpoints are a chain over the record's own past, a customer's        *)
(* checkpoints show a store that was put back, evidence is of the state it *)
(* names, every transaction is recorded once, and the record implements    *)
(* the register.                                                           *)
(*                                                                         *)
(* The inductive invariant says of every checkpoint, stored, copied or in  *)
(* a customer's hands, that it and the one it names are of one history;    *)
(* the induction along the chain is by a least counterexample.             *)
(***************************************************************************)
EXTENDS Ledger, WellFoundedInduction, SequenceTheorems, TLAPS

TxIDs == {TxID(Filled(Requests[r].env), Requests[r].ops) : r \in DOMAIN Requests}

Entry ==
    [kind : {"table", "index"}, ddl : STRING]
    \cup [kind : {"tx"}, txid : TxIDs, before : Nat, after : Nat]

\* The head a checkpoint carries is that of the history it is of.
Headed(c) == c.head = [i \in 1..c.version |-> <<SubSeq(c.root, 1, i - 1), i>>]

\* A checkpoint of a history: it, and the one it names, are of its past.
Anchored(c, l) ==
    /\ Headed(c)
    /\ c.version \in 1..Len(l) /\ c.root = SubSeq(l, 1, c.version)
    /\ c.previous.version \in 0..(c.version - 1)
    /\ c.previous.root = SubSeq(l, 1, c.previous.version)

\* The checkpoints stored beside a history.
Chain(cps, l) ==
    /\ cps = [v \in DOMAIN cps |-> cps[v]]
    /\ \A v \in DOMAIN cps : cps[v].version = v /\ Anchored(cps[v], l)
    /\ DOMAIN cps # {} => \E m \in DOMAIN cps : \A v \in DOMAIN cps : v <= m

\* A checkpoint in a customer's hands: of some history of the instance's.
Genuine(c) == c.root \in Seq(Entry) /\ Len(c.root) = c.version /\ Anchored(c, c.root)

\* Detail is gone only behind the latest checkpoint.
Covered(k, cps) == k \in Nat /\ (k = 1 \/ k <= latestVersion(cps))

\* A store: the record, the rows it leaves, the checkpoints beside it and the first
\* version it has the root of.
Sound(l, table, cps, k) ==
    /\ l \in Seq(Entry) /\ RecordedOnce(l) /\ Chain(cps, l)
    /\ table = Replay(l) /\ Covered(k, cps)

IInv ==
    /\ Sound(log, rows, checkpoints, kept)
    /\ Sound(copy.log, copy.rows, copy.checkpoints, copy.kept)
    /\ \A c \in held : Genuine(c)
    /\ up => Len(log) > 0

-----------------------------------------------------------------------------

\* Every set of numbers has a least one.
LEMMA LeastNat ==
    ASSUME NEW T \in SUBSET Nat, T # {}
    PROVE  \E x \in T : \A y \in T : x <= y
<1> DEFINE R == OpToRel(<, Nat)
<1>1. \A x, y \in Nat : x < y => <<x, y>> \in R
  BY DEF OpToRel
<1>2. PICK x \in T : \A y \in T : ~ (<<y, x>> \in R)
  <2>1. IsWellFoundedOn(R, Nat)
    BY NatLessThanWellFounded, Zenon
  <2> HIDE DEF R
  <2>. QED BY <2>1, WFMin
<1> HIDE DEF R
<1>3. \A y \in T : ~ (y < x)
  BY <1>1, <1>2, Zenon
<1>4. \A y \in T : x <= y
  BY <1>3
<1>. QED BY <1>4

\* A prefix of a prefix, and a prefix of a longer history.
LEMMA PrefixOfPrefix ==
    ASSUME NEW l \in Seq(Entry), NEW v \in 0..Len(l), NEW u \in 0..v
    PROVE  /\ SubSeq(l, 1, v) \in Seq(Entry) /\ Len(SubSeq(l, 1, v)) = v
           /\ SubSeq(SubSeq(l, 1, v), 1, u) = SubSeq(l, 1, u)
OBVIOUS

LEMMA PrefixIs ==
    ASSUME NEW l \in Seq(Entry), NEW v \in 0..Len(l)
    PROVE  SubSeq(l, 1, v) \in Seq(Entry) /\ Len(SubSeq(l, 1, v)) = v
OBVIOUS

LEMMA PrefixOfLonger ==
    ASSUME NEW l \in Seq(Entry), NEW t \in Seq(Entry), NEW v \in 0..Len(l)
    PROVE  SubSeq(l \o t, 1, v) = SubSeq(l, 1, v)
OBVIOUS

LEMMA WholePrefix ==
    ASSUME NEW l \in Seq(Entry)
    PROVE  SubSeq(l, 1, Len(l)) = l
OBVIOUS

\* A checkpoint of a history is one of any history that extends it, and genuine.
LEMMA AnchoredExtends ==
    ASSUME NEW l \in Seq(Entry), NEW t \in Seq(Entry), NEW c, Anchored(c, l)
    PROVE  Anchored(c, l \o t)
<1>1. Len(l) \in Nat /\ Len(t) \in Nat /\ Len(l \o t) = Len(l) + Len(t)
  OBVIOUS
<1>2. /\ Headed(c) /\ c.version \in 1..Len(l) /\ c.root = SubSeq(l, 1, c.version)
      /\ c.previous.version \in 0..(c.version - 1)
  BY DEF Anchored
<1>3. c.version \in 0..Len(l) /\ c.previous.version \in 0..Len(l) /\ c.version \in 1..Len(l \o t)
  BY <1>1, <1>2
<1>4. /\ SubSeq(l \o t, 1, c.version) = SubSeq(l, 1, c.version)
      /\ SubSeq(l \o t, 1, c.previous.version) = SubSeq(l, 1, c.previous.version)
  BY <1>3, PrefixOfLonger
<1>. QED BY <1>2, <1>3, <1>4 DEF Anchored

LEMMA AnchoredGenuine ==
    ASSUME NEW l \in Seq(Entry), NEW c, Anchored(c, l)
    PROVE  Genuine(c)
<1> DEFINE v == c.version
           u == c.previous.version
<1>1. v \in 1..Len(l) /\ u \in 0..(v - 1)
  BY DEF Anchored
<1>2. c.root \in Seq(Entry) /\ Len(c.root) = v
  BY <1>1, PrefixOfPrefix DEF Anchored
<1>3. c.root = SubSeq(c.root, 1, v)
  BY <1>2, WholePrefix
<1>4. c.previous.root = SubSeq(c.root, 1, u)
  BY <1>1, PrefixOfPrefix DEF Anchored
<1>. QED BY <1>1, <1>2, <1>3, <1>4 DEF Genuine, Anchored

LEMMA ChainExtends ==
    ASSUME NEW l \in Seq(Entry), NEW t \in Seq(Entry), NEW cps, Chain(cps, l)
    PROVE  Chain(cps, l \o t)
BY AnchoredExtends DEF Chain

\* The latest checkpoint is one there is, and every other is before it.
LEMMA LatestIsLast ==
    ASSUME NEW l \in Seq(Entry), NEW cps, Chain(cps, l)
    PROVE  /\ latestVersion(cps) \in 0..Len(l)
           /\ DOMAIN cps # {} => latestVersion(cps) \in DOMAIN cps
           /\ DOMAIN cps = {} => latestVersion(cps) = 0
           /\ \A v \in DOMAIN cps : v \in 1..Len(l) /\ v <= latestVersion(cps)
<1> DEFINE S == DOMAIN cps \cup {0}
<1>1. \A v \in DOMAIN cps : v \in 1..Len(l)
  BY DEF Chain, Anchored
<1>2. \E m \in S : \A v \in S : m >= v
  <2>1. CASE DOMAIN cps = {}
    <3>. WITNESS 0 \in S
    <3>. QED BY <2>1
  <2>2. CASE DOMAIN cps # {}
    <3>1. PICK m \in DOMAIN cps : \A v \in DOMAIN cps : v <= m
      BY <2>2 DEF Chain
    <3>. WITNESS m \in S
    <3>. QED BY <1>1, <3>1
  <2>. QED BY <2>1, <2>2
<1>3. latestVersion(cps) \in S /\ \A v \in S : latestVersion(cps) >= v
  <2> HIDE DEF S
  <2>1. latestVersion(cps) = CHOOSE m \in S : \A v \in S : m >= v
    BY DEF latestVersion, Max, S
  <2>. QED BY <1>2, <2>1
<1>. QED BY <1>1, <1>3

\* The head in a checkpoint of the state of the moment.
LEMMA HeadOfState ==
    ASSUME log \in Seq(Entry)
    PROVE  Headed(Checkpoint)
<1>1. /\ Checkpoint.version = Len(log) /\ Checkpoint.root = SubSeq(log, 1, Len(log))
      /\ Checkpoint.head = [i \in 1..Len(log) |-> <<SubSeq(log, 1, i - 1), i>>]
  BY DEF Checkpoint, HistoryHead, Root, version
<1>2. SubSeq(log, 1, Len(log)) = log
  BY WholePrefix
<1>. QED BY <1>1, <1>2 DEF Headed

\* The checkpoints with one of the state of the moment.
LEMMA IssuedChain ==
    ASSUME log \in Seq(Entry), Chain(checkpoints, log)
    PROVE  /\ Chain(issueCheckpoint, log)
           /\ version > 0 => version \in DOMAIN issueCheckpoint
           /\ latestVersion(checkpoints) <= latestVersion(issueCheckpoint)
<1> DEFINE m == latestVersion(checkpoints)
<1>1. CASE m = version
  <2>1. issueCheckpoint = checkpoints
    BY <1>1 DEF issueCheckpoint
  <2>2. m \in 0..Len(log) /\ (DOMAIN checkpoints # {} => m \in DOMAIN checkpoints)
        /\ (DOMAIN checkpoints = {} => m = 0)
    BY LatestIsLast
  <2>3. m > 0 => m \in DOMAIN checkpoints
    <3>1. m > 0 => m # 0
      BY <2>2
    <3>. QED BY <2>2, <3>1, Zenon
  <2>4. m <= m
    BY <2>2
  <2>. QED BY <1>1, <2>1, <2>3, <2>4
<1>2. CASE m # version
  <2> DEFINE new == issueCheckpoint
  <2>1. /\ m \in 0..Len(log) /\ m < version
        /\ \A v \in DOMAIN checkpoints : v \in 1..Len(log) /\ v < version
    BY <1>2, LatestIsLast DEF version
  <2>2. /\ new = [v \in DOMAIN checkpoints \cup {version} |->
                     IF v = version THEN Checkpoint ELSE checkpoints[v]]
    BY <1>2 DEF issueCheckpoint
  <2>3. Anchored(Checkpoint, log) /\ Checkpoint.version = version
    <3>1. CASE DOMAIN checkpoints = {}
      <4>1. Checkpoint.previous = NoRef /\ Checkpoint.version = version
            /\ Checkpoint.root = SubSeq(log, 1, version)
        BY <3>1 DEF Checkpoint, Root
      <4>2. SubSeq(log, 1, 0) = <<>>
        OBVIOUS
      <4>. QED BY <4>1, <4>2, <2>1, HeadOfState DEF Anchored, NoRef, version
    <3>2. CASE DOMAIN checkpoints # {}
      <4>2. m \in DOMAIN checkpoints /\ Anchored(checkpoints[m], log) /\ checkpoints[m].version = m
        BY <3>2, LatestIsLast DEF Chain
      <4>3. Checkpoint.previous = Ref(checkpoints[m]) /\ Checkpoint.version = version
            /\ Checkpoint.root = SubSeq(log, 1, version)
        BY <3>2 DEF Checkpoint, Root
      <4>4. Checkpoint.previous.version = m /\ Checkpoint.previous.root = SubSeq(log, 1, m)
        BY <4>2, <4>3 DEF Ref, Anchored
      <4>. QED BY <4>3, <4>4, <2>1, HeadOfState DEF Anchored, version
    <3>. QED BY <3>1, <3>2
  <2> HIDE DEF new
  <2>4. /\ DOMAIN new = DOMAIN checkpoints \cup {version} /\ new = [v \in DOMAIN new |-> new[v]]
        /\ new[version] = Checkpoint
        /\ \A v \in DOMAIN checkpoints : new[v] = checkpoints[v]
    BY <2>1, <2>2
  <2>5. \A v \in DOMAIN new : new[v].version = v /\ Anchored(new[v], log)
    BY <2>3, <2>4 DEF Chain
  <2>6. \E k \in DOMAIN new : \A v \in DOMAIN new : v <= k
    <3>1. \A v \in DOMAIN new : v <= version
      BY <2>1, <2>4 DEF version
    <3>. QED BY <2>4, <3>1
  <2>7. Chain(new, log)
    BY <2>4, <2>5, <2>6 DEF Chain
  <2>8. m <= latestVersion(new)
    <3>1. latestVersion(new) \in 0..Len(log) /\ version <= latestVersion(new)
      BY <2>4, <2>7, LatestIsLast
    <3>. QED BY <2>1, <3>1 DEF version
  <2>. QED BY <2>4, <2>7, <2>8 DEF new
<1>. QED BY <1>1, <1>2
-----------------------------------------------------------------------------
(* The rows a history leaves, one commit after the other.                  *)

\* Where the rows start, and what the next commit makes of them.
RowsStep(t, l, n) ==
    t = [i \in 0..n |-> IF i = 0 THEN NoRows ELSE Replayed(t[i - 1], l[i])]

\* There are such rows for every length: a least one without would not be zero, and
\* is reached from the one before it.
LEMMA RowsExist ==
    ASSUME NEW l, NEW n \in Nat
    PROVE  \E t : RowsStep(t, l, n)
<1> DEFINE Bad == {k \in Nat : ~ \E t : RowsStep(t, l, k)}
<1>1. Bad = {}
  <2> SUFFICES ASSUME Bad # {} PROVE FALSE
    OBVIOUS
  <2>1. PICK k \in Bad : \A j \in Bad : k <= j
    <3>1. Bad \in SUBSET Nat
      OBVIOUS
    <3> HIDE DEF Bad
    <3>. QED BY <3>1, LeastNat
  <2>2. CASE k = 0
    <3> DEFINE t == [i \in 0..0 |-> NoRows]
    <3>1. RowsStep(t, l, 0)
      BY DEF RowsStep
    <3>. QED BY <2>1, <2>2, <3>1
  <2>3. CASE k # 0
    <3>1. k - 1 \in Nat /\ k - 1 \notin Bad
      BY <2>1, <2>3
    <3>2. PICK s : RowsStep(s, l, k - 1)
      BY <3>1
    <3> DEFINE t == [i \in 0..k |-> IF i = k THEN Replayed(s[k - 1], l[k]) ELSE s[i]]
    <3>3. \A i \in 0..(k - 1) : s[i] = IF i = 0 THEN NoRows ELSE Replayed(s[i - 1], l[i])
      BY <3>2 DEF RowsStep
    <3>4. \A i \in 0..k : t[i] = IF i = 0 THEN NoRows ELSE Replayed(t[i - 1], l[i])
      BY <2>1, <2>3, <3>3
    <3>5. DOMAIN t = 0..k /\ t = [i \in 0..k |-> t[i]]
      OBVIOUS
    <3> HIDE DEF t
    <3>6. RowsStep(t, l, k)
      BY <3>4, <3>5 DEF RowsStep
    <3>. QED BY <2>1, <3>6
  <2>. QED BY <2>2, <2>3
<1>. QED BY <1>1

LEMMA RowsAfterStep ==
    ASSUME NEW l \in Seq(Entry)
    PROVE  /\ RowsAfter(l)[0] = NoRows
           /\ \A i \in 1..Len(l) : RowsAfter(l)[i] = Replayed(RowsAfter(l)[i - 1], l[i])
<1>0. Len(l) \in Nat
  OBVIOUS
<1>1. \E t : RowsStep(t, l, Len(l))
  BY <1>0, RowsExist, Zenon
<1>2. RowsAfter(l) = CHOOSE t : RowsStep(t, l, Len(l))
  BY DEF RowsAfter, RowsStep
<1>3. RowsStep(RowsAfter(l), l, Len(l))
  BY <1>1, <1>2
<1>. QED BY <1>3 DEF RowsStep

\* The rows after a prefix are the same in every history with that prefix.
LEMMA RowsOfPrefix ==
    ASSUME NEW l \in Seq(Entry), NEW t \in Seq(Entry), NEW n \in 0..Len(l)
    PROVE  RowsAfter(l \o t)[n] = RowsAfter(l)[n]
<1> DEFINE m == l \o t
           Bad == {k \in 0..Len(l) : RowsAfter(m)[k] # RowsAfter(l)[k]}
<1>1. m \in Seq(Entry) /\ Len(m) >= Len(l) /\ \A i \in 1..Len(l) : m[i] = l[i]
  OBVIOUS
<1> HIDE DEF m
<1>2. Bad = {}
  <2> SUFFICES ASSUME Bad # {} PROVE FALSE
    OBVIOUS
  <2>1. PICK k \in Bad : \A j \in Bad : k <= j
    <3>1. Bad \in SUBSET Nat
      OBVIOUS
    <3> HIDE DEF Bad
    <3>. QED BY <3>1, LeastNat
  <2>2. k # 0
    BY <1>1, <2>1, RowsAfterStep
  <2>3. k - 1 \in 0..Len(l) /\ k - 1 \notin Bad /\ k \in 1..Len(l) /\ k \in 1..Len(m)
    BY <1>1, <2>1, <2>2
  <2>4. RowsAfter(m)[k - 1] = RowsAfter(l)[k - 1]
    BY <2>3
  <2>5. RowsAfter(m)[k] = RowsAfter(l)[k]
    BY <1>1, <2>3, <2>4, RowsAfterStep
  <2>. QED BY <2>1, <2>5
<1>. QED BY <1>2 DEF m

\* Statements leave the rows alone.
LEMMA StatementsReplay ==
    ASSUME NEW l \in Seq(Entry), NEW t \in Seq(Entry), \A i \in DOMAIN t : t[i].kind # "tx"
    PROVE  Replay(l \o t) = Replay(l)
<1> DEFINE m == l \o t
           R == RowsAfter(m)
           Bad == {k \in 0..Len(t) : R[Len(l) + k] # R[Len(l)]}
<1>1. m \in Seq(Entry) /\ Len(m) = Len(l) + Len(t) /\ Len(l) \in Nat /\ Len(t) \in Nat
      /\ \A i \in 1..Len(t) : m[Len(l) + i] = t[i] /\ i \in DOMAIN t
  OBVIOUS
<1> HIDE DEF m
<1>2. Bad = {}
  <2> SUFFICES ASSUME Bad # {} PROVE FALSE
    OBVIOUS
  <2>1. PICK k \in Bad : \A j \in Bad : k <= j
    <3>1. Bad \in SUBSET Nat
      OBVIOUS
    <3> HIDE DEF Bad
    <3>. QED BY <3>1, LeastNat
  <2>2. k # 0
    BY <1>1, <2>1
  <2>3. k - 1 \in 0..Len(t) /\ k - 1 \notin Bad /\ k \in 1..Len(t) /\ Len(l) + k \in 1..Len(m)
    <3>1. k \in 0..Len(t)
      BY <2>1
    <3>2. k \in 1..Len(t) /\ Len(l) + k \in 1..Len(m) /\ k - 1 \in 0..Len(t) /\ ~(k <= k - 1)
      BY <1>1, <2>2, <3>1
    <3> HIDE DEF Bad
    <3>. QED BY <2>1, <3>2
  <2>4. R[Len(l) + (k - 1)] = R[Len(l)]
    BY <2>3
  <2>5. R[Len(l) + k] = Replayed(R[(Len(l) + k) - 1], m[Len(l) + k])
    BY <1>1, <2>3, RowsAfterStep
  <2>6. (Len(l) + k) - 1 = Len(l) + (k - 1)
    BY <1>1, <2>3
  <2>7. R[Len(l) + k] = R[Len(l)]
    BY <1>1, <2>3, <2>4, <2>5, <2>6 DEF Replayed
  <2>. QED BY <2>1, <2>7
<1>3. R[Len(m)] = R[Len(l)]
  BY <1>1, <1>2
<1>4. R[Len(l)] = RowsAfter(l)[Len(l)]
  BY RowsOfPrefix DEF m
<1>. QED BY <1>3, <1>4 DEF Replay, m

\* A transaction's write set is applied to the rows before it.
LEMMA AppendReplay ==
    ASSUME NEW l \in Seq(Entry), NEW e \in Entry
    PROVE  Replay(Append(l, e)) = Replayed(Replay(l), e)
<1> DEFINE m == l \o <<e>>
<1>0. Append(l, e) = m
  BY AppendIsConcat
<1>1. m \in Seq(Entry) /\ Len(m) = Len(l) + 1 /\ m[Len(l) + 1] = e
      /\ <<e>> \in Seq(Entry) /\ Len(l) \in Nat
  OBVIOUS
<1>2. RowsAfter(m)[Len(l)] = RowsAfter(l)[Len(l)]
  <2>1. Len(l) \in 0..Len(l)
    BY <1>1
  <2>. QED BY <1>1, <2>1, RowsOfPrefix, Zenon
<1> HIDE DEF m
<1>3. RowsAfter(m)[Len(l) + 1] = Replayed(RowsAfter(m)[Len(l)], m[Len(l) + 1])
  <2>1. Len(l) + 1 \in 1..Len(m) /\ (Len(l) + 1) - 1 = Len(l)
    BY <1>1
  <2>. QED BY <1>1, <2>1, RowsAfterStep
<1>. QED BY <1>0, <1>1, <1>2, <1>3 DEF Replay

LEMMA NothingReplayed == Replay(<<>>) = NoRows
<1>1. <<>> \in Seq(Entry) /\ Len(<<>>) = 0
  OBVIOUS
<1>. QED BY <1>1, RowsAfterStep DEF Replay
-----------------------------------------------------------------------------
(* The invariant.                                                          *)

\* The store there is at first, and the one kept when a copy was put back.
LEMMA NothingSound == Sound(<<>>, NoRows, <<>>, 1)
<1>1. Chain(<<>>, <<>>)
  BY DEF Chain
<1>2. RecordedOnce(<<>>)
  BY DEF RecordedOnce
<1>. QED BY <1>1, <1>2, NothingReplayed DEF Sound, Covered

LEMMA InitIInv == Init => IInv
BY NothingSound DEF Init, IInv, NoCopy

\* The record grows by statements, or by one transaction.
LEMMA MigrateGrows ==
    ASSUME log \in Seq(Entry), Migrate, log' # log
    PROVE  \E t \in Seq(Entry) : /\ log' = log \o t /\ t # <<>>
                                 /\ \A i \in DOMAIN t : t[i].kind # "tx"
<1> DEFINE k == Min(Missing(log))
           s == Tables[k]
<1>1. PICK n \in 1..(s.indexes + 1) : log' = log \o DDL(s, n)
  BY DEF Migrate
<1>2. Missing(log) # {}
  BY DEF Migrate
<1>3. s \in [name : STRING, indexes : Nat]
  <2>1. Missing(log) \subseteq DOMAIN Tables /\ DOMAIN Tables = 1..Len(Tables) /\ Len(Tables) \in Nat
    BY LedgerAssumption DEF Missing
  <2>2. \E x \in Missing(log) : \A y \in Missing(log) : x <= y
    BY <1>2, <2>1, LeastNat
  <2>3. k \in Missing(log)
    BY <2>2 DEF Min
  <2>4. k \in 1..Len(Tables)
    BY <2>1, <2>3
  <2>5. \A i \in 1..Len(Tables) : Tables[i] \in [name : STRING, indexes : Nat]
    <3> DEFINE Table == [name : STRING, indexes : Nat]
    <3>1. Tables \in Seq(Table)
      BY LedgerAssumption
    <3> HIDE DEF Table
    <3>2. \A i \in 1..Len(Tables) : Tables[i] \in Table
      BY <3>1, ElementOfSeq
    <3>. QED BY <3>2 DEF Table
  <2> HIDE DEF k
  <2>. QED BY <2>4, <2>5, Zenon
<1> HIDE DEF s
<1>4. n \in Nat /\ n > 0
  BY <1>1, <1>3
<1>5. \A i \in 1..n : DDL(s, n)[i] \in Entry /\ DDL(s, n)[i].kind # "tx"
  BY <1>3 DEF DDL, Entry
<1>6. DDL(s, n) \in [1..n -> Entry]
  BY <1>5 DEF DDL
<1>7. DDL(s, n) \in Seq(Entry) /\ Len(DDL(s, n)) = n /\ DOMAIN DDL(s, n) = 1..n
  BY <1>4, <1>6
<1>8. DDL(s, n) # <<>>
  BY <1>4, <1>7
<1>9. \A i \in DOMAIN DDL(s, n) : DDL(s, n)[i].kind # "tx"
  BY <1>5, <1>7
<1>. QED BY <1>1, <1>7, <1>8, <1>9, Zenon

LEMMA CommitGrows ==
    ASSUME log \in Seq(Entry), NEW r \in DOMAIN Requests, Commit(r)
    PROVE  \E e \in Entry : /\ log' = Append(log, e)
                            /\ e.kind = "tx" /\ e.before = Len(log) /\ e.after = Len(log) + 1
                            /\ ~transactionByID(log, e.txid)
                            /\ rows' = Replayed(rows, e)
<1> DEFINE txid == TxID(Filled(Requests[r].env), Requests[r].ops)
<1>1. /\ log' = Append(log, TxRow(txid)) /\ ~transactionByID(log, txid)
      /\ rows' = apply(rows, txid, txid[2]).rows
  BY DEF Commit, commit, TxID
<1>2. txid \in TxIDs
  BY DEF TxIDs
<1> HIDE DEF txid
<1>3. TxRow(txid) \in [kind : {"tx"}, txid : TxIDs, before : Nat, after : Nat]
  BY <1>2 DEF TxRow, version
<1>4. rows' = Replayed(rows, TxRow(txid))
  BY <1>1 DEF Replayed, TxRow
<1>. QED BY <1>1, <1>3, <1>4 DEF Entry, TxRow, version

LEMMA GrownOnce ==
    ASSUME log \in Seq(Entry), RecordedOnce(log), NEW t \in Seq(Entry),
           \A i \in DOMAIN t : t[i].kind # "tx"
    PROVE  RecordedOnce(log \o t)
<1>1. /\ DOMAIN (log \o t) = 1..(Len(log) + Len(t))
      /\ \A i \in 1..Len(log) : (log \o t)[i] = log[i]
      /\ \A i \in (Len(log) + 1)..(Len(log) + Len(t)) : (log \o t)[i] = t[i - Len(log)] /\ i - Len(log) \in DOMAIN t
  OBVIOUS
<1>2. \A i \in DOMAIN (log \o t) : (log \o t)[i].kind = "tx" => i \in DOMAIN log /\ (log \o t)[i] = log[i]
  BY <1>1
<1>. QED BY <1>2 DEF RecordedOnce

LEMMA AppendedOnce ==
    ASSUME log \in Seq(Entry), RecordedOnce(log), NEW e \in Entry,
           e.kind = "tx", e.before = Len(log), e.after = Len(log) + 1, ~transactionByID(log, e.txid)
    PROVE  RecordedOnce(Append(log, e))
<1> DEFINE l == Append(log, e)
<1>1. /\ DOMAIN l = 1..(Len(log) + 1) /\ DOMAIN log = 1..Len(log) /\ Len(log) \in Nat
      /\ l[Len(log) + 1] = e /\ \A i \in 1..Len(log) : l[i] = log[i]
  OBVIOUS
<1>2. \A i \in 1..Len(log) : ~(log[i].kind = "tx" /\ log[i].txid = e.txid)
  BY <1>1 DEF transactionByID
<1> HIDE DEF l
<1>3. RecordedOnce(l)
  <2> SUFFICES ASSUME NEW i \in DOMAIN l, l[i].kind = "tx"
               PROVE  /\ l[i].before = i - 1 /\ l[i].after = i
                      /\ \A j \in DOMAIN l : l[j].kind = "tx" /\ l[j].txid = l[i].txid => j = i
    BY DEF RecordedOnce
  <2>1. CASE i = Len(log) + 1
    BY <1>1, <1>2, <2>1
  <2>2. CASE i \in 1..Len(log)
    <3>1. l[i] = log[i] /\ i \in DOMAIN log
      BY <1>1, <2>2
    <3>2. log[i].before = i - 1 /\ log[i].after = i
      BY <3>1 DEF RecordedOnce
    <3>3. \A j \in 1..Len(log) : l[j].kind = "tx" /\ l[j].txid = l[i].txid => j = i
      BY <1>1, <3>1 DEF RecordedOnce
    <3>4. ~(l[Len(log) + 1].txid = l[i].txid)
      BY <1>1, <1>2, <3>1, <2>2
    <3>. QED BY <1>1, <3>1, <3>2, <3>3, <3>4
  <2>. QED BY <1>1, <2>1, <2>2
<1>. QED BY <1>3 DEF l

\* An instance that serves requests has a record.
LEMMA MigratedNotEmpty ==
    ASSUME log \in Seq(Entry), Missing(log) = {}
    PROVE  Len(log) > 0
<1>1. 1 \in DOMAIN Tables
  BY LedgerAssumption
<1>2. Tables[1].name \in Created(log)
  BY <1>1 DEF Missing
<1>3. DOMAIN log # {}
  BY <1>2 DEF Created
<1>. QED BY <1>3

\* The checkpoint evidence is given with is the state's own.
LEMMA AnchorOfState ==
    ASSUME log \in Seq(Entry), Chain(checkpoints, log), Len(log) > 0
    PROVE  LET anchor == issueCheckpoint[latestVersion(issueCheckpoint)]
           IN  Anchored(anchor, log) /\ anchor.version = version
<1> DEFINE new == issueCheckpoint
           m == latestVersion(new)
<1>1. Chain(new, log) /\ version \in DOMAIN new
  BY IssuedChain DEF version
<1> HIDE DEF new
<1>2. m \in DOMAIN new /\ m \in 0..Len(log) /\ version <= m
  BY <1>1, LatestIsLast
<1>3. m = version
  BY <1>2 DEF version
<1>4. Anchored(new[m], log) /\ new[m].version = m
  BY <1>1, <1>2 DEF Chain
<1>. QED BY <1>3, <1>4 DEF new

\* A checkpoint that is issued leaves a store sound.
LEMMA IssuedSound ==
    ASSUME Sound(log, rows, checkpoints, kept)
    PROVE  Sound(log, rows, issueCheckpoint, kept)
<1>1. /\ log \in Seq(Entry) /\ RecordedOnce(log) /\ Chain(checkpoints, log)
      /\ rows = Replay(log) /\ Covered(kept, checkpoints)
  BY DEF Sound
<1>2. /\ Chain(issueCheckpoint, log)
      /\ latestVersion(checkpoints) <= latestVersion(issueCheckpoint)
  BY <1>1, IssuedChain
<1>3. latestVersion(checkpoints) \in Nat /\ latestVersion(issueCheckpoint) \in Nat
  BY <1>1, <1>2, LatestIsLast
<1>4. Covered(kept, issueCheckpoint)
  BY <1>1, <1>2, <1>3 DEF Covered
<1>. QED BY <1>1, <1>2, <1>4 DEF Sound

\* Every step keeps the invariant.
LEMMA NextIInv == IInv /\ [Next]_vars => IInv'
<1> SUFFICES ASSUME IInv, [Next]_vars PROVE IInv'
  OBVIOUS
<1>u. /\ log \in Seq(Entry) /\ RecordedOnce(log) /\ Chain(checkpoints, log)
      /\ rows = Replay(log) /\ Covered(kept, checkpoints)
      /\ \A c \in held : Genuine(c)
      /\ up => Len(log) > 0
  BY DEF IInv, Sound
<1>v. Sound(log, rows, checkpoints, kept) /\ Sound(copy.log, copy.rows, copy.checkpoints, copy.kept)
  BY DEF IInv
<1>1. CASE Migrate
  <2>1. UNCHANGED <<rows, checkpoints, kept, copy, held>>
    BY <1>1 DEF Migrate
  <2>2. CASE log' = log
    <3>1. up' => Len(log) > 0
      BY <1>1, <1>u, MigratedNotEmpty DEF Migrate
    <3>. QED BY <1>u, <1>v, <2>1, <2>2, <3>1 DEF IInv
  <2>3. CASE log' # log
    <3>1. PICK t \in Seq(Entry) : /\ log' = log \o t /\ t # <<>>
                                  /\ \A i \in DOMAIN t : t[i].kind # "tx"
      BY <1>1, <1>u, <2>3, MigrateGrows
    <3>2. log' \in Seq(Entry) /\ Len(log') > 0
      BY <1>u, <3>1
    <3>3. RecordedOnce(log') /\ rows' = Replay(log')
      BY <1>u, <2>1, <3>1, GrownOnce, StatementsReplay
    <3>4. Chain(checkpoints, log')
      BY <1>u, <3>1, ChainExtends
    <3>5. Sound(log', rows', checkpoints', kept')
      BY <1>u, <2>1, <3>2, <3>3, <3>4 DEF Sound
    <3>. QED BY <1>u, <1>v, <2>1, <3>2, <3>5 DEF IInv
  <2>. QED BY <2>2, <2>3
<1>2. ASSUME NEW r \in DOMAIN Requests, Commit(r) PROVE IInv'
  <2>1. UNCHANGED <<checkpoints, kept, copy, held, up>>
    BY <1>2 DEF Commit
  <2>2. PICK e \in Entry : /\ log' = Append(log, e)
                           /\ e.kind = "tx" /\ e.before = Len(log) /\ e.after = Len(log) + 1
                           /\ ~transactionByID(log, e.txid)
                           /\ rows' = Replayed(rows, e)
    BY <1>2, <1>u, CommitGrows
  <2>3. log' \in Seq(Entry) /\ Len(log') > 0 /\ log' = log \o <<e>> /\ <<e>> \in Seq(Entry)
    <3>1. Append(log, e) = log \o <<e>>
      BY <1>u, AppendIsConcat
    <3>2. Append(log, e) \in Seq(Entry) /\ Len(Append(log, e)) > 0
      BY <1>u
    <3>3. <<e>> \in Seq(Entry)
      OBVIOUS
    <3>. QED BY <2>2, <3>1, <3>2, <3>3
  <2>4. RecordedOnce(log')
    BY <1>u, <2>2, AppendedOnce
  <2>5. Chain(checkpoints, log')
    BY <1>u, <2>3, ChainExtends
  <2>6. rows' = Replay(log')
    BY <1>u, <2>2, AppendReplay
  <2>7. Sound(log', rows', checkpoints', kept')
    BY <1>u, <2>1, <2>3, <2>4, <2>5, <2>6 DEF Sound
  <2>. QED BY <1>u, <1>v, <2>1, <2>3, <2>7 DEF IInv
<1>3. CASE IssueCheckpoint
  <2>1. checkpoints' = issueCheckpoint /\ UNCHANGED <<log, rows, kept, copy, up, held>>
    BY <1>3 DEF IssueCheckpoint
  <2>2. Sound(log', rows', checkpoints', kept')
    BY <1>v, <2>1, IssuedSound
  <2>. QED BY <1>u, <1>v, <2>1, <2>2 DEF IInv
<1>4. CASE Checkpoints
  <2>1. \A c \in readCheckpoints(checkpoints) : Anchored(c, log)
    BY <1>u DEF readCheckpoints, Chain
  <2>2. \A c \in held' : Genuine(c)
    BY <1>4, <1>u, <2>1, AnchoredGenuine DEF Checkpoints
  <2>. QED BY <1>4, <1>u, <1>v, <2>2 DEF IInv, Checkpoints, disk
<1>5. ASSUME NEW k \in Keys, Evidence(k) PROVE IInv'
  <2> DEFINE anchor == issueCheckpoint[latestVersion(issueCheckpoint)]
  <2>1. /\ checkpoints' = issueCheckpoint /\ held' = held \cup {anchor} /\ up
        /\ UNCHANGED <<log, rows, kept, copy, up>>
    BY <1>5 DEF Evidence, anchorCurrentState
  <2>2. Genuine(anchor)
    BY <1>u, <2>1, AnchorOfState, AnchoredGenuine
  <2> HIDE DEF anchor
  <2>3. Sound(log', rows', checkpoints', kept')
    BY <1>v, <2>1, IssuedSound
  <2>. QED BY <1>u, <1>v, <2>1, <2>2, <2>3 DEF IInv
<1>6. ASSUME NEW before \in Reclaims, ReclaimStorage(before) PROVE IInv'
  <2>1. /\ kept' = before /\ latestVersion(checkpoints) >= before
        /\ UNCHANGED <<log, rows, checkpoints, copy, up, held>>
    BY <1>6 DEF ReclaimStorage
  <2>2. before \in Nat /\ latestVersion(checkpoints) \in Nat
    BY <1>u, LedgerAssumption, LatestIsLast
  <2>3. Covered(kept', checkpoints')
    BY <2>1, <2>2 DEF Covered
  <2>4. Sound(log', rows', checkpoints', kept')
    BY <1>u, <2>1, <2>3 DEF Sound
  <2>. QED BY <1>u, <1>v, <2>1, <2>4 DEF IInv
<1>7. CASE TakeCopy
  BY <1>7, <1>u, <1>v DEF IInv, TakeCopy, disk
<1>8. CASE Restore
  <2>1. /\ copy'.log = <<>> /\ copy'.rows = NoRows /\ copy'.checkpoints = <<>> /\ copy'.kept = 1
        /\ log' = copy.log /\ rows' = copy.rows /\ checkpoints' = copy.checkpoints /\ kept' = copy.kept
        /\ ~up' /\ held' = held
    BY <1>8 DEF Restore, NoCopy
  <2>. QED BY <1>u, <1>v, <2>1, NothingSound DEF IInv
<1>9. CASE UNCHANGED vars
  BY <1>9, <1>u, <1>v DEF IInv, vars, disk
<1>. QED BY <1>1, <1>2, <1>3, <1>4, <1>5, <1>6, <1>7, <1>8, <1>9 DEF Next

\* The invariant holds throughout: in particular the stored checkpoints are a chain
\* over the record's own past (issueCheckpoint in core/anchors.go), every checkpoint a
\* customer was ever served is genuine, and every transaction is one version of its
\* own, recorded once (commit in core/core.go).
THEOREM ChainHolds == Spec => []IInv
<1>1. Init => IInv
  BY InitIInv
<1>2. IInv /\ [Next]_vars => IInv'
  BY NextIInv
<1>. QED BY <1>1, <1>2, PTL DEF Spec
-----------------------------------------------------------------------------
(* What follows from it.                                                   *)

\* The state a checkpoint of a customer's is of is a state of the record.
OfTheRecord(c) == c.version <= version /\ c.root = Root(c.version)

\* A bound on how far below the newest a checkpoint is turns the greatest of a set
\* of checkpoints into a least number.
LEMMA GreatestVersion ==
    ASSUME NEW S, NEW n \in Nat, S # {}, \A c \in S : c.version \in 0..n
    PROVE  \E c \in S : \A d \in S : d.version <= c.version
<1> DEFINE T == {n - c.version : c \in S}
<1>1. T \in SUBSET Nat /\ T # {}
  OBVIOUS
<1>2. PICK x \in T : \A y \in T : x <= y
  BY <1>1, LeastNat
<1>3. PICK c \in S : x = n - c.version
  BY <1>2
<1>4. ASSUME NEW d \in S PROVE d.version <= c.version
  <2>1. n - d.version \in T
    OBVIOUS
  <2>2. n - c.version <= n - d.version
    BY <1>2, <1>3, <2>1
  <2>. QED BY <2>2
<1>. QED BY <1>4

LEMMA LowestVersion ==
    ASSUME NEW S, S # {}, \A c \in S : c.version \in Nat
    PROVE  \E c \in S : \A d \in S : c.version <= d.version
<1> DEFINE T == {c.version : c \in S}
<1>1. T \in SUBSET Nat /\ T # {}
  OBVIOUS
<1>2. PICK x \in T : \A y \in T : x <= y
  BY <1>1, LeastNat
<1>. QED BY <1>2

\* A link between a checkpoint of the record and another that names it, or is named
\* by it, in order of version.
LEMMA LinkOfTheRecord ==
    ASSUME log \in Seq(Entry), NEW c, NEW d, Genuine(c), Genuine(d),
           Linked(c, d), OfTheRecord(d)
    PROVE  OfTheRecord(c) /\ c.version < d.version
<1> DEFINE v == d.version
           u == d.previous.version
<1>1. v \in 1..Len(log) /\ d.root = SubSeq(log, 1, v)
  BY DEF OfTheRecord, Genuine, Anchored, Root, version
<1>2. u \in 0..(v - 1) /\ d.previous.root = SubSeq(d.root, 1, u)
  BY DEF Genuine, Anchored
<1>3. c.version = u /\ c.root = d.previous.root
  BY DEF Linked, Ref
<1>4. c.root = SubSeq(log, 1, u)
  BY <1>1, <1>2, <1>3, PrefixOfPrefix
<1>. QED BY <1>1, <1>2, <1>3, <1>4 DEF OfTheRecord, Root, version

\* The served checkpoints are of the record.
LEMMA ServedOfTheRecord ==
    ASSUME IInv
    PROVE  \A c \in readCheckpoints(checkpoints) : Genuine(c) /\ OfTheRecord(c)
<1>1. \A c \in readCheckpoints(checkpoints) : Anchored(c, log)
  BY DEF IInv, Sound, readCheckpoints, Chain
<1>. QED BY <1>1, AnchoredGenuine DEF IInv, Sound, Anchored, OfTheRecord, Root, version

\* A rollback shows, for every record and every customer: the step from the
\* invariant.  A greatest checkpoint that is not of the record would be named by the
\* one after it, which is.
LEMMA ChainShows == IInv => RollbackShows
<1> DEFINE served == readCheckpoints(checkpoints)
           S == held \cup served
<1> SUFFICES ASSUME IInv, served # {}, verifyChain(S),
                    \A c \in held : c.version <= Newest(served).version
             PROVE  \A c \in held : OfTheRecord(c)
  BY DEF RollbackShows, OfTheRecord
<1>1. /\ log \in Seq(Entry) /\ \A c \in held : Genuine(c)
      /\ \A c \in served : Genuine(c) /\ OfTheRecord(c)
  BY ServedOfTheRecord DEF IInv, Sound
<1> HIDE DEF served
<1>2. \A c \in S : Genuine(c) /\ c.version \in Nat
  BY <1>1 DEF Genuine
<1>3. /\ Newest(served) \in served
      /\ Newest(served).version \in 0..Len(log)
  <2>1. \A c \in served : c.version \in 0..Len(log)
    BY <1>1, <1>2 DEF OfTheRecord, version
  <2>2. \E c \in served : \A d \in served : d.version <= c.version
    BY <1>1, <2>1, GreatestVersion
  <2>. QED BY <2>1, <2>2 DEF Newest
<1> DEFINE newest == Newest(served)
           Bad == {c \in S : ~OfTheRecord(c)}
<1>4. \A c \in S : c.version \in 0..Len(log) /\ (c \in held => c.version <= newest.version)
  BY <1>1, <1>2, <1>3 DEF OfTheRecord, version
<1> HIDE DEF newest
<1>5. Bad = {}
  <2> SUFFICES ASSUME Bad # {} PROVE FALSE
    OBVIOUS
  <2>1. PICK c \in Bad : \A d \in Bad : d.version <= c.version
    <3>1. \A b \in Bad : b.version \in 0..Len(log)
      BY <1>4
    <3>2. Len(log) \in Nat
      BY <1>1
    <3> HIDE DEF Bad
    <3>. QED BY <3>1, <3>2, GreatestVersion
  <2>2. c \in held /\ c \notin served /\ c \in S
    BY <1>1
  <2> DEFINE Above == {d \in S : d # c /\ c.version <= d.version}
  <2>3. newest \in Above
    BY <1>3, <1>4, <2>2 DEF newest
  <2>4. PICK d \in Above : \A e \in Above : d.version <= e.version
    BY <1>2, <2>3, LowestVersion
  <2>5. Adjacent(S, c, d)
    <3>1. c # d /\ c.version <= d.version
      BY <2>4
    <3>2. ASSUME NEW e \in S, c.version < e.version, e.version < d.version PROVE FALSE
      <4>1. e \in Above
        BY <1>2, <2>2, <3>2
      <4>. QED BY <1>2, <2>4, <3>2, <4>1
    <3>. QED BY <3>1, <3>2 DEF Adjacent
  <2>6. Linked(c, d) /\ d \in S
    BY <2>2, <2>4, <2>5 DEF verifyChain
  <2>7. c.version < d.version
    BY <1>2, <2>2, <2>6 DEF Linked, Ref, Genuine, Anchored
  <2>8. OfTheRecord(d)
    <3>1. d \notin Bad
      BY <1>2, <2>1, <2>2, <2>6, <2>7
    <3>. QED BY <3>1, <2>6
  <2>9. OfTheRecord(c)
    BY <1>1, <1>2, <2>2, <2>6, <2>8, LinkOfTheRecord
  <2>. QED BY <2>1, <2>9
<1>. QED BY <1>5

\* A customer whose chain of checkpoints holds, reaches what it has and joins what is
\* served now, has nothing but states of the record as it is (verifyChain in
\* cmd/monitor-verify, previous in core/anchors.go): a store put back from an older
\* copy never passes, however often it happens and whatever is written after it.
THEOREM RollbackDetected == Spec => []RollbackShows
BY ChainHolds, ChainShows, PTL
-----------------------------------------------------------------------------
(* The rows and the evidence.                                              *)

\* The rows of the store are what its recorded write sets leave when they are replayed,
\* every transaction is one version of its own and none is recorded twice, for every
\* set of requests, whatever failed, stopped or was put back (commit and apply in
\* core/core.go; Migrate in store/schema.go).
THEOREM ReplayExact == Spec => []ReplayHolds
<1>1. IInv => ReplayHolds
  BY DEF IInv, Sound, ReplayHolds
<1>. QED BY <1>1, ChainHolds, PTL

\* Evidence given by a step checks against its own checkpoint, and the row it shows is
\* the one the history its checkpoint attests leaves (evidence in core/anchors.go,
\* verifyBundle in cmd/monitor-verify), whatever was committed since the last checkpoint.
THEOREM EvidenceExact == Spec => []EvidenceHolds
<1>1. Init => EvidenceHolds
  BY DEF Init, EvidenceHolds
<1>2. IInv /\ EvidenceHolds /\ [Next]_vars => EvidenceHolds'
  <2> SUFFICES ASSUME IInv, EvidenceHolds, [Next]_vars PROVE EvidenceHolds'
    OBVIOUS
  <2>1. ASSUME NEW k \in Keys, Evidence(k) PROVE EvidenceHolds'
    <3> DEFINE anchor == issueCheckpoint[latestVersion(issueCheckpoint)]
    <3>1. /\ bundle' = [version |-> version, root |-> Root(version), key |-> k,
                        row |-> rows[k], checkpoint |-> anchor]
          /\ up
      BY <2>1 DEF Evidence, anchorCurrentState
    <3>2. Anchored(anchor, log) /\ anchor.version = version
      BY <3>1, AnchorOfState DEF IInv, Sound
    <3> HIDE DEF anchor
    <3>3. verifyBundle(bundle')
      BY <3>1, <3>2 DEF verifyBundle, Anchored, Root
    <3>4. rows = Replay(log) /\ Root(version) = log
      BY WholePrefix DEF IInv, Sound, Root, version
    <3>5. bundle'.row = Replay(bundle'.root)[bundle'.key]
      BY <3>1, <3>4
    <3>. QED BY <3>3, <3>5 DEF EvidenceHolds, verifyBundle
  <2>2. CASE UNCHANGED vars
    BY <2>2 DEF EvidenceHolds, verifyBundle, vars
  <2>3. CASE bundle' = NoBundle
    BY <2>3 DEF EvidenceHolds
  <2>4. ASSUME Next PROVE (\E k \in Keys : Evidence(k)) \/ bundle' = NoBundle
    BY <2>4 DEF Next, Migrate, Commit, IssueCheckpoint, Checkpoints, ReclaimStorage, TakeCopy, Restore
  <2>. QED BY <2>1, <2>2, <2>3, <2>4
<1>. QED BY <1>1, <1>2, ChainHolds, PTL DEF Spec

-----------------------------------------------------------------------------
(* The lineage from one checkpoint to another.                             *)

\* Where the folding of the roots starts, and what the next root makes of it.
FoldStart(from) == [head |-> from.head, root |-> from.root, version |-> from.version, ok |-> TRUE]
FoldNext(st, r) ==
    [head |-> HistoryLink(st.head, st.root, r.version), root |-> r.root, version |-> r.version,
     ok |-> st.ok /\ r.version = st.version + 1]
FoldStep(st, from, roots, n) ==
    st = [i \in 0..n |-> IF i = 0 THEN FoldStart(from) ELSE FoldNext(st[i - 1], roots[i])]

LEMMA FoldExists ==
    ASSUME NEW from, NEW roots, NEW n \in Nat
    PROVE  \E st : FoldStep(st, from, roots, n)
<1> DEFINE Bad == {k \in Nat : ~ \E st : FoldStep(st, from, roots, k)}
<1>1. Bad = {}
  <2> SUFFICES ASSUME Bad # {} PROVE FALSE
    OBVIOUS
  <2>1. PICK k \in Bad : \A j \in Bad : k <= j
    <3>1. Bad \in SUBSET Nat
      OBVIOUS
    <3> HIDE DEF Bad
    <3>. QED BY <3>1, LeastNat
  <2>2. CASE k = 0
    <3> DEFINE st == [i \in 0..0 |-> FoldStart(from)]
    <3>1. FoldStep(st, from, roots, 0)
      BY DEF FoldStep
    <3>. QED BY <2>1, <2>2, <3>1
  <2>3. CASE k # 0
    <3>1. k - 1 \in Nat /\ k - 1 \notin Bad
      BY <2>1, <2>3
    <3>2. PICK s : FoldStep(s, from, roots, k - 1)
      BY <3>1
    <3> DEFINE st == [i \in 0..k |-> IF i = k THEN FoldNext(s[k - 1], roots[k]) ELSE s[i]]
    <3>3. \A i \in 0..(k - 1) : s[i] = IF i = 0 THEN FoldStart(from) ELSE FoldNext(s[i - 1], roots[i])
      BY <3>2 DEF FoldStep
    <3>4. \A i \in 0..k : st[i] = IF i = 0 THEN FoldStart(from) ELSE FoldNext(st[i - 1], roots[i])
      BY <2>1, <2>3, <3>3
    <3>5. DOMAIN st = 0..k /\ st = [i \in 0..k |-> st[i]]
      OBVIOUS
    <3> HIDE DEF st
    <3>6. FoldStep(st, from, roots, k)
      BY <3>4, <3>5 DEF FoldStep
    <3>. QED BY <2>1, <3>6
  <2>. QED BY <2>2, <2>3
<1>. QED BY <1>1

LEMMA FoldedStep ==
    ASSUME NEW from, NEW roots, Len(roots) \in Nat
    PROVE  /\ Folded(from, roots)[0] = FoldStart(from)
           /\ \A i \in 1..Len(roots) :
                 Folded(from, roots)[i] = FoldNext(Folded(from, roots)[i - 1], roots[i])
<1>1. \E st : FoldStep(st, from, roots, Len(roots))
  BY FoldExists, Zenon
<1>2. Folded(from, roots) = CHOOSE st : FoldStep(st, from, roots, Len(roots))
  BY DEF Folded, FoldStep, FoldStart, FoldNext
<1>3. FoldStep(Folded(from, roots), from, roots, Len(roots))
  BY <1>1, <1>2
<1>. QED BY <1>3 DEF FoldStep

\* What the fold has reached after so many roots of the record: every version follows,
\* and the head is that of the first anchor with the roots behind it.
Reached(c, m) ==
    [k \in 1..m |-> IF k <= c.version THEN c.head[k]
                    ELSE <<IF k = c.version + 1 THEN c.root ELSE Root(k - 1), k>>]
ReachedAt(c, i) ==
    [head |-> Reached(c, c.version + i), root |-> IF i = 0 THEN c.root ELSE Root(c.version + i),
     version |-> c.version + i, ok |-> TRUE]

\* A sequence with one more element, as a function.
LEMMA AppendedFunction ==
    ASSUME NEW n \in Nat, NEW h, h = [k \in 1..n |-> h[k]], NEW e
    PROVE  Append(h, e) = [k \in 1..(n + 1) |-> IF k = n + 1 THEN e ELSE h[k]]
<1> DEFINE S == {h[k] : k \in 1..n} \cup {e}
<1>1. h \in [1..n -> S] /\ e \in S
  OBVIOUS
<1> HIDE DEF S
<1>2. h \in Seq(S) /\ Len(h) = n
  BY <1>1
<1>. QED BY <1>1, <1>2

LEMMA ReachedNext ==
    ASSUME NEW c, c.version \in Nat, NEW i \in Nat \ {0}
    PROVE  FoldNext(ReachedAt(c, i - 1), [version |-> c.version + i, root |-> Root(c.version + i)])
             = ReachedAt(c, i)
<1> DEFINE v == c.version
           h == Reached(c, v + (i - 1))
           r == IF i - 1 = 0 THEN c.root ELSE Root(v + (i - 1))
<1>1. Append(h, <<r, v + i>>) = Reached(c, v + i)
  <2>1. h = [k \in 1..(v + (i - 1)) |-> h[k]]
    BY DEF Reached
  <2>2. \A k \in 1..(v + i - 1) : h[k] = Reached(c, v + i)[k]
    BY DEF Reached
  <2>3. Reached(c, v + i)[v + i] = <<r, v + i>>
    BY DEF Reached
  <2>4. Reached(c, v + i) = [k \in 1..(v + i) |-> Reached(c, v + i)[k]]
    BY DEF Reached
  <2> HIDE DEF h, r
  <2>5. Append(h, <<r, v + i>>) = [k \in 1..(v + i) |-> IF k = v + i THEN <<r, v + i>> ELSE h[k]]
    <3>1. v + (i - 1) \in Nat /\ (v + (i - 1)) + 1 = v + i
      OBVIOUS
    <3>2. Append(h, <<r, v + i>>) = [k \in 1..((v + (i - 1)) + 1) |->
                                      IF k = (v + (i - 1)) + 1 THEN <<r, v + i>> ELSE h[k]]
      BY <2>1, <3>1, AppendedFunction
    <3>. QED BY <3>1, <3>2, Zenon
  <2>. QED BY <2>2, <2>3, <2>4, <2>5
<1>2. ReachedAt(c, i - 1) = [head |-> h, root |-> r, version |-> v + (i - 1), ok |-> TRUE]
  BY DEF ReachedAt
<1>3. ReachedAt(c, i) = [head |-> Reached(c, v + i), root |-> Root(v + i), version |-> v + i, ok |-> TRUE]
  BY DEF ReachedAt
<1> HIDE DEF h, r
<1>4. v + i = (v + (i - 1)) + 1
  OBVIOUS
<1>5. FoldNext([head |-> h, root |-> r, version |-> v + (i - 1), ok |-> TRUE],
               [version |-> v + i, root |-> Root(v + i)])
        = [head |-> Append(h, <<r, v + i>>), root |-> Root(v + i), version |-> v + i,
           ok |-> TRUE /\ v + i = (v + (i - 1)) + 1]
  BY Zenon DEF FoldNext, HistoryLink
<1>6. (TRUE /\ v + i = (v + (i - 1)) + 1) = TRUE
  BY <1>4
<1>. QED BY <1>1, <1>2, <1>3, <1>5, <1>6, Zenon

LEMMA FoldReaches ==
    ASSUME NEW c, c.version \in Nat, c.head = [k \in 1..c.version |-> c.head[k]],
           NEW to \in Nat, c.version <= to
    PROVE  LET roots == RootsBetween(c.version, to)
           IN  Len(roots) = to - c.version /\ Folded(c, roots)[Len(roots)] = ReachedAt(c, to - c.version)
<1> DEFINE roots == RootsBetween(c.version, to)
           n == to - c.version
           F == Folded(c, roots)
           Bad == {k \in 0..n : F[k] # ReachedAt(c, k)}
<1>1. /\ n \in Nat /\ Len(roots) = n
      /\ \A i \in 1..n : roots[i] = [version |-> c.version + i, root |-> Root(c.version + i)]
  BY DEF RootsBetween
<1> HIDE DEF roots
<1>2. F[0] = FoldStart(c) /\ \A i \in 1..n : F[i] = FoldNext(F[i - 1], roots[i])
  BY <1>1, FoldedStep
<1>3. ReachedAt(c, 0) = FoldStart(c)
  <2>1. c.version + 0 = c.version
    OBVIOUS
  <2>2. Reached(c, c.version) = c.head
    BY DEF Reached
  <2>. QED BY <2>1, <2>2 DEF ReachedAt, FoldStart
<1> HIDE DEF F, n
<1>4. Bad = {}
  <2> SUFFICES ASSUME Bad # {} PROVE FALSE
    OBVIOUS
  <2>1. PICK k \in Bad : \A j \in Bad : k <= j
    <3>1. Bad \in SUBSET Nat
      BY <1>1
    <3> HIDE DEF Bad
    <3>. QED BY <3>1, LeastNat
  <2>2. k # 0
    BY <1>2, <1>3, <2>1
  <2>3. k - 1 \in 0..n /\ k \in 1..n /\ ~(k <= k - 1) /\ k \in Nat \ {0}
    BY <1>1, <2>1, <2>2
  <2>4. F[k - 1] = ReachedAt(c, k - 1)
    BY <2>1, <2>3
  <2>5. F[k] = ReachedAt(c, k)
    BY <1>1, <1>2, <2>3, <2>4, ReachedNext
  <2>. QED BY <2>1, <2>5
<1>5. F[n] = ReachedAt(c, n)
  BY <1>1, <1>4
<1>. QED BY <1>1, <1>5 DEF F, n, roots

\* The lineage of a genuine checkpoint to one of the record: it checks exactly when the
\* first is of the second's past.  The link after the first names its root.
LEMMA LineageExact ==
    ASSUME log \in Seq(Entry), NEW c, Genuine(c), NEW d, Anchored(d, log), c.version < d.version
    PROVE  verifyLineage(c, d, RootsBetween(c.version, d.version))
             <=> c.root = SubSeq(d.root, 1, c.version)
<1> DEFINE v == c.version
           w == d.version
           roots == RootsBetween(v, w)
<1>1. /\ v \in Nat /\ w \in 1..Len(log) /\ v < w /\ Len(log) \in Nat
      /\ c.head = [i \in 1..v |-> <<SubSeq(c.root, 1, i - 1), i>>]
      /\ d.head = [i \in 1..w |-> <<SubSeq(d.root, 1, i - 1), i>>]
      /\ d.root = SubSeq(log, 1, w)
      /\ c.root \in Seq(Entry) /\ Len(c.root) = v
  <2>1. c.root \in Seq(Entry) /\ Len(c.root) = v
    BY DEF Genuine
  <2>2. v \in Nat /\ Len(log) \in Nat
    BY <2>1
  <2>3. Headed(c) /\ Headed(d) /\ w \in 1..Len(log) /\ d.root = SubSeq(log, 1, w)
    BY DEF Genuine, Anchored
  <2>. QED BY <2>1, <2>2, <2>3, Zenon DEF Headed
<1>2. c.head = [i \in 1..v |-> c.head[i]]
  BY <1>1
<1>3. verifyLineage(c, d, roots) <=> Reached(c, w) = d.head
  <2>1. Folded(c, roots)[Len(roots)] = ReachedAt(c, w - v)
    <3>1. w \in Nat /\ v <= w
      BY <1>1
    <3>. QED BY <1>1, <1>2, <3>1, FoldReaches
  <2>2. v + (w - v) = w
    BY <1>1
  <2> HIDE DEF roots
  <2>. QED BY <2>1, <2>2 DEF verifyLineage, ReachedAt
<1>4. \A k \in 1..w : SubSeq(d.root, 1, k - 1) = Root(k - 1)
  <2> SUFFICES ASSUME NEW k \in 1..w PROVE SubSeq(d.root, 1, k - 1) = Root(k - 1)
    OBVIOUS
  <2>1. w \in 0..Len(log) /\ k - 1 \in 0..w /\ d.root = SubSeq(log, 1, w)
    BY <1>1
  <2> HIDE DEF w
  <2>. QED BY <2>1, PrefixOfPrefix DEF Root
<1>5. v \in Nat /\ w \in Nat /\ v < w
  BY <1>1
<1>6. d.root \in Seq(Entry) /\ Len(d.root) = w
  <2>1. w \in 0..Len(log) /\ d.root = SubSeq(log, 1, w)
    BY <1>1
  <2> HIDE DEF w
  <2>. QED BY <2>1, PrefixIs
<1>7. ASSUME Reached(c, w) = d.head PROVE c.root = SubSeq(d.root, 1, v)
  <2>1. v + 1 \in 1..w /\ ~(v + 1 <= v) /\ (v + 1) - 1 = v
    BY <1>5
  <2>2. Reached(c, w)[v + 1] = <<c.root, v + 1>>
    BY <2>1 DEF Reached
  <2>3. d.head[v + 1] = <<SubSeq(d.root, 1, v), v + 1>>
    BY <1>1, <2>1
  <2>. QED BY <1>7, <2>2, <2>3
<1>8. ASSUME c.root = SubSeq(d.root, 1, v) PROVE Reached(c, w) = d.head
  <2>1. ASSUME NEW k \in 1..w PROVE Reached(c, w)[k] = <<SubSeq(d.root, 1, k - 1), k>>
    <3>1. CASE k <= v
      <4>1. Reached(c, w)[k] = <<SubSeq(c.root, 1, k - 1), k>>
        <5>1. k \in 1..v
          BY <1>5, <3>1
        <5>2. Reached(c, w)[k] = c.head[k]
          BY <3>1, Zenon DEF Reached
        <5>. QED BY <1>1, <5>1, <5>2, Zenon
      <4>2. SubSeq(c.root, 1, k - 1) = SubSeq(d.root, 1, k - 1)
        <5>1. v \in 0..Len(d.root) /\ k - 1 \in 0..v
          BY <1>5, <1>6, <3>1
        <5>. QED BY <1>8, <1>6, <5>1, PrefixOfPrefix
      <4>. QED BY <4>1, <4>2
    <3>2. CASE k = v + 1
      <4>1. ~(k <= v) /\ k - 1 = v
        BY <1>5, <3>2
      <4>2. Reached(c, w)[k] = <<c.root, k>>
        BY <3>2, <4>1, Zenon DEF Reached
      <4>. QED BY <1>8, <4>1, <4>2
    <3>3. CASE k > v + 1
      <4>0. ~(k <= v) /\ k # v + 1
        BY <1>5, <3>3
      <4>1. Reached(c, w)[k] = <<Root(k - 1), k>>
        BY <4>0, Zenon DEF Reached
      <4>. QED BY <1>4, <4>1
    <3>4. k <= v \/ k = v + 1 \/ k > v + 1
      BY <1>5
    <3>. QED BY <3>1, <3>2, <3>3, <3>4, Zenon
  <2>2. Reached(c, w) = [k \in 1..w |-> Reached(c, w)[k]]
    BY DEF Reached
  <2>. QED BY <1>1, <2>1, <2>2
<1>. QED BY <1>3, <1>7, <1>8

\* The lineage from any checkpoint a customer holds to the latest one checks exactly
\* when the first is of the second's past, and the roots since the latest checkpoint
\* are never reclaimed (verifyLineage in cmd/monitor-verify, ReclaimStorage in
\* core/retention.go), for every record and however often the store was put back.
THEOREM LineageDecides == Spec => []LineageHolds
<1>1. IInv => LineageHolds
  <2> DEFINE m == latestVersion(checkpoints)
             latest == checkpoints[m]
  <2> SUFFICES ASSUME IInv, DOMAIN checkpoints # {}
               PROVE  /\ Retained(latest.version, version)
                      /\ \A c \in held :
                            c.version < latest.version /\ HasRoots(c.version, latest.version) =>
                               (verifyLineage(c, latest, RootsBetween(c.version, latest.version))
                                  <=> c.root = SubSeq(latest.root, 1, c.version))
    BY DEF LineageHolds
  <2>1. /\ log \in Seq(Entry) /\ Chain(checkpoints, log) /\ Covered(kept, checkpoints)
        /\ \A c \in held : Genuine(c)
    BY DEF IInv, Sound
  <2>2. m \in DOMAIN checkpoints /\ m \in 0..Len(log) /\ latest.version = m /\ Anchored(latest, log)
    BY <2>1, LatestIsLast DEF Chain
  <2>3. Retained(m, version)
    BY <2>1, <2>2 DEF Retained, Covered, version
  <2> HIDE DEF m
  <2>. QED BY <2>1, <2>2, <2>3, LineageExact
<1>. QED BY <1>1, ChainHolds, PTL
-----------------------------------------------------------------------------
(* The register.                                                           *)

Refs(cps) == {Ref(c) : c \in Stored(cps)}

LEMMA NothingAnchored == {Ref(c) : c \in Stored(<<>>)} = {}
<1>1. Stored(<<>>) = {}
  BY DEF Stored
<1>. QED BY <1>1

\* A checkpoint that is issued is an anchor of the state of the moment, or none is.
LEMMA IssueAnchors ==
    ASSUME IInv, checkpoints' = issueCheckpoint, UNCHANGED <<log, kept, copy>>
    PROVE  Reg!Anchor \/ UNCHANGED Reg!vars
<1> DEFINE m == latestVersion(checkpoints)
<1>1. log \in Seq(Entry) /\ Chain(checkpoints, log)
  BY DEF IInv, Sound
<1>2. CASE m = version
  BY <1>2 DEF issueCheckpoint, Reg!vars
<1>3. CASE m # version
  <2>1. \A v \in DOMAIN checkpoints : v \in 1..Len(log) /\ v < version
    BY <1>1, <1>3, LatestIsLast DEF version
  <2>2. \A a \in Refs(checkpoints) : a.version < Len(log)
    BY <1>1, <2>1 DEF Refs, Stored, Ref, Chain, version
  <2>3. Ref(Checkpoint) = [version |-> Len(log), root |-> log]
    BY <1>1, WholePrefix DEF Ref, Checkpoint, Root, version
  <2>4. checkpoints' = [v \in DOMAIN checkpoints \cup {version} |->
                          IF v = version THEN Checkpoint ELSE checkpoints[v]]
    BY <1>3 DEF issueCheckpoint
  <2>5. Stored(checkpoints') = Stored(checkpoints) \cup {Checkpoint}
    BY <2>1, <2>4 DEF Stored
  <2>6. Refs(checkpoints') = Refs(checkpoints) \cup {[version |-> Len(log), root |-> log]}
    BY <2>3, <2>5 DEF Refs
  <2>. QED BY <2>2, <2>6 DEF Reg!Anchor, Refs
<1>. QED BY <1>2, <1>3

\* Every step is one of the register's, or leaves the register alone.
LEMMA StepOfRegister == IInv /\ [Next]_vars => [Reg!Next]_(Reg!vars)
<1> SUFFICES ASSUME IInv, [Next]_vars PROVE Reg!Next \/ UNCHANGED Reg!vars
  OBVIOUS
<1>u. log \in Seq(Entry) /\ Chain(checkpoints, log)
  BY DEF IInv, Sound
<1>1. CASE Migrate
  <2>1. UNCHANGED <<checkpoints, kept, copy>>
    BY <1>1 DEF Migrate
  <2>2. CASE log' = log
    BY <2>1, <2>2 DEF Reg!vars
  <2>3. CASE log' # log
    <3>1. PICK t \in Seq(Entry) : log' = log \o t /\ t # <<>>
      BY <1>1, <1>u, <2>3, MigrateGrows
    <3>2. Len(log') > Len(log) /\ SubSeq(log', 1, Len(log)) = log
      BY <1>u, <3>1, PrefixOfLonger, WholePrefix
    <3>. QED BY <2>1, <3>2 DEF Reg!Next, Reg!Extend
  <2>. QED BY <2>2, <2>3
<1>2. ASSUME NEW r \in DOMAIN Requests, Commit(r) PROVE Reg!Next
  <2>1. UNCHANGED <<checkpoints, kept, copy>>
    BY <1>2 DEF Commit
  <2>2. PICK e \in Entry : log' = Append(log, e)
    BY <1>2, <1>u, CommitGrows
  <2>3. Len(log') > Len(log) /\ SubSeq(log', 1, Len(log)) = log
    BY <1>u, <2>2
  <2>. QED BY <2>1, <2>3 DEF Reg!Next, Reg!Extend
<1>3. CASE IssueCheckpoint
  BY <1>3, IssueAnchors DEF IssueCheckpoint, Reg!Next
<1>4. CASE Checkpoints
  BY <1>4 DEF Checkpoints, disk, Reg!vars
<1>5. ASSUME NEW k \in Keys, Evidence(k) PROVE Reg!Next \/ UNCHANGED Reg!vars
  BY <1>5, IssueAnchors DEF Evidence, anchorCurrentState, Reg!Next
<1>6. ASSUME NEW before \in Reclaims, ReclaimStorage(before) PROVE Reg!Next
  <2> DEFINE m == latestVersion(checkpoints)
  <2>1. kept' > kept /\ kept' <= m /\ DOMAIN checkpoints # {} /\ UNCHANGED <<log, checkpoints, copy>>
    BY <1>6, <1>u, LatestIsLast, LedgerAssumption DEF ReclaimStorage
  <2>2. m \in DOMAIN checkpoints /\ checkpoints[m].version = m
    BY <1>u, <2>1, LatestIsLast DEF Chain
  <2>3. Ref(checkpoints[m]) \in Refs(checkpoints) /\ Ref(checkpoints[m]).version = m
    BY <2>2 DEF Refs, Stored, Ref
  <2>. QED BY <2>1, <2>3 DEF Reg!Next, Reg!Forget, Refs
<1>7. CASE TakeCopy
  BY <1>7 DEF TakeCopy, disk, Reg!Next, Reg!Save
<1>8. CASE Restore
  <2>1. /\ log' = copy.log /\ checkpoints' = copy.checkpoints /\ kept' = copy.kept
        /\ copy'.log = <<>> /\ copy'.checkpoints = <<>> /\ copy'.kept = 1
    BY <1>8 DEF Restore, NoCopy
  <2>2. Reg!PutBack
    BY <2>1, NothingAnchored DEF Reg!PutBack, Reg!Nothing
  <2>. QED BY <2>2 DEF Reg!Next
<1>9. CASE UNCHANGED vars
  BY <1>9 DEF vars, disk, Reg!vars
<1>. QED BY <1>1, <1>2, <1>3, <1>4, <1>5, <1>6, <1>7, <1>8, <1>9 DEF Next

\* The record implements the register: the history is only ever extended, an anchor is
\* of the whole history at the moment it is signed, detail is reclaimed only behind an
\* anchor (ReclaimStorage in core/retention.go), and a copy comes back whole.
THEOREM LedgerImplementsRegister == Spec => ImplementsRegister
<1>1. Init => Reg!Init
  <2> SUFFICES ASSUME Init PROVE Reg!Init
    OBVIOUS
  <2>1. log = <<>> /\ checkpoints = <<>> /\ kept = 1
        /\ copy.log = <<>> /\ copy.checkpoints = <<>> /\ copy.kept = 1
    BY DEF Init, NoCopy
  <2>. QED BY <2>1, NothingAnchored DEF Reg!Init, Reg!Nothing
<1>2. IInv /\ [Next]_vars => [Reg!Next]_(Reg!vars)
  BY StepOfRegister
<1>. QED BY <1>1, <1>2, ChainHolds, PTL DEF Spec, ImplementsRegister, Reg!Spec
=============================================================================
