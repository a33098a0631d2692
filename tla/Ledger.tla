------------------------------- MODULE Ledger -------------------------------
(***************************************************************************)
(* The record: transactions over the ledger (commit, apply, applyOne in    *)
(* core/core.go; store/store.go; Migrate in store/schema.go), checkpoints  *)
(* and evidence (core/anchors.go), storage reclaimed (core/retention.go),  *)
(* and the checks a customer makes offline (cmd/monitor-verify,            *)
(* checkpoint/checkpoint.go).                                              *)
(*                                                                         *)
(* Every block under the store's mutex (Store.Do) is one action.  A root   *)
(* stands for the commits up to its version, as a hash without collisions  *)
(* would.  The store may be replaced by an older copy of itself.           *)
(***************************************************************************)
EXTENDS Integers, FiniteSets, Sequences, FiniteSetsExt, SequencesExt

CONSTANTS
    Tables,         \* the base tables, in order, and how many indexes each has
    Keys,           \* primary keys of the table the requests write to
    Columns,        \* its other columns
    Requests,       \* the actions asked for, by name: envelope and write set
    OptsTenant,     \* the tenant of the instance, "" before it is configured
    Limit,          \* checkpoints served at once
    Widest,         \* versions whose roots are served at once
    Reclaims,       \* versions storage is reclaimed behind
    MaxVersion, MaxRestores             \* bounds

ASSUME LedgerAssumption ==
    /\ Tables \in Seq([name : STRING, indexes : Nat]) /\ Tables # <<>>
    /\ Limit \in Nat \ {0} /\ Widest \in Nat \ {0} /\ Reclaims \subseteq Nat \ {0}
    /\ MaxVersion \in Nat /\ MaxRestores \in Nat

VARIABLES
    log,            \* the ledger's commits: the version is their number
    rows,           \* the rows they left
    checkpoints,    \* the checkpoints beside the ledger, by version
    kept,           \* the first version whose root the ledger still has
    copy,           \* the copy of the store somebody kept
    up,             \* the schema is in place and requests are served
    restores,       \* times the copy was put back
    held,           \* the checkpoints the customer holds
    bundle          \* the evidence given by the last step

disk == <<log, rows, checkpoints, kept>>
vars == <<disk, copy, up, restores, held, bundle>>

-----------------------------------------------------------------------------
(* The ledger.                                                             *)

version == Len(log)

\* The root of a version: it commits to everything up to it.
Root(v) == SubSeq(log, 1, v)

\* The head of the history chain after one more commit, over the root before it.
HistoryLink(head, root, v) == Append(head, <<root, v>>)

\* The head at a version, as the ledger maintains it.
HistoryHead(v) == [i \in 1..v |-> <<Root(i - 1), i>>]

NoRow == [c \in {} |-> ""]
NoRows == [k \in Keys |-> NoRow]

\* The first statements that bring a table and its indexes into being.
DDL(t, n) == [i \in 1..n |-> [kind |-> IF i = 1 THEN "table" ELSE "index", ddl |-> t.name]]

\* The tables there are, and the ones still to be made: a table that exists is
\* passed over, indexes and all.
Created(l) == {l[i].ddl : i \in {j \in DOMAIN l : l[j].kind = "table"}}
Missing(l) == {i \in DOMAIN Tables : Tables[i].name \notin Created(l)}

-----------------------------------------------------------------------------
(* A transaction.                                                          *)

\* The table with a known primary key; anything else is refused.
pkColumns == {"rows"}

\* The envelope with the instance's tenant, when it has none; the second it was
\* written in comes with it.
Filled(env) == [env EXCEPT !.tenant = IF @ = "" THEN OptsTenant ELSE @]

\* Envelope.Validate: a reason, a time, and a tenant for all but the instance's own history.
Validate(env) ==
    /\ env.tenant # "" \/ env.kind = "runtime.event"
    /\ env.timestamp > 0
    /\ env.message \notin {"", "too long", "ends with a full stop"}

\* What a write set must look like before anything is written.
WellFormed(ops) == \A i \in DOMAIN ops : ops[i].table \in pkColumns /\ ops[i].key # "none"

\* TxID: a hash of the canonical envelope and write set together.
TxID(env, ops) == <<env, ops>>

\* The placeholder for the transaction's own id.
substitute(v, txid) == IF v = [lit |-> "$txid"] THEN [tx |-> txid] ELSE v

\* applyOne: a delete or an upsert by primary key.  The key must have all its
\* columns, and an insert has to name every column.
applyOne(st, op, txid) ==
    LET values == [c \in DOMAIN op.values |-> substitute(op.values[c], txid)]
        old == st.rows[op.key]
        new == [c \in DOMAIN values \cup DOMAIN old |->
                   IF c \in DOMAIN values THEN values[c] ELSE old[c]]
    IN  IF ~st.ok \/ op.key \notin Keys THEN [st EXCEPT !.ok = FALSE]
        ELSE IF op.delete THEN [st EXCEPT !.rows[op.key] = NoRow]
        ELSE IF old = NoRow /\ DOMAIN values # Columns THEN [st EXCEPT !.ok = FALSE]
        ELSE [st EXCEPT !.rows[op.key] = new]

\* apply: the whole write set, in order, stopping at the first failure.  The references
\* of the envelope follow as rows under the transaction's own id, complete and under a
\* key no other transaction has: they change no other row, none of them can fail, and
\* what they say is in the envelope that the id stands for.
apply(table, txid, ops) ==
    FoldLeft(LAMBDA st, op : applyOne(st, op, txid), [ok |-> TRUE, rows |-> table], ops)

transactionByID(l, txid) == \E i \in DOMAIN l : l[i].kind = "tx" /\ l[i].txid = txid

\* The transaction row, written ahead of its effects.
TxRow(txid) == [kind |-> "tx", txid |-> txid, before |-> version, after |-> version + 1]

\* Mutant: what was applied before an entry failed stays.
Mut_commit(r) ==
    LET env == Filled(Requests[r].env)
        ops == Requests[r].ops
        txid == TxID(env, ops)
        done == apply(rows, txid, ops)
    IN  /\ Validate(env) /\ WellFormed(ops) /\ ~transactionByID(log, txid)
        /\ log' = IF done.ok THEN Append(log, TxRow(txid)) ELSE log
        /\ rows' = done.rows

\* commit: refused, found again, or applied as one commit and rolled back when an
\* entry of the write set fails.
commit(r) ==
    LET env == Filled(Requests[r].env)
        ops == Requests[r].ops
        txid == TxID(env, ops)
        done == apply(rows, txid, ops)
    IN  /\ Validate(env) /\ WellFormed(ops) /\ ~transactionByID(log, txid) /\ done.ok
        /\ log' = Append(log, TxRow(txid))
        /\ rows' = done.rows

-----------------------------------------------------------------------------
(* Checkpoints.                                                            *)

Newest(S) == CHOOSE c \in S : \A d \in S : d.version <= c.version
Stored(cps) == {cps[v] : v \in DOMAIN cps}
NoRef == [version |-> 0, root |-> <<>>]
Ref(c) == [version |-> c.version, root |-> c.root]

\* latestCheckpoint: the last in the order of the keys, which is that of the versions.
latestVersion(cps) == Max(DOMAIN cps \cup {0})

\* The checkpoint of the state of the moment.
Checkpoint ==
    [version |-> version, root |-> Root(version), head |-> HistoryHead(version),
     previous |-> IF DOMAIN checkpoints = {} THEN NoRef ELSE Ref(checkpoints[latestVersion(checkpoints)])]

\* issueCheckpoint: none when the state has not moved since the last.
issueCheckpoint ==
    IF latestVersion(checkpoints) = version THEN checkpoints
    ELSE [v \in DOMAIN checkpoints \cup {version} |->
             IF v = version THEN Checkpoint ELSE checkpoints[v]]

\* Mutant: the last checkpoint there is will do.
Mut_anchorCurrentState == IF DOMAIN checkpoints = {} THEN issueCheckpoint ELSE checkpoints

\* anchorCurrentState: the checkpoints with one of the state evidence is given about.
anchorCurrentState == issueCheckpoint

\* readCheckpoints: the newest Limit of them.
readCheckpoints(cps) ==
    {cps[v] : v \in {u \in DOMAIN cps : Cardinality({w \in DOMAIN cps : w > u}) < Limit}}

\* RootsBetween: the roots after one version up to another, when the ledger has them
\* and they are not too many to ask for at once.
Retained(from, to) == from = to \/ from + 1 >= kept
HasRoots(from, to) == from <= to /\ to - from <= Widest /\ Retained(from, to)
RootsBetween(from, to) == [i \in 1..(to - from) |-> [version |-> from + i, root |-> Root(from + i)]]

-----------------------------------------------------------------------------
(* What a customer checks.                                                 *)

\* Mutant: a link is taken by its version alone.
Mut_Linked(prev, cur) == cur.previous.version = prev.version

\* A link of the chain: the checkpoint names the one before it.
Linked(prev, cur) == cur.previous = Ref(prev)

\* verifyChain: in order of version, every checkpoint names the one before it.
Adjacent(S, c, d) ==
    /\ c # d /\ c.version <= d.version
    /\ ~ \E e \in S : c.version < e.version /\ e.version < d.version
verifyChain(S) == \A c, d \in S : Adjacent(S, c, d) => Linked(c, d)

\* Mutant: the versions are followed and the last root compared, not the chain of heads.
Mut_verifyLineage(from, to, roots) ==
    /\ \A i \in DOMAIN roots : roots[i].version = from.version + i
    /\ roots # <<>> /\ Last(roots).root = to.root

\* The roots, folded one by one from an anchor: the head, root and version after each,
\* and whether the versions followed.
Folded(from, roots) ==
    LET st[i \in 0..Len(roots)] ==
            IF i = 0 THEN [head |-> from.head, root |-> from.root, version |-> from.version, ok |-> TRUE]
            ELSE [head |-> HistoryLink(st[i - 1].head, st[i - 1].root, roots[i].version),
                  root |-> roots[i].root, version |-> roots[i].version,
                  ok |-> st[i - 1].ok /\ roots[i].version = st[i - 1].version + 1]
    IN  st

\* verifyLineage: the roots, folded from the head of one anchor, reach that of the other.
verifyLineage(from, to, roots) ==
    LET end == Folded(from, roots)[Len(roots)]
    IN  end.ok /\ end.version = to.version /\ end.head = to.head

\* verifyBundle: the anchor is of the state the row was read at.
verifyBundle(b) == b.checkpoint.version = b.version /\ b.checkpoint.root = b.root

-----------------------------------------------------------------------------
(* The steps.                                                              *)

NoBundle == [version |-> 0]
NoCopy == [log |-> <<>>, rows |-> NoRows, checkpoints |-> <<>>, kept |-> 1]

Init ==
    /\ log = <<>> /\ rows = NoRows /\ checkpoints = <<>> /\ kept = 1
    /\ copy = NoCopy /\ up = FALSE /\ restores = 0
    /\ held = {} /\ bundle = NoBundle

\* Migrate, at the start: the tables that are missing, in order, each statement a
\* commit of its own.  The process may stop after any of them; the start after that
\* goes on with the tables missing then.
Migrate ==
    /\ ~up
    /\ \/ Missing(log) = {} /\ up' = TRUE /\ UNCHANGED log
       \/ /\ Missing(log) # {} /\ UNCHANGED up
          /\ LET t == Tables[Min(Missing(log))]
             IN  \E n \in 1..(t.indexes + 1) : log' = log \o DDL(t, n)
    /\ UNCHANGED <<rows, checkpoints, kept, copy, restores, held>> /\ bundle' = NoBundle

Commit(r) ==
    /\ up /\ version < MaxVersion
    /\ commit(r)
    /\ UNCHANGED <<checkpoints, kept, copy, up, restores, held>> /\ bundle' = NoBundle

\* IssueCheckpoint, on the schedule, by hand or at the end of a configure request.
IssueCheckpoint ==
    /\ up /\ checkpoints' = issueCheckpoint
    /\ UNCHANGED <<log, rows, kept, copy, up, restores, held>> /\ bundle' = NoBundle

\* Checkpoints: the customer keeps what it is served.
Checkpoints ==
    /\ up /\ held' = held \cup readCheckpoints(checkpoints)
    /\ UNCHANGED <<disk, copy, up, restores>> /\ bundle' = NoBundle

\* Evidence of a row: anchored first, then read.
Evidence(k) ==
    /\ up
    /\ checkpoints' = anchorCurrentState
    /\ LET anchor == checkpoints'[latestVersion(checkpoints')]
       IN  /\ bundle' = [version |-> version, root |-> Root(version), key |-> k,
                         row |-> rows[k], checkpoint |-> anchor]
           /\ held' = held \cup {anchor}
    /\ UNCHANGED <<log, rows, kept, copy, up, restores>>

\* Mutant: the detail goes whether or not a checkpoint covers it.
Mut_ReclaimStorage(before) ==
    /\ up /\ kept < before /\ kept' = before
    /\ UNCHANGED <<log, rows, checkpoints, copy, up, restores, held>> /\ bundle' = NoBundle

\* ReclaimStorage: only what the latest checkpoint covers.
ReclaimStorage(before) ==
    /\ up /\ kept < before
    /\ DOMAIN checkpoints # {} /\ latestVersion(checkpoints) >= before
    /\ kept' = before
    /\ UNCHANGED <<log, rows, checkpoints, copy, up, restores, held>> /\ bundle' = NoBundle

\* Somebody copies the store, and later puts the copy back; it serves once.
TakeCopy ==
    /\ restores < MaxRestores
    /\ copy' = [log |-> log, rows |-> rows, checkpoints |-> checkpoints, kept |-> kept]
    /\ UNCHANGED <<disk, up, restores, held>> /\ bundle' = NoBundle

Restore ==
    /\ restores < MaxRestores /\ restores' = restores + 1
    /\ log' = copy.log /\ rows' = copy.rows
    /\ checkpoints' = copy.checkpoints /\ kept' = copy.kept
    /\ up' = FALSE
    /\ copy' = NoCopy /\ UNCHANGED held /\ bundle' = NoBundle

Next ==
    \/ Migrate
    \/ \E r \in DOMAIN Requests : Commit(r)
    \/ IssueCheckpoint \/ Checkpoints
    \/ \E k \in Keys : Evidence(k)
    \/ \E before \in Reclaims : ReclaimStorage(before)
    \/ TakeCopy \/ Restore

Spec == Init /\ [][Next]_vars

-----------------------------------------------------------------------------
(* Properties.                                                             *)

\* The rows after each commit of a history: the write sets of its transactions, replayed.
Replayed(table, e) == IF e.kind = "tx" THEN apply(table, e.txid, e.txid[2]).rows ELSE table
RowsAfter(l) ==
    LET t[i \in 0..Len(l)] == IF i = 0 THEN NoRows ELSE Replayed(t[i - 1], l[i]) IN t
Replay(l) == RowsAfter(l)[Len(l)]

\* Every transaction is one version, and recorded once.
RecordedOnce(l) ==
    \A i \in DOMAIN l : l[i].kind = "tx" =>
        /\ l[i].before = i - 1 /\ l[i].after = i
        /\ \A j \in DOMAIN l : l[j].kind = "tx" /\ l[j].txid = l[i].txid => j = i

\* The rows are what the recorded write sets leave when they are replayed, every
\* transaction is exactly one version, and no retried request is recorded twice
\* (core.go commit: "the whole action is a single ledger commit"; "a retried request,
\* not a second change"), whatever failed, stopped or was put back in between.
ReplayHolds == rows = Replay(log) /\ RecordedOnce(log)

\* A customer whose checkpoints, with those served now, form a chain that reaches
\* what it holds, holds nothing but states of the record as it is: a store put
\* back from a copy does not pass (checkpoint.go: "A rolled-back register cannot
\* produce a checkpoint chain that reaches the version the customer already holds").
RollbackShows ==
    LET served == readCheckpoints(checkpoints)
    IN  /\ served # {} /\ verifyChain(held \cup served)
        /\ \A c \in held : c.version <= Newest(served).version
        => \A c \in held : c.version <= version /\ c.root = Root(c.version)

\* The lineage from a held checkpoint to the latest one checks exactly when the
\* one is of the other's past, wherever the roots between them are served, and the
\* roots after the latest checkpoint are never reclaimed (monitor-verify verifyLineage: "A record that was rewritten in between
\* cannot reach it"; ReclaimStorage).
LineageHolds ==
    DOMAIN checkpoints # {} =>
    LET latest == checkpoints[latestVersion(checkpoints)]
    IN  /\ Retained(latest.version, version)
        /\ \A c \in held :
              c.version < latest.version /\ HasRoots(c.version, latest.version) =>
                 (verifyLineage(c, latest, RootsBetween(c.version, latest.version))
                    <=> c.root = SubSeq(latest.root, 1, c.version))

\* Evidence checks end to end: the row it shows is the row of the very state its
\* checkpoint attests (anchors.go evidence: "the bundle verifies end to end").
EvidenceHolds ==
    bundle # NoBundle => verifyBundle(bundle) /\ bundle.row = Replay(bundle.root)[bundle.key]

\* The record implements the register: nothing but growth, anchors, forgetting
\* behind an anchor, and a copy put back whole.
Reg == INSTANCE Register WITH
    history <- log,
    anchors <- {Ref(c) : c \in Stored(checkpoints)},
    saved <- [history |-> copy.log, anchors |-> {Ref(c) : c \in Stored(copy.checkpoints)},
              kept |-> copy.kept]
ImplementsRegister == Reg!Spec
=============================================================================
