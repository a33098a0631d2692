------------------------------ MODULE MCLedger ------------------------------
(* An instance of Ledger for TLC.                                            *)
EXTENDS Ledger

SomeTables == <<[name |-> "rows", indexes |-> 1], [name |-> "state", indexes |-> 0]>>

Env(kind, tenant, second) ==
    [kind |-> kind, tenant |-> tenant, timestamp |-> second, message |-> "why", refs |-> <<>>]
Put(k, values) == [table |-> "rows", key |-> k, values |-> values, delete |-> FALSE]
Drop(k) == [table |-> "rows", key |-> k, values |-> NoRow, delete |-> TRUE]
X == [lit |-> "x"]
Own == [lit |-> "$txid"]

\* A row put whole, with the transaction's own id; another put and the first
\* amended, which fails when there is no first; the first dropped; and requests
\* that are refused.
SomeRequests ==
    [put |-> [env |-> Env("change", "t", 1), ops |-> <<Put("k1", [a |-> X, b |-> Own])>>],
     amend |-> [env |-> [Env("runtime.event", "", 1) EXCEPT !.refs = <<"k1">>],
                ops |-> <<Put("k2", [a |-> X, b |-> X]), Put("k1", [a |-> Own])>>],
     drop |-> [env |-> Env("change", "t", 1), ops |-> <<Drop("k1")>>],
     nameless |-> [env |-> Env("change", "", 1), ops |-> <<Drop("k1")>>],
     strange |-> [env |-> Env("change", "t", 1), ops |-> <<[Drop("k1") EXCEPT !.table = "other"]>>]]
=============================================================================
