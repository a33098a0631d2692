------------------------------- MODULE Vault -------------------------------
(***************************************************************************)
(* Credentials: the sealed store (secrets/vault.go) and the record of them *)
(* (core/credentials.go).  A value is named by the call that put it, and   *)
(* so is the key made for it.                                              *)
(*                                                                         *)
(* Put and Destroy hold the vault's lock over several writes to the disk,  *)
(* each a step; Use lets go of the lock between reading an entry and       *)
(* reading the file the entry's key opens.  The transaction that records   *)
(* an operation comes after it, on its own.                                *)
(***************************************************************************)
EXTENDS Integers, Sequences, FiniteSets

CONSTANTS
    Names,          \* credentials
    Covers          \* bindings, and the hosts each of them covers

VARIABLES
    entries,        \* the keyring in memory: the key of each value and its hosts
    keyring,        \* the keyring on the disk
    files,          \* the sealed values on the disk
    bound,          \* what each value was put for: a name and its hosts, in the order of the calls
    holder,         \* the operation that holds the lock
    toRecord,       \* operations done whose transaction is still to come
    meta,           \* the rows of secrets_meta
    ended           \* values whose destruction or replacement was reported done

vaultVars == <<entries, keyring, files, bound, holder, toRecord, meta, ended>>

Values == DOMAIN bound

NoEntry == [key |-> 0, hosts |-> {}]
NoFile == [key |-> 0, value |-> 0]
NoOne == [op |-> "none", name |-> "", value |-> 0]
Free == holder = NoOne

-----------------------------------------------------------------------------

\* hostAllowed: a binding covers a host whatever its port, or a subtree.
hostAllowed(hosts, host) == \E b \in hosts : host \in Covers[b]

\* Mutant: one key for every value of a name.
Mut_newKey == 1

\* The key made for the next value.
newKey == Len(bound) + 1

\* seal, and open: a value opens under the key it was sealed with and no other.
seal(key, value) == [key |-> key, value |-> value]
opens(e, f) == f # NoFile /\ f.key = e.key

\* Put, its validation passed: the value's file is written first.
PutFile(n, hosts) ==
    /\ Free /\ hosts # {}
    /\ files' = [files EXCEPT ![n] = seal(newKey, Len(bound) + 1)]
    /\ bound' = Append(bound, [name |-> n, hosts |-> hosts])
    /\ holder' = [op |-> "put", name |-> n, value |-> Len(bound) + 1]
    /\ UNCHANGED <<entries, keyring, toRecord, meta, ended>>

\* Put: then the entry, then the keyring, which may fail to be saved.
PutKeyring(saved) ==
    /\ holder.op = "put"
    /\ LET n == holder.name
           e == [key |-> files[n].key, hosts |-> bound[holder.value].hosts]
       IN  /\ entries' = [entries EXCEPT ![n] = e]
           /\ keyring' = IF saved THEN entries' ELSE keyring
           /\ toRecord' = IF saved THEN toRecord \cup {holder} ELSE toRecord
           /\ ended' = IF saved THEN ended \cup {v \in Values : bound[v].name = n /\ v < holder.value}
                       ELSE ended
    /\ holder' = NoOne
    /\ UNCHANGED <<files, bound, meta>>

\* Destroy: the entry goes, from memory and from the disk, when the disk takes it.
DestroyKeyring(n, saved) ==
    /\ Free /\ entries[n] # NoEntry
    /\ entries' = [entries EXCEPT ![n] = NoEntry]
    /\ keyring' = IF saved THEN entries' ELSE keyring
    /\ holder' = IF saved THEN [op |-> "destroy", name |-> n, value |-> files[n].value] ELSE NoOne
    /\ UNCHANGED <<files, bound, toRecord, meta, ended>>

\* Destroy: then the file.
DestroyFile ==
    /\ holder.op = "destroy"
    /\ files' = [files EXCEPT ![holder.name] = NoFile]
    /\ ended' = ended \cup {holder.value}
    /\ toRecord' = toRecord \cup {holder}
    /\ holder' = NoOne
    /\ UNCHANGED <<entries, keyring, bound, meta>>

\* The transaction of PutSecret or DestroySecret.
RecordSecret(o, committed) ==
    /\ o \in toRecord /\ toRecord' = toRecord \ {o}
    /\ meta' = IF ~committed THEN meta
               ELSE IF o.op = "put" THEN [meta EXCEPT ![o.name] = [fingerprint |-> o.value, destroyed |-> FALSE]]
               ELSE [meta EXCEPT ![o.name].destroyed = TRUE]
    /\ UNCHANGED <<entries, keyring, files, bound, holder, ended>>

\* Open, at the start: the keyring of the disk, and nothing under way.
OpenVault ==
    /\ entries' = keyring /\ holder' = NoOne /\ toRecord' = {}
    /\ UNCHANGED <<keyring, files, bound, meta, ended>>

InitVault ==
    /\ entries = [n \in Names |-> NoEntry] /\ keyring = entries
    /\ files = [n \in Names |-> NoFile]
    /\ bound = <<>> /\ holder = NoOne /\ toRecord = {}
    /\ meta = [n \in Names |-> [fingerprint |-> 0, destroyed |-> FALSE]]
    /\ ended = {}
=============================================================================
