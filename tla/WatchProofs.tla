---------------------------- MODULE WatchProofs -----------------------------
(***************************************************************************)
(* What Watch promises for every set of monitors, definitions, credentials *)
(* and bindings, and however many requests, failures and stops there are:  *)
(* a value leaves the vault only for a host it was put for and never once  *)
(* it was reported gone, a reading names the definition that made it, and  *)
(* it shows no credential its journey used.                                *)
(***************************************************************************)
EXTENDS Watch, WellFoundedInduction, SequenceTheorems, TLAPS

Bindings == DOMAIN Covers

VaultType ==
    /\ bound \in Seq([name : Names, hosts : SUBSET Bindings])
    /\ entries \in [Names -> [key : Nat, hosts : SUBSET Bindings]]
    /\ keyring \in [Names -> [key : Nat, hosts : SUBSET Bindings]]
    /\ files \in [Names -> [key : Nat, value : Nat]]
    /\ ended \subseteq 0..Len(bound)

\* An entry of a keyring: the key of a value put for its name and its hosts.
Kept(e, n) ==
    e # NoEntry => e.key \in 1..Len(bound) /\ bound[e.key] = [name |-> n, hosts |-> e.hosts]

\* A file: a value of its name, under the key made for it, not reported gone.
Sealed(f, n) ==
    f # NoFile => /\ f.value \in 1..Len(bound) /\ f.key = f.value
                  /\ bound[f.value].name = n /\ f.value \notin ended

\* What an operation under way still has to do.
UnderWay ==
    /\ holder.op = "put" => /\ holder.name \in Names /\ holder.value \in 1..Len(bound)
                            /\ files[holder.name] # NoFile
                            /\ files[holder.name].value = holder.value
    /\ holder.op = "destroy" => /\ holder.name \in Names
                                /\ holder.value = files[holder.name].value

VaultInv ==
    /\ VaultType /\ UnderWay
    /\ \A n \in Names : Kept(entries[n], n)
    /\ \A n \in Names : Kept(keyring[n], n)
    /\ \A n \in Names : Sealed(files[n], n)

-----------------------------------------------------------------------------
(* The vault.                                                              *)

\* What was put stays put, in its place.
Grows(before, after) ==
    Len(before) <= Len(after) /\ \A i \in 1..Len(before) : after[i] = before[i]

LEMMA VaultInit == InitVault => VaultInv
<1> SUFFICES ASSUME InitVault PROVE VaultInv
  OBVIOUS
<1>1. bound \in Seq([name : Names, hosts : SUBSET Bindings])
  BY EmptySeq DEF InitVault
<1>2. VaultType
  BY <1>1 DEF InitVault, VaultType, NoEntry, NoFile
<1>3. UnderWay
  BY DEF InitVault, UnderWay, NoOne
<1>4. \A n \in Names : Kept(entries[n], n) /\ Kept(keyring[n], n) /\ Sealed(files[n], n)
  BY DEF InitVault, Kept, Sealed
<1>. QED BY <1>2, <1>3, <1>4 DEF VaultInv

\* A value more leaves the others as they are.
LEMMA PutFileKeeps ==
    ASSUME VaultInv, NEW n \in Names, NEW B \in BindingSets, PutFile(n, B)
    PROVE  VaultInv' /\ Grows(bound, bound')
<1> DEFINE k == Len(bound) + 1
<1>1. /\ bound' = Append(bound, [name |-> n, hosts |-> B])
      /\ files' = [files EXCEPT ![n] = [key |-> k, value |-> k]]
      /\ holder' = [op |-> "put", name |-> n, value |-> k]
      /\ entries' = entries /\ keyring' = keyring /\ ended' = ended
  BY DEF PutFile, seal, newKey
<1>2. VaultType
  BY DEF VaultInv
<1>3. [name |-> n, hosts |-> B] \in [name : Names, hosts : SUBSET Bindings]
  BY WatchAssumption DEF Bindings
<1>4. /\ bound' \in Seq([name : Names, hosts : SUBSET Bindings]) /\ Len(bound') = k
      /\ bound'[k] = [name |-> n, hosts |-> B]
      /\ \A i \in 1..Len(bound) : bound'[i] = bound[i]
  BY <1>1, <1>2, <1>3, AppendProperties DEF VaultType
<1>5. Len(bound) \in Nat /\ k \in Nat /\ k \notin ended /\ ended \subseteq 0..k
  BY <1>2 DEF VaultType
<1>6. VaultType'
  BY <1>1, <1>2, <1>4, <1>5 DEF VaultType
<1>7. UnderWay'
  BY <1>1, <1>2, <1>4, <1>5 DEF UnderWay, VaultType, NoFile
<1>8. ASSUME NEW m \in Names PROVE Kept(entries[m], m)' /\ Kept(keyring[m], m)'
  <2>1. Kept(entries[m], m) /\ Kept(keyring[m], m)
    BY DEF VaultInv
  <2>. QED BY <2>1, <1>1, <1>4, <1>5 DEF Kept
<1>9. ASSUME NEW m \in Names PROVE Sealed(files[m], m)'
  <2>1. Sealed(files[m], m)
    BY DEF VaultInv
  <2>2. CASE m = n
    BY <2>2, <1>1, <1>2, <1>4, <1>5 DEF Sealed, VaultType
  <2>3. CASE m # n
    <3>1. files'[m] = files[m]
      BY <2>3, <1>1, <1>2 DEF VaultType
    <3>. QED BY <3>1, <2>1, <1>1, <1>4, <1>5 DEF Sealed
  <2>. QED BY <2>2, <2>3
<1>. QED BY <1>4, <1>5, <1>6, <1>7, <1>8, <1>9 DEF VaultInv, Grows

\* The keyring takes the entry of the value just put.
LEMMA PutKeyringKeeps ==
    ASSUME VaultInv, NEW saved \in BOOLEAN, PutKeyring(saved)
    PROVE  VaultInv' /\ bound' = bound
<1> DEFINE n == holder.name
           e == [key |-> files[n].key, hosts |-> bound[holder.value].hosts]
           gone == {v \in Values : bound[v].name = n /\ v < holder.value}
<1>1. /\ entries' = [entries EXCEPT ![n] = e] /\ keyring' \in {entries', keyring}
      /\ ended' \in {ended, ended \cup gone}
      /\ holder' = NoOne /\ files' = files /\ bound' = bound /\ holder.op = "put"
  BY DEF PutKeyring
<1>2. VaultType
  BY DEF VaultInv
<1>3. n \in Names /\ holder.value \in 1..Len(bound) /\ files[n] # NoFile /\ files[n].value = holder.value
  BY <1>1 DEF VaultInv, UnderWay
<1>4. files[n].key = holder.value /\ bound[holder.value].name = n
  BY <1>3 DEF VaultInv, Sealed
<1>5. bound[holder.value] \in [name : Names, hosts : SUBSET Bindings] /\ Len(bound) \in Nat
      /\ DOMAIN bound = 1..Len(bound)
  <2>1. bound \in Seq([name : Names, hosts : SUBSET Bindings])
    BY <1>2 DEF VaultType
  <2>. QED BY <2>1, <1>3, ElementOfSeq, LenProperties
<1>6. e \in [key : Nat, hosts : SUBSET Bindings] /\ Kept(e, n)
  BY <1>3, <1>4, <1>5 DEF Kept
<1>7. gone \subseteq 0..Len(bound)
  BY <1>5 DEF Values
<1> HIDE DEF e, gone
<1>8. VaultType'
  BY <1>1, <1>2, <1>3, <1>6, <1>7 DEF VaultType
<1>9. UnderWay'
  BY <1>1 DEF UnderWay, NoOne
<1>10. ASSUME NEW m \in Names PROVE Kept(entries[m], m)'
  <2>1. Kept(entries[m], m)
    BY DEF VaultInv
  <2>2. CASE m = n
    BY <2>2, <1>1, <1>2, <1>6 DEF VaultType, Kept
  <2>3. CASE m # n
    BY <2>1, <2>3, <1>1, <1>2 DEF VaultType, Kept
  <2>. QED BY <2>2, <2>3
<1>11. ASSUME NEW m \in Names PROVE Kept(keyring[m], m)'
  <2>1. Kept(keyring[m], m)
    BY DEF VaultInv
  <2>2. CASE keyring' = keyring
    BY <2>1, <2>2, <1>1 DEF Kept
  <2>3. CASE keyring' = entries'
    BY <2>3, <1>10
  <2>. QED BY <2>2, <2>3, <1>1
<1>12. ASSUME NEW m \in Names PROVE Sealed(files[m], m)'
  <2>1. Sealed(files[m], m)
    BY DEF VaultInv
  <2>2. files[m] # NoFile => files[m].value \notin gone
    <3>1. CASE m = n
      BY <3>1, <1>3, <1>5 DEF gone
    <3>2. CASE m # n
      BY <2>1, <3>2 DEF gone, Sealed
    <3>. QED BY <3>1, <3>2
  <2>. QED BY <2>1, <2>2, <1>1 DEF Sealed
<1>. QED BY <1>1, <1>8, <1>9, <1>10, <1>11, <1>12 DEF VaultInv

\* An entry that goes.
LEMMA DestroyKeyringKeeps ==
    ASSUME VaultInv, NEW n \in Names, NEW saved \in BOOLEAN, DestroyKeyring(n, saved)
    PROVE  VaultInv' /\ bound' = bound
<1>1. /\ entries' = [entries EXCEPT ![n] = NoEntry] /\ keyring' \in {entries', keyring}
      /\ holder' \in {NoOne, [op |-> "destroy", name |-> n, value |-> files[n].value]}
      /\ files' = files /\ bound' = bound /\ ended' = ended
  BY DEF DestroyKeyring
<1>2. VaultType
  BY DEF VaultInv
<1>3. NoEntry \in [key : Nat, hosts : SUBSET Bindings]
  BY DEF NoEntry
<1>4. VaultType'
  BY <1>1, <1>2, <1>3 DEF VaultType
<1>5. UnderWay'
  <2>1. CASE holder' = NoOne
    BY <2>1 DEF UnderWay, NoOne
  <2>2. CASE holder' = [op |-> "destroy", name |-> n, value |-> files[n].value]
    BY <2>2, <1>1 DEF UnderWay
  <2>. QED BY <2>1, <2>2, <1>1
<1>6. ASSUME NEW m \in Names PROVE Kept(entries[m], m)'
  <2>1. Kept(entries[m], m)
    BY DEF VaultInv
  <2>2. CASE m = n
    BY <2>2, <1>1, <1>2 DEF VaultType, Kept
  <2>3. CASE m # n
    BY <2>1, <2>3, <1>1, <1>2 DEF VaultType, Kept
  <2>. QED BY <2>2, <2>3
<1>7. ASSUME NEW m \in Names PROVE Kept(keyring[m], m)'
  <2>1. Kept(keyring[m], m)
    BY DEF VaultInv
  <2>2. CASE keyring' = keyring
    BY <2>1, <2>2, <1>1 DEF Kept
  <2>3. CASE keyring' = entries'
    BY <2>3, <1>6
  <2>. QED BY <2>2, <2>3, <1>1
<1>8. \A m \in Names : Sealed(files[m], m)'
  BY <1>1 DEF VaultInv, Sealed
<1>. QED BY <1>1, <1>4, <1>5, <1>6, <1>7, <1>8 DEF VaultInv

\* The file of a value that is gone: no other file holds that value.
LEMMA DestroyFileKeeps ==
    ASSUME VaultInv, DestroyFile
    PROVE  VaultInv' /\ bound' = bound
<1> DEFINE n == holder.name
<1>1. /\ files' = [files EXCEPT ![n] = NoFile] /\ ended' = ended \cup {holder.value}
      /\ holder' = NoOne /\ entries' = entries /\ keyring' = keyring /\ bound' = bound
      /\ holder.op = "destroy"
  BY DEF DestroyFile
<1>2. VaultType
  BY DEF VaultInv
<1>3. n \in Names /\ holder.value = files[n].value
  BY <1>1 DEF VaultInv, UnderWay
<1>4. Sealed(files[n], n) /\ Len(bound) \in Nat
  BY <1>2, <1>3 DEF VaultInv, VaultType
<1>5. holder.value \in 0..Len(bound)
  BY <1>3, <1>4 DEF Sealed, NoFile
<1>6. VaultType'
  BY <1>1, <1>2, <1>3, <1>5 DEF VaultType, NoFile
<1>7. UnderWay'
  BY <1>1 DEF UnderWay, NoOne
<1>8. \A m \in Names : Kept(entries[m], m)' /\ Kept(keyring[m], m)'
  BY <1>1 DEF VaultInv, Kept
<1>9. ASSUME NEW m \in Names PROVE Sealed(files[m], m)'
  <2>1. Sealed(files[m], m)
    BY DEF VaultInv
  <2>2. CASE m = n
    BY <2>2, <1>1, <1>2 DEF Sealed, VaultType
  <2>3. CASE m # n
    <3>1. files'[m] = files[m]
      BY <2>3, <1>1, <1>2 DEF VaultType
    <3>2. files[m] # NoFile => files[m].value # holder.value
      BY <2>1, <2>3, <1>3, <1>4 DEF Sealed, NoFile
    <3>. QED BY <3>1, <3>2, <2>1, <1>1 DEF Sealed
  <2>. QED BY <2>2, <2>3
<1>. QED BY <1>1, <1>6, <1>7, <1>8, <1>9 DEF VaultInv

\* The process starts again: the keyring of the disk.
LEMMA OpenVaultKeeps ==
    ASSUME VaultInv, OpenVault
    PROVE  VaultInv' /\ bound' = bound
<1>1. /\ entries' = keyring /\ holder' = NoOne /\ keyring' = keyring /\ files' = files
      /\ bound' = bound /\ ended' = ended
  BY DEF OpenVault
<1>2. VaultType' /\ UnderWay'
  BY <1>1 DEF VaultInv, VaultType, UnderWay, NoOne
<1>. QED BY <1>1, <1>2 DEF VaultInv, Kept, Sealed

\* What holds of the vault holds of what is left alone.
LEMMA VaultStutters ==
    ASSUME VaultInv, entries' = entries, keyring' = keyring, files' = files, bound' = bound,
           holder' = holder, ended' = ended
    PROVE  VaultInv'
BY DEF VaultInv, VaultType, UnderWay, Kept, Sealed

\* Credentials are put and destroyed: the vault keeps its promise and its past.
LEMMA VaultKeeps ==
    ASSUME VaultInv, Credentials
    PROVE  VaultInv' /\ Grows(bound, bound')
<1>1. Len(bound) \in Nat
  BY DEF VaultInv, VaultType
<1>2. bound' = bound => Grows(bound, bound')
  BY <1>1 DEF Grows
<1>3. CASE \E n \in Names, B \in BindingSets : PutFile(n, B)
  BY <1>3, PutFileKeeps
<1>4. CASE \E n \in Names, ok \in BOOLEAN : DestroyKeyring(n, ok)
  BY <1>2, <1>4, DestroyKeyringKeeps
<1>5. CASE DestroyFile
  BY <1>2, <1>5, DestroyFileKeeps
<1>6. CASE \E ok \in BOOLEAN : PutKeyring(ok)
  BY <1>2, <1>6, PutKeyringKeeps
<1>7. CASE \E ok \in BOOLEAN, o \in toRecord : RecordSecret(o, ok)
  BY <1>2, <1>7, VaultStutters DEF RecordSecret
<1>. QED BY <1>3, <1>4, <1>5, <1>6, <1>7 DEF Credentials

-----------------------------------------------------------------------------
(* The service model.                                                      *)

AnyDefinition == Definitions \cup {PackDefinition[m] : m \in Monitors}
Rows == [version : Nat, enabled : BOOLEAN, definition : AnyDefinition \cup {NoMonitor.definition}]

IsRecord(r) ==
    /\ r = [config |-> r.config, service |-> r.service, callback |-> r.callback,
            schedule |-> r.schedule, components |-> r.components, objectives |-> r.objectives,
            monitors |-> r.monitors, versions |-> r.versions]
    /\ r.monitors \in [Monitors -> Rows]
    /\ r.versions \in [Monitors -> Seq(AnyDefinition)]

\* A version of a monitor, and the definition it stands for.
Named(r, m, version, definition) ==
    version \in 1..Len(r.versions[m]) /\ r.versions[m][version] = definition

\* A monitor's row, today's or an earlier one.
KnownRow(r, m, row) ==
    \/ row = NoMonitor
    \/ Named(r, m, row.version, row.definition)

RecordOK(r) ==
    /\ IsRecord(r)
    /\ \A m \in Monitors : /\ r.monitors[m].version = Len(r.versions[m])
                           /\ KnownRow(r, m, r.monitors[m])

\* The definitions a monitor has had are never taken back.
VersionsGrow(r, s) == \A m \in Monitors : Grows(r.versions[m], s.versions[m])

CatalogueInv ==
    RecordOK(record) /\ \A m \in Monitors : KnownRow(record, m, sched[m])

LEMMA NamedStays ==
    ASSUME NEW r, NEW s, VersionsGrow(r, s), IsRecord(r), IsRecord(s),
           NEW m \in Monitors, NEW v, NEW d, Named(r, m, v, d)
    PROVE  Named(s, m, v, d)
<1>1. Len(r.versions[m]) \in Nat /\ Len(s.versions[m]) \in Nat
  BY LenProperties DEF IsRecord
<1>. QED BY <1>1 DEF Named, VersionsGrow, Grows

LEMMA SameVersions ==
    ASSUME NEW r, NEW s, RecordOK(r), IsRecord(s), s.versions = r.versions
    PROVE  VersionsGrow(r, s)
<1>1. \A m \in Monitors : Len(r.versions[m]) \in Nat
  BY LenProperties DEF RecordOK, IsRecord
<1>. QED BY <1>1 DEF VersionsGrow, Grows

\* An upsert that touches no monitor.
LEMMA OtherRows ==
    ASSUME NEW r, NEW s, RecordOK(r), s.monitors = r.monitors, s.versions = r.versions,
           s = [config |-> s.config, service |-> s.service, callback |-> s.callback,
                schedule |-> s.schedule, components |-> s.components,
                objectives |-> s.objectives, monitors |-> s.monitors, versions |-> s.versions]
    PROVE  RecordOK(s) /\ VersionsGrow(r, s)
<1>1. IsRecord(s)
  BY DEF RecordOK, IsRecord
<1>2. RecordOK(s)
  BY <1>1 DEF RecordOK, KnownRow, Named
<1>. QED BY <1>1, <1>2, SameVersions

LEMMA UpsertsKeep ==
    ASSUME NEW r, RecordOK(r), NEW x
    PROVE  /\ RecordOK(UpsertService(r, x)) /\ VersionsGrow(r, UpsertService(r, x))
           /\ RecordOK(UpsertSchedule(r)) /\ VersionsGrow(r, UpsertSchedule(r))
           /\ RecordOK(UpsertComponent(r, x)) /\ VersionsGrow(r, UpsertComponent(r, x))
           /\ RecordOK(UpsertObjective(r, x)) /\ VersionsGrow(r, UpsertObjective(r, x))
           /\ RecordOK([r EXCEPT !.config = x]) /\ VersionsGrow(r, [r EXCEPT !.config = x])
<1>1. r = [config |-> r.config, service |-> r.service, callback |-> r.callback,
           schedule |-> r.schedule, components |-> r.components, objectives |-> r.objectives,
           monitors |-> r.monitors, versions |-> r.versions]
  BY DEF RecordOK, IsRecord
<1>2. RecordOK(UpsertService(r, x)) /\ VersionsGrow(r, UpsertService(r, x))
  <2> DEFINE s == UpsertService(r, x)
             there == TRUE
             times == IF r.schedule = "none" THEN "always" ELSE r.schedule
  <2>0. s = [r EXCEPT !.service = there, !.callback = x, !.schedule = times]
    BY DEF UpsertService
  <2> HIDE DEF s, there, times
  <2>1. s = [config |-> r.config, service |-> there, callback |-> x, schedule |-> times,
             components |-> r.components, objectives |-> r.objectives,
             monitors |-> r.monitors, versions |-> r.versions]
    BY <2>0, <1>1
  <2>2. /\ s.monitors = r.monitors /\ s.versions = r.versions
        /\ s = [config |-> s.config, service |-> s.service, callback |-> s.callback,
                schedule |-> s.schedule, components |-> s.components,
                objectives |-> s.objectives, monitors |-> s.monitors, versions |-> s.versions]
    BY <2>1
  <2>3. RecordOK(s) /\ VersionsGrow(r, s)
    BY <2>2, OtherRows
  <2>. QED BY <2>3 DEF s
<1>3. RecordOK(UpsertSchedule(r)) /\ VersionsGrow(r, UpsertSchedule(r))
  BY <1>1, OtherRows DEF UpsertSchedule
<1>4. RecordOK(UpsertComponent(r, x)) /\ VersionsGrow(r, UpsertComponent(r, x))
  BY <1>1, OtherRows DEF UpsertComponent
<1>5. RecordOK(UpsertObjective(r, x)) /\ VersionsGrow(r, UpsertObjective(r, x))
  BY <1>1, OtherRows DEF UpsertObjective
<1>6. RecordOK([r EXCEPT !.config = x]) /\ VersionsGrow(r, [r EXCEPT !.config = x])
  BY <1>1, OtherRows
<1>. QED BY <1>2, <1>3, <1>4, <1>5, <1>6

\* A new definition is a version more, the ones before it kept.
LEMMA UpsertMonitorKeeps ==
    ASSUME NEW r, RecordOK(r), NEW m \in Monitors, NEW d \in AnyDefinition, NEW on \in BOOLEAN
    PROVE  RecordOK(UpsertMonitor(r, m, d, on)) /\ VersionsGrow(r, UpsertMonitor(r, m, d, on))
<1> DEFINE s == UpsertMonitor(r, m, d, on)
           row == [version |-> r.monitors[m].version + 1,
                   enabled |-> r.monitors[m].version = 0 \/ on, definition |-> d]
<1>1. IsRecord(r) /\ r.monitors[m] \in Rows /\ r.versions[m] \in Seq(AnyDefinition)
  BY DEF RecordOK, IsRecord
<1>2. row \in Rows
  BY <1>1 DEF Rows
<1>3. /\ Append(r.versions[m], d) \in Seq(AnyDefinition)
      /\ Len(Append(r.versions[m], d)) = Len(r.versions[m]) + 1
      /\ Append(r.versions[m], d)[Len(r.versions[m]) + 1] = d
      /\ \A i \in 1..Len(r.versions[m]) : Append(r.versions[m], d)[i] = r.versions[m][i]
  BY <1>1, AppendProperties
<1>4. /\ s.monitors = [r.monitors EXCEPT ![m] = row]
      /\ s.versions = [r.versions EXCEPT ![m] = Append(@, d)]
      /\ s = [config |-> s.config, service |-> s.service, callback |-> s.callback,
              schedule |-> s.schedule, components |-> s.components, objectives |-> s.objectives,
              monitors |-> s.monitors, versions |-> s.versions]
  <2> DEFINE vs == [r.versions EXCEPT ![m] = Append(@, d)]
  <2>1. s = [r EXCEPT !.monitors = [r.monitors EXCEPT ![m] = row], !.versions = vs]
    BY DEF UpsertMonitor
  <2>2. s = [config |-> r.config, service |-> r.service, callback |-> r.callback,
             schedule |-> r.schedule, components |-> r.components, objectives |-> r.objectives,
             monitors |-> [r.monitors EXCEPT ![m] = row], versions |-> vs]
    <3> HIDE DEF row, vs, s
    <3>. QED BY <2>1, <1>1 DEF IsRecord
  <2>. QED BY <2>2
<1> HIDE DEF s, row
<1>5. IsRecord(s)
  BY <1>1, <1>2, <1>3, <1>4 DEF IsRecord
<1>6. ASSUME NEW k \in Monitors
      PROVE  /\ s.monitors[k].version = Len(s.versions[k]) /\ KnownRow(s, k, s.monitors[k])
             /\ Grows(r.versions[k], s.versions[k])
  <2>1. r.monitors[k].version = Len(r.versions[k]) /\ KnownRow(r, k, r.monitors[k])
        /\ Len(r.versions[k]) \in Nat
    BY <1>1, LenProperties DEF RecordOK, IsRecord
  <2>2. CASE k = m
    <3>1. s.monitors[k] = row /\ s.versions[k] = Append(r.versions[m], d)
      BY <2>2, <1>1, <1>4 DEF IsRecord
    <3>2. row.version = Len(r.versions[m]) + 1 /\ row.definition = d
      BY <2>1, <2>2 DEF row
    <3>. QED BY <3>1, <3>2, <2>1, <2>2, <1>3 DEF KnownRow, Named, Grows
  <2>3. CASE k # m
    <3>1. s.monitors[k] = r.monitors[k] /\ s.versions[k] = r.versions[k]
      BY <2>3, <1>1, <1>4 DEF IsRecord
    <3>. QED BY <3>1, <2>1 DEF KnownRow, Named, Grows
  <2>. QED BY <2>2, <2>3
<1>7. RecordOK(s) /\ VersionsGrow(r, s)
  BY <1>5, <1>6 DEF RecordOK, VersionsGrow
<1>. QED BY <1>7 DEF s

LEMMA SwitchKeeps ==
    ASSUME NEW r, RecordOK(r), NEW m \in Monitors, NEW on \in BOOLEAN, r.monitors[m] # NoMonitor
    PROVE  RecordOK(SetMonitorEnabled(r, m, on)) /\ VersionsGrow(r, SetMonitorEnabled(r, m, on))
<1> DEFINE s == SetMonitorEnabled(r, m, on)
           row == [version |-> r.monitors[m].version, enabled |-> on,
                   definition |-> r.monitors[m].definition]
<1>1. IsRecord(r) /\ r.monitors[m] \in Rows
  BY DEF RecordOK, IsRecord
<1>2. row \in Rows /\ [r.monitors[m] EXCEPT !.enabled = on] = row
  BY <1>1 DEF Rows
<1>3. /\ s.monitors = [r.monitors EXCEPT ![m] = row] /\ s.versions = r.versions
      /\ s = [config |-> s.config, service |-> s.service, callback |-> s.callback,
              schedule |-> s.schedule, components |-> s.components, objectives |-> s.objectives,
              monitors |-> s.monitors, versions |-> s.versions]
  <2>1. s = [r EXCEPT !.monitors = [r.monitors EXCEPT ![m] = [r.monitors[m] EXCEPT !.enabled = on]]]
    BY DEF SetMonitorEnabled
  <2>2. s = [r EXCEPT !.monitors = [r.monitors EXCEPT ![m] = row]]
    BY <2>1, <1>2
  <2>3. s = [config |-> r.config, service |-> r.service, callback |-> r.callback,
             schedule |-> r.schedule, components |-> r.components, objectives |-> r.objectives,
             monitors |-> [r.monitors EXCEPT ![m] = row], versions |-> r.versions]
    <3> HIDE DEF row, s
    <3>. QED BY <2>2, <1>1 DEF IsRecord
  <2>. QED BY <2>3
<1>4. row.version = r.monitors[m].version /\ row.definition = r.monitors[m].definition
  OBVIOUS
<1> HIDE DEF s, row
<1>5. IsRecord(s)
  BY <1>1, <1>2, <1>3 DEF IsRecord
<1>6. ASSUME NEW k \in Monitors
      PROVE  s.monitors[k].version = Len(s.versions[k]) /\ KnownRow(s, k, s.monitors[k])
  <2>1. r.monitors[k].version = Len(r.versions[k]) /\ KnownRow(r, k, r.monitors[k])
    BY DEF RecordOK
  <2>2. CASE k = m
    BY <2>1, <2>2, <1>1, <1>3, <1>4 DEF IsRecord, KnownRow, Named
  <2>3. CASE k # m
    BY <2>1, <2>3, <1>1, <1>3 DEF IsRecord, KnownRow, Named
  <2>. QED BY <2>2, <2>3
<1>7. RecordOK(s) /\ VersionsGrow(r, s)
  BY <1>3, <1>5, <1>6, SameVersions DEF RecordOK
<1>. QED BY <1>7 DEF s

\* A monitor there is not leaves the rows as they are.
LEMMA UpsertNoMonitor ==
    ASSUME NEW r, RecordOK(r), NEW m, m \notin Monitors, NEW d
    PROVE  UpsertMonitor(r, m, d, FALSE) = r
<1> DEFINE row == [version |-> r.monitors[m].version + 1,
                   enabled |-> r.monitors[m].version = 0 \/ FALSE, definition |-> d]
           ms == [r.monitors EXCEPT ![m] = row]
           vs == [r.versions EXCEPT ![m] = Append(@, d)]
<1>1. IsRecord(r)
  BY DEF RecordOK
<1>2. UpsertMonitor(r, m, d, FALSE) = [r EXCEPT !.monitors = ms, !.versions = vs]
  BY DEF UpsertMonitor
<1> HIDE DEF row
<1>3. ms = r.monitors
  BY <1>1 DEF IsRecord
<1>4. vs = r.versions
  BY <1>1 DEF IsRecord
<1> HIDE DEF ms, vs
<1>5. [r EXCEPT !.monitors = ms, !.versions = vs] = r
  BY <1>1, <1>3, <1>4 DEF IsRecord
<1>. QED BY <1>2, <1>5

LEMMA SeededKeeps ==
    ASSUME NEW r, RecordOK(r), NEW stage
    PROVE  RecordOK(Seeded(r, stage)) /\ VersionsGrow(r, Seeded(r, stage))
<1>0. VersionsGrow(r, r)
  BY SameVersions DEF RecordOK
<1>1. CASE stage.op = "monitor"
  <2>1. Seeded(r, stage) = UpsertMonitor(r, stage.arg, PackDefinition[stage.arg], FALSE)
    BY <1>1 DEF Seeded
  <2>2. CASE stage.arg \in Monitors
    <3>1. PackDefinition[stage.arg] \in AnyDefinition
      BY <2>2 DEF AnyDefinition
    <3>. QED BY <2>1, <2>2, <3>1, UpsertMonitorKeeps
  <2>3. CASE stage.arg \notin Monitors
    BY <2>1, <2>3, <1>0, UpsertNoMonitor
  <2>. QED BY <2>2, <2>3
<1>2. CASE stage.op # "monitor"
  <2>1. Seeded(r, stage) \in {r, [r EXCEPT !.config = config], UpsertService(r, stage.arg), UpsertSchedule(r),
                              UpsertComponent(r, stage.arg), UpsertObjective(r, stage.arg)}
    BY <1>2, Zenon DEF Seeded
  <2>2. /\ RecordOK(UpsertService(r, stage.arg)) /\ VersionsGrow(r, UpsertService(r, stage.arg))
        /\ RecordOK(UpsertSchedule(r)) /\ VersionsGrow(r, UpsertSchedule(r))
        /\ RecordOK(UpsertComponent(r, stage.arg)) /\ VersionsGrow(r, UpsertComponent(r, stage.arg))
        /\ RecordOK(UpsertObjective(r, stage.arg)) /\ VersionsGrow(r, UpsertObjective(r, stage.arg))
    BY UpsertsKeep, Zenon
  <2>3. RecordOK([r EXCEPT !.config = config]) /\ VersionsGrow(r, [r EXCEPT !.config = config])
    BY UpsertsKeep, Zenon
  <2>. QED BY <2>1, <2>2, <2>3, <1>0, Zenon
<1>. QED BY <1>1, <1>2

\* The scheduler's copy is of rows there are or were.
LEMMA CopyKeeps ==
    ASSUME CatalogueInv, RecordOK(record'), VersionsGrow(record, record'),
           sched' \in {sched, record.monitors, record'.monitors}
    PROVE  CatalogueInv'
<1>1. ASSUME NEW m \in Monitors, NEW row, KnownRow(record, m, row) PROVE KnownRow(record', m, row)
  <2>1. CASE row = NoMonitor
    BY <2>1 DEF KnownRow
  <2>2. CASE Named(record, m, row.version, row.definition)
    <3>1. Named(record', m, row.version, row.definition)
      BY <2>2, NamedStays DEF CatalogueInv, RecordOK
    <3>. QED BY <3>1 DEF KnownRow
  <2>. QED BY <1>1, <2>1, <2>2 DEF KnownRow
<1>2. \A m \in Monitors : KnownRow(record, m, sched[m]) /\ KnownRow(record, m, record.monitors[m])
  BY DEF CatalogueInv, RecordOK
<1>3. \A m \in Monitors : KnownRow(record', m, record'.monitors[m])
  BY DEF RecordOK
<1>4. \A m \in Monitors : KnownRow(record', m, sched'[m])
  BY <1>1, <1>2, <1>3
<1>. QED BY <1>4 DEF CatalogueInv

LEMMA CatalogueInit == InitCatalogue => CatalogueInv
<1> SUFFICES ASSUME InitCatalogue PROVE CatalogueInv
  OBVIOUS
<1>1. /\ record.monitors = [m \in Monitors |-> NoMonitor]
      /\ record.versions = [m \in Monitors |-> <<>>] /\ sched = record.monitors
  BY DEF InitCatalogue
<1>2. record = [config |-> record.config, service |-> record.service, callback |-> record.callback,
                schedule |-> record.schedule, components |-> record.components,
                objectives |-> record.objectives, monitors |-> record.monitors,
                versions |-> record.versions]
  <2> DEFINE ms == [m \in Monitors |-> NoMonitor]
             vs == [m \in Monitors |-> <<>>]
             no == FALSE
  <2>1. record = [config |-> NoConfig, service |-> no, callback |-> "", schedule |-> "none",
                  components |-> {}, objectives |-> {}, monitors |-> ms, versions |-> vs]
    BY DEF InitCatalogue
  <2> HIDE DEF ms, vs, no
  <2>. QED BY <2>1
<1>3. NoMonitor \in Rows /\ NoMonitor.version = 0
  BY DEF Rows, NoMonitor
<1>4. <<>> \in Seq(AnyDefinition) /\ Len(<<>>) = 0
  BY EmptySeq
<1>5. IsRecord(record)
  BY <1>1, <1>2, <1>3, <1>4 DEF IsRecord
<1>6. \A m \in Monitors : /\ record.monitors[m].version = Len(record.versions[m])
                         /\ KnownRow(record, m, record.monitors[m]) /\ KnownRow(record, m, sched[m])
  BY <1>1, <1>3, <1>4 DEF KnownRow
<1>. QED BY <1>5, <1>6 DEF CatalogueInv, RecordOK

\* Whatever is amended, switched, seeded or reloaded.
LEMMA CatalogueKeeps ==
    ASSUME CatalogueInv, People \/ Instance
    PROVE  CatalogueInv' /\ VersionsGrow(record, record')
<1>0. RecordOK(record) /\ VersionsGrow(record, record)
  BY SameVersions DEF CatalogueInv, RecordOK
<1>1. CASE \E m \in Monitors, d \in Definitions, on \in BOOLEAN : AmendMonitor(m, d, on)
  <2>1. PICK m \in Monitors, d \in Definitions, on \in BOOLEAN : AmendMonitor(m, d, on)
    BY <1>1
  <2>2. record' = UpsertMonitor(record, m, d, on) /\ sched' = sched /\ d \in AnyDefinition
    BY <2>1 DEF AmendMonitor, AnyDefinition
  <2>3. RecordOK(record') /\ VersionsGrow(record, record')
    BY <2>2, <1>0, UpsertMonitorKeeps
  <2>. QED BY <2>2, <2>3, CopyKeeps
<1>2. CASE \E m \in Monitors, on \in BOOLEAN : SwitchMonitor(m, on)
  <2>1. PICK m \in Monitors, on \in BOOLEAN : SwitchMonitor(m, on)
    BY <1>2
  <2>2. /\ record' = SetMonitorEnabled(record, m, on) /\ sched' = record'.monitors
        /\ record.monitors[m] # NoMonitor
    BY <2>1 DEF SwitchMonitor
  <2>3. RecordOK(record') /\ VersionsGrow(record, record')
    BY <2>2, <1>0, SwitchKeeps
  <2>. QED BY <2>2, <2>3, CopyKeeps
<1>3. CASE AmendService
  <2>0. sched' = sched
    BY <1>3 DEF AmendService
  <2>1. \/ \E h \in Callbacks : record' = UpsertService(record, h)
        \/ record' = UpsertSchedule(record)
    BY <1>3 DEF AmendService
  <2>2. RecordOK(record') /\ VersionsGrow(record, record')
    BY <2>1, <1>0, UpsertsKeep
  <2>3. sched' \in {sched, record.monitors, record'.monitors}
    BY <2>0
  <2>. QED BY <2>2, <2>3, CopyKeeps
<1>4. CASE ConfigureNext
  <2>1. record' = Seeded(record, Head(conf)) /\ sched' \in {sched, record.monitors}
    BY <1>4 DEF ConfigureNext
  <2>2. RecordOK(record') /\ VersionsGrow(record, record')
    BY <2>1, <1>0, SeededKeeps
  <2>3. sched' \in {sched, record.monitors, record'.monitors}
    BY <2>1
  <2>. QED BY <2>2, <2>3, CopyKeeps
<1>5. CASE record' = record /\ sched' \in {sched, record.monitors}
  <2>1. RecordOK(record') /\ VersionsGrow(record, record')
    BY <1>0, <1>5
  <2>. QED BY <2>1, <1>5, CopyKeeps
<1>6. ASSUME NEW a, RefreshRead(a) \/ RefreshInstall(a)
      PROVE  record' = record /\ sched' \in {sched, record.monitors}
  BY <1>6 DEF RefreshRead, RefreshInstall
<1>7. ASSUME NEW req, Configure(req) PROVE record' = record /\ sched' = sched
  BY <1>7 DEF Configure
<1>8. ASSUME Reload \/ ConfigureFails PROVE record' = record /\ sched' \in {sched, record.monitors}
  BY <1>8 DEF Reload, ConfigureFails
<1>9. CASE People
  <2>1. \A on \in Enabling : on \in BOOLEAN
    BY WatchAssumption
  <2>. QED BY <1>9, <2>1, <1>1, <1>2, <1>3, <1>5, <1>7 DEF People
<1>10. CASE Instance
  BY <1>10, <1>4, <1>5, <1>6, <1>8 DEF Instance
<1>. QED BY <1>9, <1>10

-----------------------------------------------------------------------------
(* The journey.                                                            *)

IsRun(r) ==
    /\ r = [on |-> r.on, monitor |-> r.monitor, version |-> r.version, definition |-> r.definition,
            at |-> r.at, place |-> r.place, held |-> r.held, entry |-> r.entry, class |-> r.class, ran |-> r.ran,
            known |-> r.known, used |-> r.used, turned |-> r.turned, shown |-> r.shown, theirs |-> r.theirs,
            ours |-> r.ours]
    /\ r.on

\* The same journey, for all that the promises are about.
Alike(r, q) ==
    /\ q.monitor = r.monitor /\ q.version = r.version /\ q.definition = r.definition
    /\ q.known = r.known /\ q.used = r.used /\ q.turned = r.turned

\* A value handed out: put for its host, and not reported gone by then.
Rightly(u) == u.value \in 1..Len(bound) /\ hostAllowed(bound[u.value].hosts, u.host) /\ ~u.late
Holds(r) == \A u \in r.held : Rightly(u)

\* An entry read from the keyring is for the name and the host of the step at hand.
Entitled(r) ==
    r.entry \notin {NoEntry, NoCredential} =>
        /\ Ordered(r.definition)[r.at].uses \in Names
        /\ r.entry.key \in 1..Len(bound)
        /\ bound[r.entry.key].hosts = r.entry.hosts
        /\ hostAllowed(r.entry.hosts, Ordered(r.definition)[r.at].host)

\* Every credential a journey used is one its redactor knows, or too short for it, or
\* one that was replaced between two places of a step.
Covered(r) == r.used \ r.turned \subseteq r.known \cup ShortValues

NamedRun(r) == r.monitor \in Monitors /\ Named(record, r.monitor, r.version, r.definition)

RunInv ==
    run = NoRun \/ (IsRun(run) /\ NamedRun(run) /\ Covered(run) /\ Entitled(run) /\ Holds(run))

SentInv == \A u \in sent : Rightly(u)

\* What a reading shows whole is no credential its journey used.
Hidden(reading) ==
    \A x \in reading.shown :
        x.whole /\ x.value \in reading.made.used \ reading.made.turned => x.value \in ShortValues

LastInv ==
    last = NoReading \/
        /\ last.monitor \in Monitors
        /\ Named(record, last.monitor, last.version, last.made.definition)
        /\ Hidden(last)

LEMMA NoRunOff == ~NoRun.on
BY DEF NoRun

LEMMA AfterIs ==
    ASSUME NEW r, IsRun(r), NEW class
    PROVE  LET q == After(r, class)
           IN  IsRun(q) /\ Alike(r, q) /\ q.entry = NoEntry /\ q.held = {}
<1> DEFINE q == After(r, class)
           at == IF class = "" \/ Cleaning THEN r.at + 1 ELSE FirstCleanup(run.definition)
           ran == r.ran \cup {run.at}
           how == IF Cleaning THEN r.class ELSE class
<1>1. q = [r EXCEPT !.at = at, !.ran = ran, !.place = 1, !.held = {}, !.entry = NoEntry,
                    !.class = how]
  BY DEF After
<1> HIDE DEF q, at, ran, how
<1>2. q = [on |-> r.on, monitor |-> r.monitor, version |-> r.version, definition |-> r.definition,
           at |-> at, place |-> 1, held |-> {}, entry |-> NoEntry, class |-> how, ran |-> ran,
           known |-> r.known, used |-> r.used, turned |-> r.turned, shown |-> r.shown, theirs |-> r.theirs,
           ours |-> r.ours]
  BY <1>1 DEF IsRun
<1>3. IsRun(q) /\ Alike(r, q) /\ q.entry = NoEntry /\ q.held = {}
  BY <1>2 DEF IsRun, Alike
<1>. QED BY <1>3 DEF q

LEMMA BlameIs ==
    ASSUME NEW r, IsRun(r), NEW theirs, NEW ours
    PROVE  LET q == Blame(r, theirs, ours) IN IsRun(q) /\ Alike(r, q)
<1> DEFINE q == Blame(r, theirs, ours)
           t == r.theirs \/ (theirs /\ ~Cleaning)
           o == r.ours \/ (ours /\ ~Cleaning)
<1>1. q = [r EXCEPT !.theirs = t, !.ours = o]
  BY DEF Blame
<1> HIDE DEF q, t, o
<1>2. q = [on |-> r.on, monitor |-> r.monitor, version |-> r.version, definition |-> r.definition,
           at |-> r.at, place |-> r.place, held |-> r.held, entry |-> r.entry, class |-> r.class, ran |-> r.ran,
           known |-> r.known, used |-> r.used, turned |-> r.turned, shown |-> r.shown, theirs |-> t, ours |-> o]
  BY <1>1 DEF IsRun
<1>3. IsRun(q) /\ Alike(r, q)
  BY <1>2 DEF IsRun, Alike
<1>. QED BY <1>3 DEF q

LEMMA ShownIs ==
    ASSUME NEW r, IsRun(r), NEW x
    PROVE  LET q == [r EXCEPT !.shown = x] IN IsRun(q) /\ Alike(r, q)
<1> DEFINE q == [r EXCEPT !.shown = x]
<1>1. q = [r EXCEPT !.shown = x]
  OBVIOUS
<1> HIDE DEF q
<1>2. q = [on |-> r.on, monitor |-> r.monitor, version |-> r.version, definition |-> r.definition,
           at |-> r.at, place |-> r.place, held |-> r.held, entry |-> r.entry, class |-> r.class, ran |-> r.ran,
           known |-> r.known, used |-> r.used, turned |-> r.turned, shown |-> x, theirs |-> r.theirs, ours |-> r.ours]
  BY <1>1 DEF IsRun
<1>3. IsRun(q) /\ Alike(r, q)
  BY <1>2 DEF IsRun, Alike
<1>. QED BY <1>3 DEF q

\* The redactor is told of a value before it is used, but for the ones turned over.
LEMMA UsingIs ==
    ASSUME IsRun(run), Covered(run)
    PROVE  /\ IsRun(Using) /\ Covered(Using)
           /\ Using.monitor = run.monitor /\ Using.version = run.version
           /\ Using.definition = run.definition
<1> DEFINE k == Added(run.known, Given)
           u == run.used \cup Earlier \cup Given
           w == run.turned \cup (Earlier \ Given)
<1>1. Using = [run EXCEPT !.known = k, !.used = u, !.turned = w]
  BY DEF Using
<1>2. u \ w \subseteq k \cup ShortValues
  BY DEF Added, Covered
<1> HIDE DEF k, u, w
<1>3. Using = [on |-> run.on, monitor |-> run.monitor, version |-> run.version,
               definition |-> run.definition, at |-> run.at, place |-> run.place,
               held |-> run.held, entry |-> run.entry, class |-> run.class, ran |-> run.ran,
               known |-> k, used |-> u, turned |-> w,
               shown |-> run.shown, theirs |-> run.theirs, ours |-> run.ours]
  BY <1>1 DEF IsRun
<1>. QED BY <1>2, <1>3 DEF IsRun, Covered

\* What a step is given was put for its host, and has not been reported gone.
LEMMA HandedIs ==
    ASSUME VaultInv, IsRun(run), Entitled(run), Opened
    PROVE  \A u \in Handed : Rightly(u)
<1>1. ASSUME NEW v \in Given
      PROVE  /\ v \in 1..Len(bound) /\ hostAllowed(bound[v].hosts, step.host) /\ v \notin ended
  <2>1. run.entry # NoCredential /\ run.entry # NoEntry
        /\ opens(run.entry, files[step.uses]) /\ v = files[step.uses].value
    BY <1>1 DEF Given, Opened
  <2>2. step.uses \in Names /\ bound[run.entry.key].hosts = run.entry.hosts
        /\ hostAllowed(run.entry.hosts, step.host)
    BY <2>1 DEF Entitled, step, Steps
  <2>3. Sealed(files[step.uses], step.uses)
    BY <2>2 DEF VaultInv
  <2>. QED BY <2>1, <2>2, <2>3 DEF Sealed, opens
<1>2. ASSUME NEW u \in Handed
      PROVE  Rightly(u)
  <2>1. u.value \in Given /\ u.host = step.host
    BY DEF Handed
  <2>2. u.late = (Given \cap ended # {})
    BY Zenon DEF Handed
  <2>3. Given \cap ended = {}
    BY <1>1
  <2>4. ~u.late
    BY <2>2, <2>3, Zenon
  <2>. QED BY <2>1, <2>4, <1>1 DEF Rightly
<1>. QED BY <1>2

LEMMA SentIs ==
    ASSUME VaultInv, IsRun(run), Entitled(run), Holds(run), Ready, SentInv
    PROVE  \A u \in Sent : Rightly(u)
BY HandedIs DEF Ready, Sent, SentInv, Holds

Sound(r) == IsRun(r) /\ NamedRun(r) /\ Covered(r) /\ Entitled(r) /\ Holds(r)

\* After a step the journey goes on with no entry in hand.
LEMMA AfterSound ==
    ASSUME NEW r, IsRun(r), NamedRun(r), Covered(r), NEW class
    PROVE  Sound(After(r, class))
<1>1. /\ IsRun(After(r, class)) /\ Alike(r, After(r, class))
      /\ After(r, class).entry = NoEntry /\ After(r, class).held = {}
  BY AfterIs
<1> DEFINE q == After(r, class)
<1> HIDE DEF q
<1>2. IsRun(q) /\ Alike(r, q) /\ q.entry = NoEntry /\ q.held = {}
  BY <1>1 DEF q
<1>3. Sound(q)
  BY <1>2 DEF Sound, NamedRun, Covered, Entitled, Holds, Alike
<1>. QED BY <1>3 DEF q

LEMMA BlameKeeps ==
    ASSUME NEW r, IsRun(r), NamedRun(r), Covered(r), NEW t, NEW o
    PROVE  IsRun(Blame(r, t, o)) /\ NamedRun(Blame(r, t, o)) /\ Covered(Blame(r, t, o))
<1>1. IsRun(Blame(r, t, o)) /\ Alike(r, Blame(r, t, o))
  BY BlameIs
<1>. QED BY <1>1, Zenon DEF NamedRun, Covered, Alike

LEMMA UsingKeeps ==
    ASSUME Sound(run)
    PROVE  IsRun(Using) /\ NamedRun(Using) /\ Covered(Using)
BY UsingIs, Zenon DEF Sound, NamedRun

\* A monitor's row begins a journey.
LEMMA BeginSound ==
    ASSUME NEW m \in Monitors, NEW row, KnownRow(record, m, row), row # NoMonitor,
           Begin(m, row)
    PROVE  Sound(run')
<1>1. Named(record, m, row.version, row.definition)
  BY DEF KnownRow
<1> DEFINE no == FALSE
           yes == TRUE
<1>2. yes
  OBVIOUS
<1>3. run' = [on |-> yes, monitor |-> m, version |-> row.version, definition |-> row.definition,
              at |-> 1, place |-> 1, held |-> {}, entry |-> NoEntry, class |-> "", ran |-> {},
              known |-> {}, used |-> {}, turned |-> {}, shown |-> {}, theirs |-> no, ours |-> no]
  BY DEF Begin
<1> HIDE DEF no, yes
<1>4. IsRun(run') /\ run'.monitor = m /\ run'.version = row.version
      /\ run'.definition = row.definition /\ run'.used = {} /\ run'.entry = NoEntry
      /\ run'.held = {}
  BY <1>2, <1>3 DEF IsRun
<1>. QED BY <1>1, <1>4 DEF Sound, NamedRun, Covered, Entitled, Holds

\* An entry in hand: of the step's credential, for the step's host.
LEMMA ResolveSound ==
    ASSUME VaultInv, Sound(run), Resolve
    PROVE  Sound(run')
<1>0. IsRun(run) /\ NamedRun(run) /\ Covered(run) /\ Holds(run)
  BY DEF Sound
<1>1. CASE Refused
  <2>1. run' = After(run, "policy")
    BY <1>1 DEF Resolve
  <2>. QED BY <2>1, <1>0, AfterSound
<1>2. CASE ~Refused
  <2> DEFINE e == Resolved
  <2>1. run' = [run EXCEPT !.entry = e]
    BY <1>2 DEF Resolve
  <2>2. e \notin {NoEntry, NoCredential} =>
            /\ step.uses \in Names /\ Kept(e, step.uses) /\ hostAllowed(e.hosts, step.host)
    BY <1>2 DEF Refused, Resolved, VaultInv
  <2> HIDE DEF e
  <2>3. run' = [on |-> run.on, monitor |-> run.monitor, version |-> run.version,
                definition |-> run.definition, at |-> run.at,
                place |-> run.place, held |-> run.held, entry |-> e, class |-> run.class, ran |-> run.ran, known |-> run.known,
                used |-> run.used, turned |-> run.turned, shown |-> run.shown, theirs |-> run.theirs, ours |-> run.ours]
    BY <2>1, <1>0 DEF IsRun
  <2>4. /\ IsRun(run') /\ run'.monitor = run.monitor /\ run'.version = run.version
        /\ run'.definition = run.definition /\ run'.known = run.known /\ run'.used = run.used
        /\ run'.turned = run.turned /\ run'.held = run.held
        /\ run'.entry = e /\ run'.at = run.at
    BY <2>3, <1>0 DEF IsRun
  <2>5. NamedRun(run') /\ Covered(run') /\ Holds(run')
    BY <2>4, <1>0 DEF NamedRun, Covered, Holds
  <2>6. Entitled(run')
    <3>1. e # NoEntry /\ Kept(e, step.uses) => e.key \in 1..Len(bound) /\ bound[e.key].hosts = e.hosts
      BY DEF Kept
    <3>2. step = Ordered(run.definition)[run.at]
      BY DEF step, Steps
    <3>. QED BY <2>2, <2>4, <3>1, <3>2, Zenon DEF Entitled
  <2>. QED BY <2>4, <2>5, <2>6 DEF Sound
<1>. QED BY <1>1, <1>2

\* A value in one place of a step, and the next place to be resolved.
LEMMA PlaceSound ==
    ASSUME VaultInv, Sound(run), Place
    PROVE  Sound(run')
<1> DEFINE h == run.held \cup Handed
           p == run.place + 1
<1>1. run' = [run EXCEPT !.held = h, !.place = p, !.entry = NoEntry]
  BY DEF Place
<1>2. \A u \in h : Rightly(u)
  BY HandedIs DEF Place, Sound, Holds
<1> HIDE DEF h, p
<1>3. run' = [on |-> run.on, monitor |-> run.monitor, version |-> run.version,
              definition |-> run.definition, at |-> run.at, place |-> p, held |-> h,
              entry |-> NoEntry, class |-> run.class, ran |-> run.ran, known |-> run.known,
              used |-> run.used, turned |-> run.turned, shown |-> run.shown,
              theirs |-> run.theirs, ours |-> run.ours]
  BY <1>1 DEF Sound, IsRun
<1>4. IsRun(run') /\ Alike(run, run') /\ run'.entry = NoEntry /\ run'.held = h
  BY <1>3 DEF Sound, IsRun, Alike
<1>. QED BY <1>2, <1>4 DEF Sound, NamedRun, Covered, Entitled, Holds, Alike

\* The page's outcome is set down; there is no entry in hand.
LEMMA PageSound ==
    ASSUME Sound(run), run.entry = NoEntry, NEW at, NEW class, NEW ours, NEW theirs, NEW shown,
           run' = [run EXCEPT !.at = at, !.class = class, !.ours = ours, !.theirs = theirs,
                              !.shown = shown]
    PROVE  Sound(run')
<1>1. run' = [on |-> run.on, monitor |-> run.monitor, version |-> run.version,
              definition |-> run.definition, at |-> at,
              place |-> run.place, held |-> run.held, entry |-> run.entry, class |-> class, ran |-> run.ran, known |-> run.known,
              used |-> run.used, turned |-> run.turned, shown |-> shown, theirs |-> theirs, ours |-> ours]
  BY DEF Sound, IsRun
<1>2. IsRun(run') /\ Alike(run, run') /\ run'.entry = NoEntry /\ run'.held = run.held
  BY <1>1 DEF Sound, IsRun, Alike
<1>. QED BY <1>2 DEF Sound, NamedRun, Covered, Entitled, Holds, Alike

-----------------------------------------------------------------------------
(* The whole.                                                              *)

IInv == VaultInv /\ CatalogueInv /\ RunInv /\ SentInv /\ LastInv

LEMMA InitIInv == Init => IInv
<1> SUFFICES ASSUME Init PROVE IInv
  OBVIOUS
<1>1. VaultInv /\ CatalogueInv
  BY VaultInit, CatalogueInit DEF Init
<1>2. RunInv /\ SentInv /\ LastInv
  BY DEF Init, InitJourney, RunInv, SentInv, LastInv
<1>. QED BY <1>1, <1>2 DEF IInv

\* What a journey and a reading rest on stays when more values are put.
LEMMA CredentialsKeep ==
    ASSUME IInv, Credentials
    PROVE  IInv'
<1>1. VaultInv' /\ Grows(bound, bound')
  BY VaultKeeps DEF IInv
<1>2. record' = record /\ sched' = sched /\ run' = run /\ sent' = sent /\ last' = last
  BY DEF Credentials, catalogueVars, journeyVars
<1>3. CatalogueInv'
  BY <1>2 DEF IInv, CatalogueInv
<1>4. Len(bound) \in Nat /\ Len(bound') \in Nat
  BY <1>1 DEF IInv, VaultInv, VaultType
<1>5. \A i \in 1..Len(bound) : i \in 1..Len(bound') /\ bound'[i] = bound[i]
  BY <1>1, <1>4 DEF Grows
<1>6. RunInv'
  <2>1. CASE run = NoRun
    BY <2>1, <1>2 DEF RunInv
  <2>2. CASE IsRun(run) /\ NamedRun(run) /\ Covered(run) /\ Entitled(run) /\ Holds(run)
    <3>1. IsRun(run)' /\ NamedRun(run)' /\ Covered(run)'
      BY <2>2, <1>2 DEF NamedRun, Covered, IsRun
    <3>2. Entitled(run)'
      BY <2>2, <1>2, <1>5, Zenon DEF Entitled
    <3>3. Holds(run)'
      BY <2>2, <1>2, <1>5, Zenon DEF Holds, Rightly
    <3>. QED BY <3>1, <3>2, <3>3 DEF RunInv
  <2>. QED BY <2>1, <2>2 DEF IInv, RunInv
<1>7. SentInv'
  BY <1>2, <1>5, Zenon DEF IInv, SentInv, Rightly
<1>8. LastInv'
  BY <1>2 DEF IInv, LastInv, Hidden
<1>. QED BY <1>1, <1>3, <1>6, <1>7, <1>8 DEF IInv

\* ... and when the service model changes.
LEMMA ModelKeeps ==
    ASSUME IInv, People \/ Instance
    PROVE  IInv'
<1>1. CatalogueInv' /\ VersionsGrow(record, record')
  BY CatalogueKeeps DEF IInv
<1>2. /\ entries' = entries /\ keyring' = keyring /\ files' = files /\ bound' = bound
      /\ holder' = holder /\ ended' = ended /\ run' = run /\ sent' = sent /\ last' = last
  BY DEF People, Instance, vaultVars, journeyVars
<1>3. VaultInv'
  BY <1>2, VaultStutters DEF IInv
<1>4. ASSUME NEW m \in Monitors, NEW v, NEW d, Named(record, m, v, d)
      PROVE  Named(record', m, v, d)
  BY <1>1, <1>4, NamedStays DEF IInv, CatalogueInv, RecordOK
<1>5. RunInv'
  <2>1. CASE run = NoRun
    BY <2>1, <1>2 DEF RunInv
  <2>2. CASE IsRun(run) /\ NamedRun(run) /\ Covered(run) /\ Entitled(run) /\ Holds(run)
    <3>1. IsRun(run)' /\ Covered(run)' /\ Entitled(run)' /\ Holds(run)'
      BY <2>2, <1>2 DEF Covered, IsRun, Entitled, Holds, Rightly
    <3>2. NamedRun(run)'
      BY <2>2, <1>2, <1>4 DEF NamedRun
    <3>. QED BY <3>1, <3>2 DEF RunInv
  <2>. QED BY <2>1, <2>2 DEF IInv, RunInv
<1>6. SentInv'
  BY <1>2 DEF IInv, SentInv, Rightly
<1>7. LastInv'
  BY <1>2, <1>4 DEF IInv, LastInv, Hidden
<1>. QED BY <1>1, <1>3, <1>5, <1>6, <1>7 DEF IInv

\* The reading: its last look leaves no credential the redactor knows.
LEMMA ReadingKeeps ==
    ASSUME Sound(run), NEW slow
    PROVE  /\ Reading(slow).monitor \in Monitors
           /\ Named(record, Reading(slow).monitor, Reading(slow).version,
                    Reading(slow).made.definition)
           /\ Hidden(Reading(slow))
<1>1. /\ Reading(slow).monitor = run.monitor /\ Reading(slow).version = run.version
      /\ Reading(slow).made.definition = run.definition
      /\ Reading(slow).made.used = run.used /\ Reading(slow).made.turned = run.turned
      /\ Reading(slow).shown = IF leaked(run.known, run.shown) THEN {} ELSE run.shown
  BY DEF Reading
<1>2. run.used \ run.turned \subseteq run.known \cup ShortValues
  BY DEF Sound, Covered
<1>3. \A x \in Reading(slow).shown : x.whole => x.value \notin run.known
  BY <1>1 DEF leaked
<1>4. Hidden(Reading(slow))
  BY <1>1, <1>2, <1>3 DEF Hidden
<1>. QED BY <1>1, <1>4 DEF Sound, NamedRun

\* Every step of a journey.
LEMMA JourneysKeep ==
    ASSUME IInv, Journeys
    PROVE  IInv'
<1>1. /\ entries' = entries /\ keyring' = keyring /\ files' = files /\ bound' = bound
      /\ holder' = holder /\ ended' = ended /\ record' = record /\ sched' = sched
  BY DEF Journeys, vaultVars, catalogueVars
<1>2. VaultInv' /\ CatalogueInv'
  BY <1>1, VaultStutters DEF IInv, CatalogueInv
<1>3. run.on => Sound(run)
  BY NoRunOff DEF IInv, RunInv, Sound
<1>4. ASSUME Sound(run') \/ run' = NoRun PROVE RunInv'
  <2>1. CASE run' = NoRun
    BY <2>1 DEF RunInv
  <2>2. CASE Sound(run')
    BY <2>2, <1>1 DEF RunInv, Sound, IsRun, NamedRun, Covered, Entitled, Holds, Rightly
  <2>. QED BY <1>4, <2>1, <2>2
<1>5. ASSUME sent' = sent PROVE SentInv'
  BY <1>1, <1>5 DEF IInv, SentInv, Rightly
<1>6. ASSUME last' = last \/ last' = NoReading PROVE LastInv'
  BY <1>1, <1>6 DEF IInv, LastInv, Hidden
<1>7. ASSUME NEW m \in Monitors, Tick(m) \/ RunOnce(m) PROVE RunInv' /\ SentInv' /\ LastInv'
  <2>1. PICK row \in {sched[m], record.monitors[m]} :
             row # NoMonitor /\ Begin(m, row)
    <3>1. CASE Tick(m)
      <4>1. sched[m] # NoMonitor
        BY <3>1 DEF Tick, NoMonitor
      <4>. QED BY <3>1, <4>1 DEF Tick
    <3>2. CASE RunOnce(m)
      BY <3>2 DEF RunOnce
    <3>. QED BY <1>7, <3>1, <3>2
  <2>2. KnownRow(record, m, row)
    BY <2>1 DEF IInv, CatalogueInv, RecordOK
  <2>3. Sound(run')
    BY <2>1, <2>2, BeginSound
  <2>4. sent' = sent /\ last' = NoReading
    BY <2>1 DEF Begin
  <2>. QED BY <2>3, <2>4, <1>4, <1>5, <1>6
<1>8. ASSUME NEW class, Sleep(class) \/ CheckStep(class) PROVE RunInv' /\ SentInv' /\ LastInv'
  <2>1. /\ \E t, o, c : run' = After(Blame(run, t, o), c)
        /\ run.on /\ sent' = sent /\ last' = last
    <3>1. CASE Sleep(class)
      BY <3>1 DEF Sleep, At, Running
    <3>2. CASE CheckStep(class)
      <4> DEFINE t == class = "assertion" /\ Observed
                 o == Told(class) = "assertion" /\ ~t
      <4>1. run' = After(Blame(run, t, o), Told(class)) /\ run.on /\ sent' = sent /\ last' = last
        BY <3>2 DEF CheckStep, At, Running
      <4> HIDE DEF t, o
      <4>. QED BY <4>1, Zenon
    <3>. QED BY <1>8, <3>1, <3>2
  <2>2. Sound(run')
    BY <2>1, <1>3, BlameKeeps, AfterSound, Zenon DEF Sound
  <2>. QED BY <2>1, <2>2, <1>4, <1>5, <1>6
<1>9. ASSUME Resolve PROVE RunInv' /\ SentInv' /\ LastInv'
  <2>1. run.on /\ sent' = sent /\ last' = last
    BY <1>9 DEF Resolve, At, Running
  <2>2. Sound(run')
    BY <2>1, <1>3, <1>9, ResolveSound DEF IInv
  <2>. QED BY <2>1, <2>2, <1>4, <1>5, <1>6
<1>10. ASSUME CannotOpen PROVE RunInv' /\ SentInv' /\ LastInv'
  <2>1. run.on /\ run' = After(run, "policy") /\ sent' = sent /\ last' = last
    BY <1>10 DEF CannotOpen, Running
  <2>2. Sound(run')
    BY <2>1, <1>3, AfterSound DEF Sound
  <2>. QED BY <2>1, <2>2, <1>4, <1>5, <1>6
<1>11. ASSUME Ready, sent' = Sent PROVE SentInv'
  <2>1. run.on
    BY <1>11 DEF Ready, Opened, Running
  <2>2. \A u \in Sent : Rightly(u)
    BY <1>3, <1>11, <2>1, SentIs DEF IInv, Sound
  <2>. QED BY <2>2, <1>1, <1>11 DEF SentInv, Rightly
<1>12. ASSUME Build PROVE RunInv' /\ SentInv' /\ LastInv'
  <2>1. Ready /\ run.on /\ sent' = Sent /\ run' = After(Using, "") /\ last' = last
    BY <1>12 DEF Build, Ready, Opened, Running
  <2>2. Sound(run')
    BY <2>1, <1>3, UsingKeeps, AfterSound
  <2>. QED BY <2>1, <2>2, <1>4, <1>6, <1>11
<1>13. ASSUME NEW class, NEW showing, NEW cut, Request(class, showing, cut)
       PROVE  RunInv' /\ SentInv' /\ LastInv'
  <2> DEFINE t == class = "status"
             o == class \in {"cut", "redirect", "invalid"}
             b == Blame(Using, t, o)
             x == b.shown \cup Redact(Using.known, capture(showing, cut))
             q == [b EXCEPT !.shown = x]
             c == Told(class)
  <2>1. Ready /\ run.on /\ sent' = Sent /\ run' = After(q, c) /\ last' = last
    BY <1>13 DEF Request, Ready, Opened, Running
  <2>2. IsRun(b) /\ NamedRun(b) /\ Covered(b)
    BY <2>1, <1>3, UsingKeeps, BlameKeeps
  <2> HIDE DEF b, x, c
  <2>3. IsRun(q) /\ Alike(b, q)
    BY <2>2, ShownIs
  <2> HIDE DEF q
  <2>4. NamedRun(q) /\ Covered(q)
    BY <2>2, <2>3, Zenon DEF NamedRun, Covered, Alike
  <2>5. Sound(run')
    BY <2>1, <2>3, <2>4, AfterSound
  <2>. QED BY <2>1, <2>5, <1>4, <1>6, <1>11
<1>14. ASSUME NoRenderer PROVE RunInv' /\ SentInv' /\ LastInv'
  <2> DEFINE at == Len(Steps) + 2
  <2>1. /\ run.on /\ run.entry = NoEntry /\ sent' = sent /\ last' = last
        /\ run' = [run EXCEPT !.at = at, !.class = "policy"]
    BY <1>14 DEF NoRenderer
  <2> HIDE DEF at
  <2>2. IsRun(run) /\ Sound(run) /\ run.entry = NoEntry
    BY <2>1, <1>3 DEF Sound
  <2> DEFINE class == "policy"
             ours == run.ours
             theirs == run.theirs
             shown == run.shown
  <2>3. run' = [run EXCEPT !.at = at, !.class = class, !.ours = ours, !.theirs = theirs,
                           !.shown = shown]
    BY <2>1, <2>2 DEF IsRun
  <2> HIDE DEF class, ours, theirs, shown
  <2>4. Sound(run')
    BY <2>2, <2>3, PageSound
  <2>. QED BY <2>1, <2>4, <1>4, <1>5, <1>6
<1>15. ASSUME NEW page, NEW showing, NEW cut, Render(page, showing, cut)
       PROVE  RunInv' /\ SentInv' /\ LastInv'
  <2> DEFINE at == run.at + 1
             class == PageClass(page)
             ours == Unusable(page)
             theirs == PageClass(page) \notin {"", "policy"} /\ ~Unusable(page)
             shown == Redact(run.known, capture(showing, cut))
  <2>1. /\ run.on /\ run.entry = NoEntry /\ sent' = sent /\ last' = last
        /\ run' = [run EXCEPT !.at = at, !.class = class, !.ours = ours, !.theirs = theirs,
                              !.shown = shown]
    BY <1>15 DEF Render
  <2> HIDE DEF at, class, ours, theirs, shown
  <2>2. Sound(run')
    BY <2>1, <1>3, PageSound
  <2>. QED BY <2>1, <2>2, <1>4, <1>5, <1>6
<1>16. ASSUME NEW slow, NEW ok, RecordSamples(slow, ok) PROVE RunInv' /\ SentInv' /\ LastInv'
  <2>1. run.on /\ run' = NoRun /\ sent' = sent /\ last' \in {Reading(slow), last}
    BY <1>16 DEF RecordSamples, Finished
  <2>2. CASE last' = Reading(slow)
    <3>1. LastInv'
      BY <2>1, <2>2, <1>1, <1>3, ReadingKeeps DEF LastInv, Hidden
    <3>. QED BY <3>1, <2>1, <1>4, <1>5
  <2>3. CASE last' = last
    BY <2>1, <2>3, <1>4, <1>5, <1>6
  <2>. QED BY <2>1, <2>2, <2>3
<1>17. ASSUME Place PROVE RunInv' /\ SentInv' /\ LastInv'
  <2>1. run.on /\ sent' = sent /\ last' = last
    BY <1>17 DEF Place, At, Running
  <2>2. Sound(run')
    BY <2>1, <1>3, <1>17, PlaceSound DEF IInv
  <2>. QED BY <2>1, <2>2, <1>4, <1>5, <1>6
<1>18. RunInv' /\ SentInv' /\ LastInv'
  BY <1>7, <1>8, <1>9, <1>10, <1>12, <1>13, <1>14, <1>15, <1>16, <1>17 DEF Journeys
<1>. QED BY <1>2, <1>18 DEF IInv

\* The process stops, or starts again from its disk.
LEMMA ProcessKeeps ==
    ASSUME IInv, Stop \/ Restart
    PROVE  IInv'
<1>1. CASE Stop
  <2>1. /\ entries' = entries /\ keyring' = keyring /\ files' = files /\ bound' = bound
        /\ holder' = holder /\ ended' = ended /\ record' = record /\ sched' = sched
        /\ run' = run /\ sent' = sent /\ last' = last
    BY <1>1 DEF Stop, vaultVars, catalogueVars
  <2>2. VaultInv'
    BY <2>1, VaultStutters DEF IInv
  <2>3. CatalogueInv' /\ RunInv' /\ SentInv' /\ LastInv'
    BY <2>1 DEF IInv, CatalogueInv, RunInv, IsRun, NamedRun, Covered, Entitled, Holds, Rightly,
                SentInv, LastInv, Hidden
  <2>. QED BY <2>2, <2>3 DEF IInv
<1>2. CASE Restart
  <2>1. /\ record' = record /\ sched' = record.monitors /\ run' = NoRun /\ sent' = sent
        /\ last' = last /\ OpenVault
    BY <1>2 DEF Restart, LoadConfig
  <2>2. VaultInv' /\ bound' = bound
    BY <2>1, OpenVaultKeeps DEF IInv
  <2>3. CatalogueInv'
    BY <2>1 DEF IInv, CatalogueInv, RecordOK
  <2>4. RunInv' /\ SentInv' /\ LastInv'
    BY <2>1, <2>2 DEF IInv, RunInv, SentInv, Rightly, LastInv, Hidden
  <2>. QED BY <2>2, <2>3, <2>4 DEF IInv
<1>. QED BY <1>1, <1>2

LEMMA IInvStutters == IInv /\ UNCHANGED vars => IInv'
<1> SUFFICES ASSUME IInv, UNCHANGED vars PROVE IInv'
  OBVIOUS
<1>1. /\ entries' = entries /\ keyring' = keyring /\ files' = files /\ bound' = bound
      /\ holder' = holder /\ ended' = ended /\ record' = record /\ sched' = sched
      /\ run' = run /\ sent' = sent /\ last' = last
  BY DEF vars, vaultVars, catalogueVars, journeyVars
<1>2. VaultInv'
  BY <1>1, VaultStutters DEF IInv
<1>3. CatalogueInv' /\ RunInv' /\ SentInv' /\ LastInv'
  BY <1>1 DEF IInv, CatalogueInv, RunInv, IsRun, NamedRun, Covered, Entitled, Holds, Rightly,
              SentInv, LastInv, Hidden
<1>. QED BY <1>2, <1>3 DEF IInv

\* The vault, the service model, the journey that runs, the values it was handed and
\* the reading it left keep to each other through every step: every key in a keyring is
\* of a value put for the same name and hosts, every row the scheduler may still hold
\* is one of the monitor's versions, and an entry in hand is for the step at hand.
THEOREM WatchSound == Spec => []IInv
<1>1. IInv /\ [Next]_vars => IInv'
  BY CredentialsKeep, ModelKeeps, JourneysKeep, ProcessKeeps, IInvStutters DEF Next
<1>. QED BY <1>1, InitIInv, PTL DEF Spec

\* A value leaves the vault only for a host it was put for, and never after its
\* destruction or replacement was reported done (vault.go Use, Put and Destroy).
THEOREM ValuesStayBound == Spec => []ValueLeavesBound
<1>1. IInv => ValueLeavesBound
  BY NoRunOff DEF IInv, SentInv, RunInv, Holds, Rightly, ValueLeavesBound
<1>. QED BY <1>1, WatchSound, PTL

\* A reading names the definition that made it, for good (catalogue.go UpsertMonitor,
\* scheduler.go run).
THEOREM ReadingsNamed == Spec => []ReadingNamesItsDefinition
<1>1. IInv => ReadingNamesItsDefinition
  <2> SUFFICES ASSUME IInv, last # NoReading
               PROVE  /\ last.version \in DOMAIN record.versions[last.monitor]
                      /\ record.versions[last.monitor][last.version] = last.made.definition
    BY DEF ReadingNamesItsDefinition
  <2>1. last.monitor \in Monitors /\ Named(record, last.monitor, last.version, last.made.definition)
    BY DEF IInv, LastInv
  <2>2. record.versions[last.monitor] \in Seq(AnyDefinition)
    BY <2>1 DEF IInv, CatalogueInv, RecordOK, IsRecord
  <2>. QED BY <2>1, <2>2, LenProperties DEF Named
<1>. QED BY <1>1, WatchSound, PTL

\* A reading shows no credential its journey used, of those the redactor takes
\* (engine.go Run, leaked; redact.go Add), but for one that was replaced between two
\* places of a step (template.go resolve) and the piece a capture was cut in.
THEOREM NothingRecorded == Spec => []NoCredentialRecorded
<1>1. IInv => NoCredentialRecorded
  BY DEF IInv, LastInv, Hidden, NoCredentialRecorded
<1>. QED BY <1>1, WatchSound, PTL
-----------------------------------------------------------------------------
(* The order of the steps.                                                 *)

\* Every set of numbers has a least one.
LEMMA LeastNat ==
    ASSUME NEW T \in SUBSET Nat, T # {}
    PROVE  \E x \in T : \A y \in T : x <= y
<1> DEFINE R == OpToRel(<, Nat)
<1>1. \A x, y \in Nat : x < y => <<x, y>> \in R
  BY DEF OpToRel
<1>2. PICK x \in T : \A y \in T : ~ (<<y, x>> \in R)
  <2>1. IsWellFoundedOn(R, Nat)
    BY NatLessThanWellFounded, Zenon
  <2> HIDE DEF R
  <2>. QED BY <2>1, WFMin
<1> HIDE DEF R
<1>3. \A y \in T : ~ (y < x)
  BY <1>1, <1>2, Zenon
<1>4. \A y \in T : x <= y
  BY <1>3
<1>. QED BY <1>4

\* The split before any step, and with one step more.
NoSplit == [first |-> <<>>, cleanup |-> <<>>]
SplitNext(d, split, s) ==
    IF CleansUp(d, s) THEN [split EXCEPT !.cleanup = Append(@, s)]
    ELSE [split EXCEPT !.first = Append(@, s)]
SplitStep(p, d, n) ==
    p = [i \in 0..n |-> IF i = 0 THEN NoSplit ELSE SplitNext(d, p[i - 1], d.steps[i])]

LEMMA SplitExists ==
    ASSUME NEW d, NEW n \in Nat
    PROVE  \E p : SplitStep(p, d, n)
<1> DEFINE Bad == {k \in Nat : ~ \E p : SplitStep(p, d, k)}
<1>1. Bad = {}
  <2> SUFFICES ASSUME Bad # {} PROVE FALSE
    OBVIOUS
  <2>1. PICK k \in Bad : \A j \in Bad : k <= j
    <3>1. Bad \in SUBSET Nat
      OBVIOUS
    <3> HIDE DEF Bad
    <3>. QED BY <3>1, LeastNat
  <2>2. CASE k = 0
    <3> DEFINE p == [i \in 0..0 |-> NoSplit]
    <3>1. SplitStep(p, d, 0)
      BY DEF SplitStep
    <3>. QED BY <2>1, <2>2, <3>1
  <2>3. CASE k # 0
    <3>1. k - 1 \in Nat /\ k - 1 \notin Bad
      BY <2>1, <2>3
    <3>2. PICK q : SplitStep(q, d, k - 1)
      BY <3>1
    <3> DEFINE p == [i \in 0..k |-> IF i = k THEN SplitNext(d, q[k - 1], d.steps[k]) ELSE q[i]]
    <3>3. \A i \in 0..(k - 1) : q[i] = IF i = 0 THEN NoSplit ELSE SplitNext(d, q[i - 1], d.steps[i])
      BY <3>2 DEF SplitStep
    <3>4. \A i \in 0..k : p[i] = IF i = 0 THEN NoSplit ELSE SplitNext(d, p[i - 1], d.steps[i])
      BY <2>1, <2>3, <3>3
    <3>5. DOMAIN p = 0..k /\ p = [i \in 0..k |-> p[i]]
      OBVIOUS
    <3> HIDE DEF p
    <3>6. SplitStep(p, d, k)
      BY <3>4, <3>5 DEF SplitStep
    <3>. QED BY <2>1, <3>6
  <2>. QED BY <2>2, <2>3
<1>. QED BY <1>1

LEMMA SplitSteps ==
    ASSUME NEW d, Len(d.steps) \in Nat
    PROVE  /\ SplitUpTo(d)[0] = NoSplit
           /\ \A i \in 1..Len(d.steps) : SplitUpTo(d)[i] = SplitNext(d, SplitUpTo(d)[i - 1], d.steps[i])
<1>1. \E p : SplitStep(p, d, Len(d.steps))
  BY SplitExists, Zenon
<1>2. SplitUpTo(d) = CHOOSE p : SplitStep(p, d, Len(d.steps))
  BY DEF SplitUpTo, SplitStep, SplitNext, NoSplit
<1>3. SplitStep(SplitUpTo(d), d, Len(d.steps))
  BY <1>1, <1>2
<1>. QED BY <1>3 DEF SplitStep

\* The steps of a definition that clean up, and the others.
Cleaners(d) == {s \in {d.steps[i] : i \in 1..Len(d.steps)} : CleansUp(d, s)}
Others(d) == {s \in {d.steps[i] : i \in 1..Len(d.steps)} : ~CleansUp(d, s)}
SplitOK(d, x) == x \in [first : Seq(Others(d)), cleanup : Seq(Cleaners(d))]

LEMMA SplitNextOK ==
    ASSUME NEW d, NEW x, SplitOK(d, x), NEW i \in 1..Len(d.steps)
    PROVE  SplitOK(d, SplitNext(d, x, d.steps[i]))
<1> DEFINE s == d.steps[i]
           A == Others(d)
           B == Cleaners(d)
<1>1. x.first \in Seq(A) /\ x.cleanup \in Seq(B) /\ x = [first |-> x.first, cleanup |-> x.cleanup]
  BY DEF SplitOK
<1>2. CASE CleansUp(d, s)
  <2>1. s \in B
    BY <1>2 DEF Cleaners
  <2> HIDE DEF A, B, s
  <2>2. Append(x.cleanup, s) \in Seq(B)
    BY <1>1, <2>1
  <2>3. SplitNext(d, x, s) = [first |-> x.first, cleanup |-> Append(x.cleanup, s)]
    BY <1>1, <1>2 DEF SplitNext
  <2>. QED BY <1>1, <2>2, <2>3 DEF SplitOK, A, B, s
<1>3. CASE ~CleansUp(d, s)
  <2>1. s \in A
    BY <1>3 DEF Others
  <2> HIDE DEF A, B, s
  <2>2. Append(x.first, s) \in Seq(A)
    BY <1>1, <2>1
  <2>3. SplitNext(d, x, s) = [first |-> Append(x.first, s), cleanup |-> x.cleanup]
    BY <1>1, <1>3 DEF SplitNext
  <2>. QED BY <1>1, <2>2, <2>3 DEF SplitOK, A, B, s
<1>. QED BY <1>2, <1>3

LEMMA SplitIs ==
    ASSUME NEW d, Len(d.steps) \in Nat
    PROVE  SplitOK(d, Split(d))
<1> DEFINE n == Len(d.steps)
           P == SplitUpTo(d)
           Bad == {k \in 0..n : ~SplitOK(d, P[k])}
<1>1. P[0] = NoSplit /\ \A i \in 1..n : P[i] = SplitNext(d, P[i - 1], d.steps[i])
  BY SplitSteps
<1>2. SplitOK(d, NoSplit)
  BY DEF SplitOK, NoSplit
<1> HIDE DEF P
<1>3. Bad = {}
  <2> SUFFICES ASSUME Bad # {} PROVE FALSE
    OBVIOUS
  <2>1. PICK k \in Bad : \A j \in Bad : k <= j
    <3>1. Bad \in SUBSET Nat
      OBVIOUS
    <3> HIDE DEF Bad
    <3>. QED BY <3>1, LeastNat
  <2>2. k # 0
    BY <1>1, <1>2, <2>1
  <2>3. k - 1 \in 0..n /\ k \in 1..n /\ ~(k <= k - 1)
    BY <2>1, <2>2
  <2>4. SplitOK(d, P[k - 1])
    BY <2>1, <2>3
  <2>5. SplitOK(d, P[k])
    BY <1>1, <2>3, <2>4, SplitNextOK
  <2>. QED BY <2>1, <2>5
<1>. QED BY <1>3 DEF Split, P

\* What runs first does not clean up, and what runs after it does.
LEMMA OrderedIs ==
    ASSUME NEW d \in AnyDefinition
    PROVE  /\ Len(Ordered(d)) \in Nat /\ DOMAIN Ordered(d) = 1..Len(Ordered(d))
           /\ FirstCleanup(d) \in 1..(Len(Ordered(d)) + 1)
           /\ \A i \in 1..Len(Ordered(d)) : CleansUp(d, Ordered(d)[i]) <=> FirstCleanup(d) <= i
<1> DEFINE a == Split(d).first
           b == Split(d).cleanup
           A == Others(d)
           B == Cleaners(d)
<1>1. Len(d.steps) \in Nat
  BY CatalogueAssumption DEF AnyDefinition
<1>2. a \in Seq(A) /\ b \in Seq(B)
  BY <1>1, SplitIs DEF SplitOK
<1>3. (\A s \in A : ~CleansUp(d, s)) /\ (\A s \in B : CleansUp(d, s))
  BY DEF Others, Cleaners
<1>4. Ordered(d) = a \o b /\ FirstCleanup(d) = Len(a) + 1
  BY DEF Ordered, FirstCleanup
<1> HIDE DEF a, b, A, B
<1>5. /\ Len(a) \in Nat /\ Len(b) \in Nat /\ Len(a \o b) = Len(a) + Len(b)
      /\ DOMAIN (a \o b) = 1..(Len(a) + Len(b))
      /\ \A i \in 1..Len(a) : (a \o b)[i] \in A
      /\ \A i \in (Len(a) + 1)..(Len(a) + Len(b)) : (a \o b)[i] \in B
  BY <1>2
<1>6. ASSUME NEW i \in 1..(Len(a) + Len(b)) PROVE CleansUp(d, (a \o b)[i]) <=> Len(a) + 1 <= i
  <2>1. i \in 1..Len(a) \/ i \in (Len(a) + 1)..(Len(a) + Len(b))
    BY <1>5
  <2>2. ASSUME i \in 1..Len(a) PROVE ~(Len(a) + 1 <= i)
    BY <1>5, <2>2
  <2>3. ASSUME i \in (Len(a) + 1)..(Len(a) + Len(b)) PROVE Len(a) + 1 <= i
    BY <1>5, <2>3
  <2>. QED BY <1>3, <1>5, <2>1, <2>2, <2>3, Zenon
<1>. QED BY <1>4, <1>5, <1>6
-----------------------------------------------------------------------------
(* Whose failure it was.                                                   *)

Classes == {"", "timeout", "connect", "status", "assertion", "policy"}

\* How a journey stands: it has failed only once it is past the steps that run first,
\* as somebody's failure unless it is a matter of policy; what it has run is all it
\* passed, but for the steps a failure skipped, which are none that clean up.
Fair(r) ==
    LET d == r.definition
        L == Len(Ordered(d))
        F == FirstCleanup(d)
    IN  /\ d \in AnyDefinition /\ r.class \in Classes /\ r.ran \subseteq 1..L
        /\ r.at \in 1..(L + 2) /\ (d.engine # "browser" => r.at <= L + 1)
        /\ r.at < F \/ r.at = 1 => r.class = ""
        /\ r.class = "" => ~r.theirs /\ ~r.ours /\ \A i \in 1..L : i < r.at => i \in r.ran
        /\ \A i \in F..L : i < r.at => i \in r.ran
        /\ r.theirs => r.class \notin {"", "policy"}
        /\ r.class \notin {"", "policy"} => r.theirs \/ r.ours

\* A step that cleans up blames nobody, and another who its outcome is the failure of.
Blamed(r, class) ==
    /\ class \in Classes
    /\ Cleaning => (r.theirs <=> run.theirs) /\ (r.ours <=> run.ours)
    /\ ~Cleaning => /\ class = "" => ~r.theirs /\ ~r.ours
                    /\ r.theirs => class \notin {"", "policy"}
                    /\ class \notin {"", "policy"} => r.theirs \/ r.ours

\* The journey where it stands, whatever it was given and shown.
Standing(r) ==
    IsRun(r) /\ r.definition = run.definition /\ r.at = run.at /\ r.class = run.class /\ r.ran = run.ran

LEMMA CleaningIs ==
    ASSUME Fair(run), Running
    PROVE  /\ run.at \in 1..Len(Steps) /\ Len(Steps) \in Nat
           /\ FirstCleanup(run.definition) \in 1..(Len(Steps) + 1)
           /\ Cleaning <=> FirstCleanup(run.definition) <= run.at
<1>1. run.definition \in AnyDefinition /\ run.at \in 1..(Len(Steps) + 2) /\ run.at <= Len(Steps)
  BY DEF Fair, Running, Steps
<1>2. /\ Len(Steps) \in Nat /\ FirstCleanup(run.definition) \in 1..(Len(Steps) + 1)
      /\ \A i \in 1..Len(Steps) : CleansUp(run.definition, Steps[i]) <=> FirstCleanup(run.definition) <= i
  BY <1>1, OrderedIs DEF Steps
<1>3. run.at \in 1..Len(Steps)
  BY <1>1, <1>2
<1>. QED BY <1>2, <1>3 DEF Cleaning, step

LEMMA AfterFair ==
    ASSUME Fair(run), Running, NEW r, Standing(r), NEW class, Blamed(r, class)
    PROVE  Fair(After(r, class))
<1> DEFINE d == run.definition
           L == Len(Ordered(d))
           F == FirstCleanup(d)
           q == After(r, class)
           at == IF class = "" \/ Cleaning THEN r.at + 1 ELSE F
           ran == r.ran \cup {run.at}
           how == IF Cleaning THEN r.class ELSE class
<1>1. q = [r EXCEPT !.at = at, !.ran = ran, !.place = 1, !.held = {}, !.entry = NoEntry,
                    !.class = how]
  BY DEF After
<1>2. /\ run.at \in 1..L /\ L \in Nat /\ F \in 1..(L + 1) /\ (Cleaning <=> F <= run.at)
  BY CleaningIs DEF Steps
<1>3. r.definition = d /\ r.at = run.at /\ r.class = run.class /\ r.ran = run.ran /\ IsRun(r)
  BY DEF Standing
<1>4. /\ d \in AnyDefinition /\ run.class \in Classes /\ run.ran \subseteq 1..L
      /\ run.at < F \/ run.at = 1 => run.class = ""
      /\ run.class = "" => ~run.theirs /\ ~run.ours /\ \A i \in 1..L : i < run.at => i \in run.ran
      /\ \A i \in F..L : i < run.at => i \in run.ran
      /\ run.theirs => run.class \notin {"", "policy"}
      /\ run.class \notin {"", "policy"} => run.theirs \/ run.ours
  BY DEF Fair
<1> HIDE DEF q, at, ran, how
<1>5. q = [on |-> r.on, monitor |-> r.monitor, version |-> r.version, definition |-> d,
           at |-> at, place |-> 1, held |-> {}, entry |-> NoEntry, class |-> how, ran |-> ran,
           known |-> r.known, used |-> r.used, turned |-> r.turned, shown |-> r.shown, theirs |-> r.theirs,
           ours |-> r.ours]
  BY <1>1, <1>3 DEF IsRun
<1>6. /\ q.definition = d /\ q.at = at /\ q.class = how /\ q.ran = ran
      /\ q.theirs = r.theirs /\ q.ours = r.ours
  BY <1>5
<1>7. ran = run.ran \cup {run.at} /\ ran \subseteq 1..L
  BY <1>2, <1>3, <1>4 DEF ran
<1> HIDE DEF d, L, F
<1>8. CASE Cleaning
  <2>1. at = run.at + 1 /\ how = run.class /\ F <= run.at
    BY <1>2, <1>3, <1>8 DEF at, how
  <2>2. at \in 1..(L + 1) /\ ~(at < F) /\ at # 1
    BY <1>2, <2>1
  <2>3. \A i \in 1..L : i < at => i < run.at \/ i = run.at
    BY <1>2, <2>1
  <2>4. F..L \subseteq 1..L
    BY <1>2
  <2>5. \A i \in F..L : i < at => i \in ran
    BY <1>4, <1>7, <2>3, <2>4
  <2>6. how = "" => \A i \in 1..L : i < at => i \in ran
    BY <1>4, <1>7, <2>1, <2>3
  <2>7. (r.theirs <=> run.theirs) /\ (r.ours <=> run.ours)
    BY <1>8 DEF Blamed
  <2>8. /\ how = "" => ~r.theirs /\ ~r.ours
        /\ r.theirs => how \notin {"", "policy"}
        /\ how \notin {"", "policy"} => r.theirs \/ r.ours
    BY <1>4, <2>1, <2>7
  <2>9. at \in 1..(L + 2) /\ at <= L + 1
    BY <1>2, <2>2
  <2>10. how \in Classes
    BY <1>4, <2>1
  <2>. QED BY <1>4, <1>6, <1>7, <2>2, <2>5, <2>6, <2>8, <2>9, <2>10 DEF Fair, q, d, L, F
<1>9. CASE ~Cleaning
  <2>0. run.at \in Int /\ F \in Int /\ L \in Int /\ 1 <= run.at /\ run.at <= L /\ F <= L + 1
    BY <1>2
  <2>1. run.at < F /\ run.class = "" /\ how = class /\ class \in Classes
    <3>1. ~(F <= run.at)
      BY <1>2, <1>9, Zenon
    <3>2. run.at < F
      BY <2>0, <3>1
    <3>. QED BY <1>4, <1>9, <3>2, Zenon DEF how, Blamed
  <2>2. (class = "" => at = run.at + 1) /\ (class # "" => at = F)
    BY <1>3, <1>9, Zenon DEF at
  <2>3. at \in 1..(L + 1) /\ at <= F /\ at # 1
    <3>1. at = run.at + 1 \/ at = F
      BY <2>2, Zenon
    <3>2. run.at < F
      BY <2>1
    <3>. QED BY <2>0, <3>1, <3>2
  <2>4. class # "" => at = F
    BY <2>2
  <2>5. \A i \in F..L : i < at => i \in ran
    BY <1>2, <2>3
  <2>6. class = "" => \A i \in 1..L : i < at => i \in ran
    <3>1. class = "" => \A i \in 1..L : i < at => i < run.at \/ i = run.at
      <4>1. at = run.at + 1 => \A i \in 1..L : i < at => i < run.at \/ i = run.at
        BY <2>0
      <4>. QED BY <2>2, <4>1, Zenon
    <3>. QED BY <1>4, <1>7, <2>1, <3>1
  <2>7. /\ class = "" => ~r.theirs /\ ~r.ours
        /\ r.theirs => class \notin {"", "policy"}
        /\ class \notin {"", "policy"} => r.theirs \/ r.ours
    BY <1>9 DEF Blamed
  <2>8. at < F => class = ""
    <3>1. at = F => ~(at < F)
      BY <2>0
    <3>. QED BY <2>4, <3>1, Zenon
  <2>9. at \in 1..(L + 2) /\ at <= L + 1
    BY <1>2, <2>3
  <2>. QED BY <1>4, <1>6, <1>7, <2>1, <2>3, <2>5, <2>6, <2>7, <2>8, <2>9 DEF Fair, q, d, L, F
<1>. QED BY <1>8, <1>9

\* Blame falls on a step that does not clean up.
LEMMA BlameStands ==
    ASSUME NEW r, Standing(r), NEW t, NEW o
    PROVE  LET q == Blame(r, t, o)
           IN  /\ Standing(q)
               /\ q.theirs <=> r.theirs \/ (t /\ ~Cleaning)
               /\ q.ours <=> r.ours \/ (o /\ ~Cleaning)
<1> DEFINE q == Blame(r, t, o)
           T == r.theirs \/ (t /\ ~Cleaning)
           O == r.ours \/ (o /\ ~Cleaning)
<1>1. q = [r EXCEPT !.theirs = T, !.ours = O]
  BY DEF Blame
<1> HIDE DEF q, T, O
<1>2. q = [on |-> r.on, monitor |-> r.monitor, version |-> r.version, definition |-> r.definition,
           at |-> r.at, place |-> r.place, held |-> r.held, entry |-> r.entry, class |-> r.class, ran |-> r.ran,
           known |-> r.known, used |-> r.used, turned |-> r.turned, shown |-> r.shown, theirs |-> T, ours |-> O]
  BY <1>1 DEF IsRun, Standing
<1>3. Standing(q) /\ q.theirs = T /\ q.ours = O
  BY <1>2 DEF IsRun, Standing
<1>. QED BY <1>3, Zenon DEF q, T, O

\* The same journey, and nobody blamed yet for the step at hand.
Unblamed(r) == Standing(r) /\ (r.theirs <=> run.theirs) /\ (r.ours <=> run.ours)

LEMMA NobodyYet ==
    ASSUME Fair(run), Running, ~Cleaning
    PROVE  ~run.theirs /\ ~run.ours
<1>1. /\ run.at \in 1..Len(Steps) /\ FirstCleanup(run.definition) \in 1..(Len(Steps) + 1)
      /\ Len(Steps) \in Nat /\ ~(FirstCleanup(run.definition) <= run.at)
  BY CleaningIs
<1>2. run.at < FirstCleanup(run.definition)
  BY <1>1
<1>. QED BY <1>2 DEF Fair

LEMMA BlamedFair ==
    ASSUME Fair(run), Running, NEW r, Standing(r), NEW t, NEW o, NEW class \in Classes,
           r.theirs <=> run.theirs \/ (t /\ ~Cleaning), r.ours <=> run.ours \/ (o /\ ~Cleaning),
           class = "" => ~t /\ ~o, t => class \notin {"", "policy"},
           class \notin {"", "policy"} => t \/ o
    PROVE  Fair(After(r, class))
<1>1. Blamed(r, class)
  BY NobodyYet DEF Blamed
<1>. QED BY <1>1, AfterFair

LEMMA PlainFair ==
    ASSUME Fair(run), Running, NEW r, Unblamed(r), NEW class \in {"", "policy"}
    PROVE  Fair(After(r, class))
<1>1. Blamed(r, class)
  BY NobodyYet DEF Blamed, Unblamed, Classes
<1>. QED BY <1>1, AfterFair DEF Unblamed

LEMMA RunUnblamed ==
    ASSUME IsRun(run)
    PROVE  Unblamed(run)
BY DEF Unblamed, Standing

LEMMA UsingUnblamed ==
    ASSUME IsRun(run)
    PROVE  Unblamed(Using)
<1> DEFINE k == Added(run.known, Given)
           u == run.used \cup Earlier \cup Given
           w == run.turned \cup (Earlier \ Given)
<1>1. Using = [run EXCEPT !.known = k, !.used = u, !.turned = w]
  BY DEF Using
<1> HIDE DEF k, u, w
<1>2. Using = [on |-> run.on, monitor |-> run.monitor, version |-> run.version,
               definition |-> run.definition, at |-> run.at,
               place |-> run.place, held |-> run.held, entry |-> run.entry, class |-> run.class, ran |-> run.ran, known |-> k, used |-> u, turned |-> w,
               shown |-> run.shown, theirs |-> run.theirs, ours |-> run.ours]
  BY <1>1 DEF IsRun
<1>3. Standing(Using) /\ Using.theirs = run.theirs /\ Using.ours = run.ours
  BY <1>2 DEF IsRun, Standing
<1>. QED BY <1>3 DEF Unblamed

\* A journey that begins.
LEMMA BeginFair ==
    ASSUME NEW m, NEW row, row.definition \in AnyDefinition, Begin(m, row)
    PROVE  Fair(run')
<1> DEFINE no == FALSE
           yes == TRUE
           d == row.definition
<1>1. run' = [on |-> yes, monitor |-> m, version |-> row.version, definition |-> d,
              at |-> 1, place |-> 1, held |-> {}, entry |-> NoEntry, class |-> "", ran |-> {},
              known |-> {}, used |-> {}, turned |-> {}, shown |-> {}, theirs |-> no, ours |-> no]
  BY DEF Begin
<1>2. ~no
  OBVIOUS
<1> HIDE DEF no, yes
<1>3. /\ run'.definition = d /\ run'.at = 1 /\ run'.class = "" /\ run'.ran = {}
      /\ run'.theirs = no /\ run'.ours = no
  BY <1>1
<1>4. Len(Ordered(d)) \in Nat /\ FirstCleanup(d) \in 1..(Len(Ordered(d)) + 1)
  BY OrderedIs
<1>5. \A i \in 1..Len(Ordered(d)) : ~(i < 1)
  BY <1>4
<1>6. \A i \in FirstCleanup(d)..Len(Ordered(d)) : ~(i < 1)
  BY <1>4
<1>7. 1 \in 1..(Len(Ordered(d)) + 2) /\ 1 <= Len(Ordered(d)) + 1
  BY <1>4
<1> HIDE DEF d
<1>. QED BY <1>2, <1>3, <1>5, <1>6, <1>7 DEF Fair, Classes, d


\* The page's outcome is set down.
LEMMA PageIs ==
    ASSUME IsRun(run), NEW at, NEW class, NEW ours, NEW theirs, NEW shown,
           run' = [run EXCEPT !.at = at, !.class = class, !.ours = ours, !.theirs = theirs,
                              !.shown = shown]
    PROVE  /\ run'.definition = run.definition /\ run'.at = at /\ run'.class = class
           /\ run'.ran = run.ran /\ run'.theirs = theirs /\ run'.ours = ours
<1>1. run' = [on |-> run.on, monitor |-> run.monitor, version |-> run.version,
              definition |-> run.definition, at |-> at,
              place |-> run.place, held |-> run.held, entry |-> run.entry, class |-> class, ran |-> run.ran, known |-> run.known,
              used |-> run.used, turned |-> run.turned, shown |-> shown, theirs |-> theirs, ours |-> ours]
  BY DEF IsRun
<1>. QED BY <1>1, Zenon

\* A place after the last step is no step.
LEMMA Bounds ==
    ASSUME NEW l \in Nat, NEW f \in 1..(l + 1)
    PROVE  /\ \A i \in f..l : i \in 1..l /\ f <= i
           /\ l + 2 \in 1..(l + 2) /\ ~(l + 2 < f) /\ l + 2 # 1
           /\ \A at \in Nat : at > l => \A i \in 1..l : i < at
OBVIOUS

\* The end of a page, or of one that had no renderer: nothing in a browser cleans up.
LEMMA PageFair ==
    ASSUME Fair(run), Browser, run'.definition = run.definition, run'.at = Len(Steps) + 2,
           run'.class \in Classes, run'.ran = run.ran,
           run'.class = "" => ~run'.theirs /\ ~run'.ours /\ 1..Len(Steps) \subseteq run.ran,
           run'.theirs => run'.class \notin {"", "policy"},
           run'.class \notin {"", "policy"} => run'.theirs \/ run'.ours
    PROVE  Fair(run')
<1> DEFINE d == run.definition
           L == Len(Ordered(d))
           F == FirstCleanup(d)
<1>1. d \in AnyDefinition /\ run.ran \subseteq 1..L /\ d.engine = "browser" /\ Len(Steps) = L
  BY DEF Fair, Browser, Steps
<1>2. /\ L \in Nat /\ F \in 1..(L + 1)
      /\ \A i \in 1..L : CleansUp(d, Ordered(d)[i]) <=> F <= i
  BY <1>1, OrderedIs
<1>3. \A i \in 1..L : ~(F <= i)
  BY <1>1, <1>2 DEF CleansUp
<1> HIDE DEF d, L, F
<1>4. \A i \in F..L : FALSE
  BY <1>2, <1>3, Bounds
<1>5. L + 2 \in 1..(L + 2) /\ ~(L + 2 < F) /\ L + 2 # 1
  BY <1>2, Bounds
<1>6. run'.definition = d /\ run'.at = L + 2
  BY <1>1 DEF d
<1>7. run'.class = "" => \A i \in 1..L : i \in run'.ran
  BY <1>1
<1>. QED BY <1>1, <1>4, <1>5, <1>6, <1>7 DEF Fair, L, F

\* What the journey comes to, when it is over.
Honest(reading) ==
    LET steps == Ordered(reading.made.definition)
    IN  /\ reading.verdict = "down" => reading.made.theirs \/ reading.made.ours
        /\ reading.made.theirs /\ reading.class # "redaction" => reading.verdict = "down"
        /\ reading.verdict \in {"up", "degraded"} =>
              reading.made.ran = DOMAIN steps /\ ~reading.made.theirs /\ ~reading.made.ours
        /\ {i \in DOMAIN steps : CleansUp(reading.made.definition, steps[i])} \subseteq reading.made.ran

LEMMA ReadingHonest ==
    ASSUME Fair(run), Finished, NEW slow
    PROVE  Honest(Reading(slow))
<1> DEFINE d == run.definition
           L == Len(Ordered(d))
           F == FirstCleanup(d)
           leaks == leaked(run.known, run.shown)
           verdict == IF run.class # "" THEN verdictFor(run.class) ELSE IF slow THEN "degraded" ELSE "up"
           made == [definition |-> d, ran |-> run.ran, used |-> run.used,
                    turned |-> run.turned, theirs |-> run.theirs, ours |-> run.ours]
           x == Reading(slow)
<1>1. /\ d \in AnyDefinition /\ run.class \in Classes /\ run.ran \subseteq 1..L /\ run.at \in Nat
      /\ run.class = "" => ~run.theirs /\ ~run.ours /\ \A i \in 1..L : i < run.at => i \in run.ran
      /\ \A i \in F..L : i < run.at => i \in run.ran
      /\ run.theirs => run.class \notin {"", "policy"}
      /\ run.class \notin {"", "policy"} => run.theirs \/ run.ours
  <2>1. d \in AnyDefinition /\ run.at \in 1..(L + 2)
    BY DEF Fair
  <2>2. L \in Nat
    BY <2>1, OrderedIs
  <2>3. run.at \in Nat
    BY <2>1, <2>2
  <2>. QED BY <2>3 DEF Fair
<1>2. /\ L \in Nat /\ DOMAIN Ordered(d) = 1..L /\ F \in 1..(L + 1)
      /\ \A i \in 1..L : CleansUp(d, Ordered(d)[i]) <=> F <= i
  BY <1>1, OrderedIs
<1>3. run.at > L
  BY DEF Finished, Steps
<1>4. /\ x.verdict = (IF leaks THEN "error" ELSE verdict)
      /\ x.class = (IF leaks THEN "redaction" ELSE run.class)
      /\ x.made = made
  BY DEF Reading
<1>5. /\ made.definition = d /\ made.ran = run.ran
      /\ made.theirs = run.theirs /\ made.ours = run.ours
  BY Zenon
<1>6. \A i \in 1..L : i < run.at
  <2>1. run.at \in Nat
    BY <1>1
  <2> HIDE DEF L, F
  <2>. QED BY <1>2, <1>3, <2>1, Bounds
<1> HIDE DEF x, made, leaks
<1>7. /\ run.class = "" => verdict \in {"up", "degraded"}
      /\ run.class = "policy" => verdict = "error"
      /\ run.class \notin {"", "policy"} => verdict = "down"
  BY <1>1 DEF verdictFor, Own, Classes
<1> HIDE DEF verdict, L, F
<1>8. x.verdict = "down" => x.made.theirs \/ x.made.ours
  BY <1>1, <1>4, <1>5, <1>7
<1>9. x.made.theirs /\ x.class # "redaction" => x.verdict = "down"
  BY <1>1, <1>4, <1>5, <1>7
<1>10. x.verdict \in {"up", "degraded"} => run.class = "" /\ ~x.made.theirs /\ ~x.made.ours
  BY <1>1, <1>4, <1>5, <1>7
<1>11. run.class = "" => run.ran = 1..L
  BY <1>1, <1>6
<1>12. \A i \in 1..L : F <= i => i \in run.ran
  <2>1. \A i \in 1..L : F <= i => i \in F..L
    BY <1>2
  <2>. QED BY <1>1, <1>6, <2>1
<1>13. {i \in 1..L : CleansUp(d, Ordered(d)[i])} \subseteq run.ran
  BY <1>2, <1>12
<1>14. x.made.definition = d /\ x.made.ran = run.ran
  BY <1>4, <1>5
<1> HIDE DEF d
<1>. QED BY <1>2, <1>8, <1>9, <1>10, <1>11, <1>13, <1>14 DEF Honest, x

\* The journey under way and the reading last recorded.
FairInv == (run.on => Fair(run)) /\ VerdictHonest

LEMMA DefinitionKnown ==
    ASSUME IInv, NEW m \in Monitors, NEW v, NEW d, Named(record, m, v, d)
    PROVE  d \in AnyDefinition
<1>1. record.versions[m] \in Seq(AnyDefinition)
  BY DEF IInv, CatalogueInv, RecordOK, IsRecord
<1>. QED BY <1>1, ElementOfSeq DEF Named

LEMMA JourneysFair ==
    ASSUME IInv, FairInv, Journeys
    PROVE  FairInv'
<1>1. run.on => IsRun(run) /\ Fair(run)
  BY NoRunOff DEF IInv, RunInv, FairInv
<1>2. ASSUME last' = last \/ last' = NoReading PROVE VerdictHonest'
  BY <1>2 DEF FairInv, VerdictHonest
<1>3. ASSUME NEW m \in Monitors, Tick(m) \/ RunOnce(m) PROVE FairInv'
  <2>1. PICK row \in {sched[m], record.monitors[m]} : row # NoMonitor /\ Begin(m, row)
    <3>1. CASE Tick(m)
      <4>1. sched[m] # NoMonitor
        BY <3>1 DEF Tick, NoMonitor
      <4>. QED BY <3>1, <4>1 DEF Tick
    <3>2. CASE RunOnce(m)
      BY <3>2 DEF RunOnce
    <3>. QED BY <1>3, <3>1, <3>2
  <2>2. Named(record, m, row.version, row.definition)
    BY <2>1 DEF IInv, CatalogueInv, RecordOK, KnownRow
  <2>3. row.definition \in AnyDefinition
    BY <2>2, DefinitionKnown
  <2>4. Fair(run')
    BY <2>1, <2>3, BeginFair
  <2>5. last' = NoReading
    BY <2>1 DEF Begin
  <2>. QED BY <1>2, <2>4, <2>5 DEF FairInv, Fair
<1>4. ASSUME NEW class \in {"", "timeout"}, Sleep(class) PROVE FairInv'
  <2> DEFINE t == FALSE
             o == class = "timeout"
             q == Blame(run, t, o)
  <2>1. Running /\ run.on /\ run' = After(q, class) /\ last' = last
    BY <1>4 DEF Sleep, At, Running
  <2>2. Standing(q) /\ (q.theirs <=> run.theirs \/ (t /\ ~Cleaning)) /\ (q.ours <=> run.ours \/ (o /\ ~Cleaning))
    BY <1>1, <2>1, BlameStands, RunUnblamed, Zenon DEF Unblamed
  <2> HIDE DEF q
  <2>3. Fair(After(q, class))
    BY <1>1, <2>1, <2>2, BlamedFair DEF Classes
  <2>. QED BY <1>2, <2>1, <2>3 DEF FairInv, Fair
<1>5. ASSUME NEW class \in Checks, CheckStep(class) PROVE FairInv'
  <2> DEFINE t == class = "assertion" /\ Observed
             o == Told(class) = "assertion" /\ ~t
             c == Told(class)
             q == Blame(run, t, o)
  <2>1. Running /\ run.on /\ run' = After(q, c) /\ last' = last
    BY <1>5 DEF CheckStep, At, Running
  <2>2. Standing(q) /\ (q.theirs <=> run.theirs \/ (t /\ ~Cleaning)) /\ (q.ours <=> run.ours \/ (o /\ ~Cleaning))
    BY <1>1, <2>1, BlameStands, RunUnblamed, Zenon DEF Unblamed
  <2>3. /\ c \in Classes /\ (c = "" => ~t /\ ~o) /\ (t => c \notin {"", "policy"})
        /\ (c \notin {"", "policy"} => t \/ o)
    BY DEF Checks, Told, Classes
  <2> HIDE DEF q, t, o, c
  <2>4. Fair(After(q, c))
    BY <1>1, <2>1, <2>2, <2>3, BlamedFair
  <2>. QED BY <1>2, <2>1, <2>4 DEF FairInv, Fair
<1>6. ASSUME Resolve PROVE FairInv'
  <2>1. Running /\ run.on /\ last' = last
    BY <1>6 DEF Resolve, At, Running
  <2>2. CASE Refused
    <3>1. run' = After(run, "policy")
      BY <1>6, <2>2 DEF Resolve
    <3>2. Fair(After(run, "policy"))
      BY <1>1, <2>1, RunUnblamed, PlainFair
    <3>. QED BY <1>2, <2>1, <3>1, <3>2 DEF FairInv, Fair
  <2>3. CASE ~Refused
    <3> DEFINE e == Resolved
    <3>1. run' = [run EXCEPT !.entry = e]
      BY <1>6, <2>3 DEF Resolve
    <3> HIDE DEF e
    <3>2. run' = [on |-> run.on, monitor |-> run.monitor, version |-> run.version,
                  definition |-> run.definition, at |-> run.at,
                  place |-> run.place, held |-> run.held, entry |-> e, class |-> run.class, ran |-> run.ran, known |-> run.known,
                  used |-> run.used, turned |-> run.turned, shown |-> run.shown, theirs |-> run.theirs, ours |-> run.ours]
      BY <3>1, <1>1, <2>1 DEF IsRun
    <3>3. /\ run'.definition = run.definition /\ run'.at = run.at /\ run'.class = run.class
          /\ run'.ran = run.ran /\ run'.theirs = run.theirs /\ run'.ours = run.ours
      BY <3>2
    <3>4. Fair(run')
      BY <1>1, <2>1, <3>3, Zenon DEF Fair
    <3>. QED BY <1>2, <2>1, <3>4 DEF FairInv, Fair
  <2>. QED BY <2>2, <2>3
<1>7. ASSUME CannotOpen PROVE FairInv'
  <2>1. Running /\ run.on /\ run' = After(run, "policy") /\ last' = last
    BY <1>7 DEF CannotOpen, Running
  <2>2. Fair(After(run, "policy"))
    BY <1>1, <2>1, RunUnblamed, PlainFair
  <2>. QED BY <1>2, <2>1, <2>2 DEF FairInv, Fair
<1>8. ASSUME Build PROVE FairInv'
  <2>1. Running /\ run.on /\ run' = After(Using, "") /\ last' = last
    BY <1>8 DEF Build, At, Running
  <2>2. Fair(After(Using, ""))
    BY <1>1, <2>1, UsingUnblamed, PlainFair
  <2>. QED BY <1>2, <2>1, <2>2 DEF FairInv, Fair
<1>9. ASSUME NEW class \in Answers, NEW showing, NEW cut, Request(class, showing, cut) PROVE FairInv'
  <2> DEFINE t == class = "status"
             o == class \in {"cut", "redirect", "invalid"}
             b == Blame(Using, t, o)
             x == b.shown \cup Redact(Using.known, capture(showing, cut))
             q == [b EXCEPT !.shown = x]
             c == Told(class)
  <2>1. Running /\ run.on /\ run' = After(q, c) /\ last' = last
    BY <1>9 DEF Request, At, Running
  <2>2. Unblamed(Using)
    BY <1>1, <2>1, UsingUnblamed
  <2>3. Standing(b) /\ (b.theirs <=> run.theirs \/ (t /\ ~Cleaning)) /\ (b.ours <=> run.ours \/ (o /\ ~Cleaning))
    BY <2>2, BlameStands, Zenon DEF Unblamed
  <2>4. /\ c \in Classes /\ (c = "" => ~t /\ ~o) /\ (t => c \notin {"", "policy"})
        /\ (c \notin {"", "policy"} => t \/ o)
    BY DEF Answers, Told, Classes
  <2> HIDE DEF b, x, c, t, o
  <2>0. q = [b EXCEPT !.shown = x] /\ IsRun(b)
    BY <2>3 DEF Standing
  <2> HIDE DEF q
  <2>5. q = [on |-> b.on, monitor |-> b.monitor, version |-> b.version, definition |-> b.definition,
             at |-> b.at, place |-> b.place, held |-> b.held, entry |-> b.entry, class |-> b.class, ran |-> b.ran,
             known |-> b.known, used |-> b.used, turned |-> b.turned, shown |-> x, theirs |-> b.theirs, ours |-> b.ours]
    BY <2>0 DEF IsRun
  <2>6. Standing(q) /\ q.theirs = b.theirs /\ q.ours = b.ours
    BY <2>3, <2>5 DEF Standing, IsRun
  <2>7. (q.theirs <=> run.theirs \/ (t /\ ~Cleaning)) /\ (q.ours <=> run.ours \/ (o /\ ~Cleaning))
    BY <2>3, <2>6, Zenon
  <2>8. Fair(After(q, c))
    BY <1>1, <2>1, <2>4, <2>6, <2>7, BlamedFair
  <2>. QED BY <1>2, <2>1, <2>8 DEF FairInv, Fair
<1>10. ASSUME NoRenderer PROVE FairInv'
  <2> DEFINE at == Len(Steps) + 2
             class == "policy"
             ours == run.ours
             theirs == run.theirs
             shown == run.shown
  <2>1. run.on /\ Browser /\ (run.at = 1 \/ run.class = "") /\ last' = last
    BY <1>10 DEF NoRenderer, Built
  <2>2. ~run.theirs
    BY <1>1, <2>1 DEF Fair
  <2>3. at = Len(Steps) + 2 /\ run' = [run EXCEPT !.at = at, !.class = class]
    BY <1>10 DEF NoRenderer
  <2> HIDE DEF at, class
  <2>4. run' = [run EXCEPT !.at = at, !.class = class, !.ours = ours, !.theirs = theirs, !.shown = shown]
    BY <2>1, <2>3, <1>1 DEF IsRun
  <2> HIDE DEF ours, theirs, shown
  <2>5. ~theirs /\ class \in Classes /\ class = "policy"
    BY <2>2 DEF theirs, class, Classes
  <2>6. /\ run'.definition = run.definition /\ run'.at = at /\ run'.class = class
        /\ run'.ran = run.ran /\ run'.theirs = theirs
    BY <1>1, <2>1, <2>4, PageIs
  <2>7. run'.at = Len(Steps) + 2
    BY <2>6 DEF at
  <2>8. Fair(run')
    BY <1>1, <2>1, <2>5, <2>6, <2>7, PageFair
  <2>. QED BY <1>2, <2>1, <2>8 DEF FairInv, Fair
<1>11. ASSUME NEW page \in Pages, NEW showing, NEW cut, Render(page, showing, cut) PROVE FairInv'
  <2> DEFINE at == run.at + 1
             class == PageClass(page)
             ours == Unusable(page)
             theirs == PageClass(page) \notin {"", "policy"} /\ ~Unusable(page)
             shown == Redact(run.known, capture(showing, cut))
  <2>0. run' = [run EXCEPT !.at = at, !.class = class, !.ours = ours, !.theirs = theirs,
                           !.shown = shown]
    BY <1>11 DEF Render
  <2>1. run.on /\ Browser /\ run.class = "" /\ run.at = Len(Steps) + 1 /\ last' = last
    BY <1>11 DEF Render, Built
  <2>2. class \in Classes /\ (ours => class = "assertion")
    BY DEF Pages, Checks, PageClass, Told, browserClass, Unusable, Classes
  <2>3. /\ class = "" => ~theirs /\ ~ours
        /\ theirs => class \notin {"", "policy"}
        /\ class \notin {"", "policy"} => theirs \/ ours
    BY <2>2
  <2>4. Len(Steps) \in Nat
    BY <1>1, <2>1, OrderedIs DEF Fair, Steps
  <2>5. at = Len(Steps) + 2 /\ 1..Len(Steps) \subseteq run.ran
    <3>0. run.at = Len(Steps) + 1
      BY <2>1
    <3>1. \A i \in 1..Len(Steps) : i < run.at
      BY <3>0, <2>4
    <3>2. \A i \in 1..Len(Steps) : i \in run.ran
      BY <1>1, <2>1, <3>1 DEF Fair, Steps
    <3>. QED BY <3>0, <2>4, <3>2
  <2> HIDE DEF at, class, ours, theirs, shown
  <2>6. /\ run'.definition = run.definition /\ run'.at = at /\ run'.class = class
        /\ run'.ran = run.ran /\ run'.theirs = theirs /\ run'.ours = ours
    BY <1>1, <2>0, <2>1, PageIs
  <2>7. Fair(run')
    BY <1>1, <2>1, <2>2, <2>3, <2>5, <2>6, PageFair
  <2>. QED BY <1>2, <2>1, <2>7 DEF FairInv, Fair
<1>12. ASSUME NEW slow, NEW ok, RecordSamples(slow, ok) PROVE FairInv'
  <2>1. run.on /\ Finished /\ run' = NoRun /\ last' \in {Reading(slow), last}
    BY <1>12 DEF RecordSamples, Finished
  <2>2. CASE last' = Reading(slow)
    <3>1. Honest(last')
      BY <1>1, <2>1, <2>2, ReadingHonest
    <3>2. VerdictHonest'
      BY <3>1 DEF VerdictHonest, Honest
    <3>. QED BY <2>1, <3>2, NoRunOff DEF FairInv
  <2>3. CASE last' = last
    BY <1>2, <2>1, <2>3, NoRunOff DEF FairInv
  <2>. QED BY <2>1, <2>2, <2>3
<1>13. ASSUME Place PROVE FairInv'
  <2> DEFINE h == run.held \cup Handed
             p == run.place + 1
  <2>1. Running /\ run.on /\ last' = last /\ run' = [run EXCEPT !.held = h, !.place = p, !.entry = NoEntry]
    BY <1>13 DEF Place, At, Running
  <2> HIDE DEF h, p
  <2>2. run' = [on |-> run.on, monitor |-> run.monitor, version |-> run.version,
                definition |-> run.definition, at |-> run.at, place |-> p, held |-> h,
                entry |-> NoEntry, class |-> run.class, ran |-> run.ran, known |-> run.known,
                used |-> run.used, turned |-> run.turned, shown |-> run.shown,
                theirs |-> run.theirs, ours |-> run.ours]
    BY <2>1, <1>1 DEF IsRun
  <2>3. /\ run'.definition = run.definition /\ run'.at = run.at /\ run'.class = run.class
        /\ run'.ran = run.ran /\ run'.theirs = run.theirs /\ run'.ours = run.ours
    BY <2>2
  <2>4. Fair(run')
    BY <1>1, <2>1, <2>3, Zenon DEF Fair
  <2>. QED BY <1>2, <2>1, <2>4 DEF FairInv, Fair
<1>. QED BY <1>3, <1>4, <1>5, <1>6, <1>7, <1>8, <1>9, <1>10, <1>11, <1>12, <1>13 DEF Journeys

\* A reading tells whose failure it was, for every definition, every page and every
\* answer, and whatever people change and the process does while a journey runs
\* (verdictFor and Run in journey/engine.go, runBrowser in journey/browser_engine.go):
\* down is the service's own failure but for the six cases VerdictHonest names, a
\* failure of the service is never anything else, up has every step behind it, and every
\* step that cleans up ran.
THEOREM VerdictsHonest == Spec => []VerdictHonest
<1>1. Init => FairInv
  BY NoRunOff DEF Init, InitJourney, FairInv, VerdictHonest
<1>2. IInv /\ FairInv /\ [Next]_vars => FairInv'
  <2> SUFFICES ASSUME IInv, FairInv, [Next]_vars PROVE FairInv'
    OBVIOUS
  <2>1. ASSUME run' = run \/ run' = NoRun, last' = last PROVE FairInv'
    BY <2>1, NoRunOff DEF FairInv, Fair, VerdictHonest
  <2>2. ASSUME Credentials \/ People \/ Instance \/ Stop \/ Restart \/ UNCHANGED vars
        PROVE  (run' = run \/ run' = NoRun) /\ last' = last
    BY <2>2 DEF Credentials, People, Instance, Stop, Restart, vars, journeyVars
  <2>. QED BY <2>1, <2>2, JourneysFair DEF Next
<1>. QED BY <1>1, <1>2, WatchSound, PTL DEF Spec, FairInv
=============================================================================
