------------------------------- MODULE Watch -------------------------------
(***************************************************************************)
(* The monitor at work: journeys run on the service model, the allowlist   *)
(* and the credentials while people change all three, while the instance   *)
(* is configured, and while the process stops and starts (cmd/monitor).    *)
(***************************************************************************)
EXTENDS Journey

CONSTANTS
    BindingSets,            \* bindings people give a credential
    Enabling,               \* what a monitor's amendment says of its being on
    MaxChanges, MaxPuts, MaxFaults,    \* bounds: requests made, values put, failures and stops
    MaxVersions             \* bound: definitions a monitor has had

VARIABLES
    changes,                \* requests made
    faults                  \* writes that failed, and stops

vars == <<vaultVars, catalogueVars, journeyVars, changes, faults>>

ASSUME WatchAssumption ==
    /\ MaxChanges \in Nat /\ MaxPuts \in Nat /\ MaxFaults \in Nat /\ MaxVersions \in Nat
    /\ \A B \in BindingSets : B \subseteq DOMAIN Covers
    /\ Enabling \subseteq BOOLEAN

\* Ways a request goes: well, badly (all classes that are the service's as one), cut
\* short by a stop, to a redirect that is refused, to an assertion that cannot be
\* rendered or is not valid.  Ways a check goes, and a page in the renderer.
Answers == {"", "status", "cut", "redirect", "policy", "invalid"}
Checks == {"", "assertion", "policy", "invalid"}
Pages ==
    [failure : {"", "navigation", "selector", "timeout", "crash"},
     screenshot : {"", "differs", "unusable"}, checks : Checks]
Cuts == {{}} \cup {{v} : v \in Values}

Asked == changes < MaxChanges /\ changes' = changes + 1 /\ UNCHANGED faults
Fault == faults < MaxFaults /\ faults' = faults + 1 /\ UNCHANGED changes
Fine(ok) == (ok /\ UNCHANGED <<changes, faults>>) \/ (~ok /\ Fault)

Init ==
    /\ InitVault /\ InitCatalogue /\ InitJourney
    /\ changes = 0 /\ faults = 0

Credentials ==
    /\ \/ \E n \in Names, B \in BindingSets : Len(bound) < MaxPuts /\ PutFile(n, B) /\ Asked
       \/ \E n \in Names : DestroyKeyring(n, TRUE) /\ Asked
       \/ \E n \in Names : DestroyKeyring(n, FALSE) /\ Fault
       \/ DestroyFile /\ UNCHANGED <<changes, faults>>
       \/ \E ok \in BOOLEAN : (PutKeyring(ok) \/ \E o \in toRecord : RecordSecret(o, ok)) /\ Fine(ok)
    /\ UNCHANGED <<catalogueVars, journeyVars>>

FewVersions == \A m \in Monitors : Len(record.versions[m]) < MaxVersions

People ==
    /\ \/ \E m \in Monitors, d \in Definitions, on \in Enabling : FewVersions /\ AmendMonitor(m, d, on)
       \/ \E m \in Monitors, on \in BOOLEAN : SwitchMonitor(m, on)
       \/ AmendService
       \/ \E req \in Requests : FewVersions /\ Configure(req)
    /\ Asked
    /\ UNCHANGED <<vaultVars, journeyVars>>

Instance ==
    /\ \/ (ConfigureNext \/ Reload \/ \E a \in Callers : RefreshRead(a) \/ RefreshInstall(a))
          /\ UNCHANGED <<changes, faults>>
       \/ ConfigureFails /\ Fault
    /\ UNCHANGED <<vaultVars, journeyVars>>

Journeys ==
    /\ \/ /\ \/ \E m \in Monitors : Tick(m) \/ RunOnce(m)
             \/ \E class \in {"", "timeout"} : Sleep(class)
             \/ \E class \in Checks : CheckStep(class)
             \/ Resolve \/ CannotOpen \/ Place \/ Build \/ NoRenderer
             \/ /\ At({"http"}) /\ Ready
                /\ \E class \in Answers, showing \in SUBSET Values, cut \in Cuts : Request(class, showing, cut)
             \/ /\ run.on /\ Built
                /\ \E page \in Pages, showing \in SUBSET Values, cut \in Cuts : Render(page, showing, cut)
          /\ UNCHANGED <<changes, faults>>
       \/ \E slow, ok \in BOOLEAN : RecordSamples(slow, ok) /\ Fine(ok)
    /\ UNCHANGED <<vaultVars, catalogueVars>>

\* The process is told to stop: journeys are cut short, and it does not wait for them.
Stop ==
    /\ ~stopping /\ stopping' = TRUE
    /\ Fault
    /\ UNCHANGED <<vaultVars, catalogueVars, run, sent, last>>

\* The process ends, told to or not, and starts again from its disk.
Restart ==
    /\ OpenVault /\ LoadConfig
    /\ run' = NoRun /\ stopping' = FALSE
    /\ (stopping /\ UNCHANGED <<changes, faults>>) \/ (~stopping /\ Fault)
    /\ UNCHANGED <<sent, last>>

Next == Credentials \/ People \/ Instance \/ Journeys \/ Stop \/ Restart

Spec == Init /\ [][Next]_vars

-----------------------------------------------------------------------------
(* Properties.                                                             *)

\* Whose failure a reading records (engine.go verdictFor: "This mapping is the honesty
\* of the whole record"; domain.go VerdictError: "never counted as downtime of the
\* watched service").  However the allowlist, the credentials, the renderer and the
\* definition change under a journey, a down reading is the service's own failure,
\* but for six cases of our own: a journey cut short by a stop, a redirect the allowlist
\* refuses, a wait past its limit, a picture that cannot be measured, a check that is not
\* valid (a pattern that does not compile) and a check with no request before it
\* (engine.go step: "that is a definition error").  A failure of the service is never
\* recorded as anything but down, an up reading has every step behind it, and every step
\* that cleans up ran.
VerdictHonest ==
    last # NoReading =>
        LET steps == Ordered(last.made.definition)
        IN  /\ last.verdict = "down" => last.made.theirs \/ last.made.ours
            /\ last.made.theirs /\ last.class # "redaction" => last.verdict = "down"
            /\ last.verdict \in {"up", "degraded"} =>
                  last.made.ran = DOMAIN steps /\ ~last.made.theirs /\ ~last.made.ours
            /\ {i \in DOMAIN steps : CleansUp(last.made.definition, steps[i])} \subseteq last.made.ran

\* A reading names the definition that made it, for good (catalogue.go UpsertMonitor:
\* "The version is also what a reading records, which is what makes the two match up
\* months later"): whatever was amended, switched, seeded or restarted while the
\* journey ran on the scheduler's copy.
ReadingNamesItsDefinition ==
    last # NoReading =>
        /\ last.version \in DOMAIN record.versions[last.monitor]
        /\ record.versions[last.monitor][last.version] = last.made.definition

\* A value leaves the vault only for a host it was put for, and never after its
\* destruction or replacement was reported done (vault.go Use: "the only way a value
\* leaves the vault"; Destroy: "unrecoverable from this moment"), although Use lets go
\* of the lock between the entry and the file, and the disk may stop in between.
ValueLeavesBound ==
    \A u \in sent \cup (IF run.on THEN run.held ELSE {}) :
        hostAllowed(bound[u.value].hosts, u.host) /\ ~u.late

\* A reading shows no credential its journey used, of those the redactor takes, not
\* even one a service showed before the journey came to use it (engine.go Run: "writing
\* a credential into the record, which is the one outcome that must not happen"), but
\* in two cases: a value that was replaced between two places of one step, of which the
\* redactor is told the last alone, and the piece of a value a capture was cut in.
NoCredentialRecorded ==
    last # NoReading =>
        \A x \in last.shown :
            x.whole /\ x.value \in last.made.used \ last.made.turned => x.value \in ShortValues

\* A configure request watches what it configures (main.go server.Configure: "Start
\* watching what was just configured, rather than at the scheduler's next reload: that
\* delay would be a coverage gap"): no step of one takes a monitor that is watched
\* out of the watch, a pack seeded again included.
ConfigureKeepsWatching ==
    [][conf' # conf => \A m \in Monitors : record.monitors[m].enabled => record'.monitors[m].enabled]_vars
=============================================================================
