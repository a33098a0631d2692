------------------------------ MODULE Journey ------------------------------
(***************************************************************************)
(* A journey, from the scheduler's copy of a monitor to the reading in the *)
(* record: Run, step, request, checks and verdictFor in journey/engine.go, *)
(* runBrowser in journey/browser_engine.go, buildBrowserRequest in         *)
(* journey/browser.go, the resolver (journey/template.go), the redactor    *)
(* (secrets/redact.go), run and RunOnce in probe/scheduler.go.             *)
(*                                                                         *)
(* While a journey runs, people change the service model, the allowlist    *)
(* and the credentials it depends on, and the process may be told to stop. *)
(* A step has a kind, a host, the credential it asks for and in how many   *)
(* places, whether it can be rendered at all, whether its checks are valid *)
(* (patterns that compile, limits that are numbers), whether it follows    *)
(* redirects, and whether it cleans up.  What a service shows in an answer *)
(* is any credential it was ever sent.  One journey runs at a time.        *)
(***************************************************************************)
EXTENDS Vault, Catalogue

CONSTANTS
    ShortValues,    \* values the redactor ignores, under four characters
    NoName          \* no credential

VARIABLES
    run,            \* the journey that is running
    sent,           \* the values handed out, and the host each was for
    last,           \* the reading last recorded, until the next journey begins
    stopping        \* the process was told to stop

journeyVars == <<run, sent, last, stopping>>

NoRun == [on |-> FALSE]
NoReading == [verdict |-> "none"]

-----------------------------------------------------------------------------
(* Deciding.                                                               *)

Own == {"policy", "internal", "redaction"}

\* Mutant: everything that fails is the service's fault.
Mut_verdictFor(class) == "down"

\* verdictFor: whose failure it was.
verdictFor(class) == IF class \in Own THEN "error" ELSE "down"

\* browserClass: the renderer's words for a failure.
browserClass(class) ==
    CASE class = "navigation" -> "connect"
      [] class \in {"selector", "script"} -> "assertion"
      [] class = "timeout" -> "timeout"
      [] OTHER -> "policy"

\* The steps in the order they run: the journey, then what cleans up after it; in a
\* browser a step that cleans up is a step like the others.
CleansUp(definition, s) == s.cleanup /\ definition.engine # "browser"

\* The steps that run first and the ones that clean up, each in their order, among as
\* many steps of the definition.
SplitUpTo(definition) ==
    LET p[i \in 0..Len(definition.steps)] ==
            IF i = 0 THEN [first |-> <<>>, cleanup |-> <<>>]
            ELSE LET split == p[i - 1]
                     s == definition.steps[i]
                 IN  IF CleansUp(definition, s) THEN [split EXCEPT !.cleanup = Append(@, s)]
                     ELSE [split EXCEPT !.first = Append(@, s)]
    IN  p
Split(definition) == SplitUpTo(definition)[Len(definition.steps)]

Ordered(definition) == LET split == Split(definition) IN split.first \o split.cleanup
FirstCleanup(definition) == Len(Split(definition).first) + 1

\* Redactor.Add: very short values are ignored.
Added(known, values) == known \cup (values \ ShortValues)

\* capture: the start of a text, which may end in the middle of a value it shows.
capture(showing, cut) == [value : showing \ cut, whole : {TRUE}] \cup [value : cut, whole : {FALSE}]

\* Redact: what is left of a text.  A piece of a value is not the value.
Redact(known, shown) == {x \in shown : x.whole => x.value \notin known}

\* Mutant: only the detail is looked at, which names no credential.
Mut_leaked(known, shown) == FALSE

\* leaked: a registered value is still in what is about to be recorded.
leaked(known, shown) == \E x \in shown : x.whole /\ x.value \in known

\* Check: the host is declared, by itself or through its subtree.
Check(host) == \E e \in allow : host = e \/ (e \in DOMAIN Covers /\ host \in Covers[e])

-----------------------------------------------------------------------------
(* Running.                                                                *)

\* run: a journey begins with the definition and the version it was given.
Begin(m, row) ==
    /\ ~run.on /\ ~stopping
    /\ run' = [on |-> TRUE, monitor |-> m, version |-> row.version, definition |-> row.definition,
               at |-> 1, place |-> 1, held |-> {}, entry |-> NoEntry, class |-> "", ran |-> {},
               known |-> {}, used |-> {}, turned |-> {}, shown |-> {},
               theirs |-> FALSE, ours |-> FALSE]
    /\ last' = NoReading
    /\ UNCHANGED <<sent, stopping>>

\* tick: a monitor that is due, as the scheduler's copy has it.
Tick(m) == sched[m].enabled /\ Begin(m, sched[m])

\* RunOnce: read afresh, on or off.
RunOnce(m) == record.monitors[m] # NoMonitor /\ Begin(m, record.monitors[m])

Steps == Ordered(run.definition)
step == Steps[run.at]
Browser == run.definition.engine = "browser"
Cleaning == CleansUp(run.definition, step)
Running == run.on /\ run.at <= Len(Steps)
At(kinds) == Running /\ step.kind \in kinds

\* The journey after a step: to the next one, or past the rest to the cleanup; a
\* cleanup that fails changes nothing of the verdict.
After(r, class) ==
    [r EXCEPT !.at = IF class = "" \/ Cleaning THEN @ + 1 ELSE FirstCleanup(run.definition),
              !.ran = @ \cup {run.at}, !.place = 1, !.held = {}, !.entry = NoEntry,
              !.class = IF Cleaning THEN @ ELSE class]

\* A failure of the service's, unless it met a cleanup step, and one of our own.
Blame(r, theirs, ours) ==
    [r EXCEPT !.theirs = @ \/ (theirs /\ ~Cleaning), !.ours = @ \/ (ours /\ ~Cleaning)]

\* Sleep, cut short by the journey's own limit or by a stop.
Sleep(class) ==
    /\ At({"sleep"})
    /\ run' = After(Blame(run, FALSE, class = "timeout"), class)
    /\ UNCHANGED <<sent, last, stopping>>

\* What the record says of a failure.  A stop cuts a request short, and so does a
\* redirect to a host that is not declared, which is refused on our side; a check
\* that is not valid fails like one the answer does not meet.
Told(class) ==
    CASE class = "cut" -> "timeout"
      [] class = "redirect" -> "connect"
      [] class = "invalid" -> "assertion"
      [] OTHER -> class

\* checks: the extractions and the assertions of a step, in their order; a step with
\* one that cannot be rendered, or is not valid, does not pass.
Checked(s, class) ==
    /\ class = "" => s.renders /\ s.valid
    /\ class = "invalid" => ~s.valid

\* An assert or extract step: over the answer before it, if there was one.  With
\* none it has nothing to read, which is the definition's fault.
Observed == \E i \in 1..(run.at - 1) : Steps[i].kind = "http"
CheckStep(class) ==
    /\ At({"assert"}) /\ Checked(step, class)
    /\ class = "policy" => ~step.renders
    /\ LET failed == Told(class) = "assertion"
           theirs == class = "assertion" /\ Observed
       IN  run' = After(Blame(run, theirs, failed /\ ~theirs), Told(class))
    /\ UNCHANGED <<sent, last, stopping>>

\* The template and the allowlist (of a request only), once, then for each place the
\* credential stands in the vault's entry, whose lock has to be free.
NoCredential == [key |-> -1, hosts |-> {}]
Resolved ==
    IF step.uses = NoName THEN NoCredential
    ELSE IF step.uses \in Names THEN entries[step.uses] ELSE NoEntry
Refused ==
    \/ run.place = 1 /\ (~step.renders \/ (~Browser /\ ~Check(step.host)))
    \/ step.uses # NoName /\ ~hostAllowed(Resolved.hosts, step.host)
Resolve ==
    /\ At({"http", "page"}) /\ run.entry = NoEntry
    /\ Browser /\ run.at = 1 /\ run.place = 1 => browser
    /\ step.uses # NoName => Free
    /\ run' = IF Refused THEN After(run, "policy") ELSE [run EXCEPT !.entry = Resolved]
    /\ UNCHANGED <<sent, last, stopping>>

\* The value's file is gone, or sealed under another key by now.
CannotOpen ==
    /\ Running /\ run.entry \notin {NoEntry, NoCredential}
    /\ ~opens(run.entry, files[step.uses])
    /\ run' = After(run, "policy")
    /\ UNCHANGED <<sent, last, stopping>>

\* The value a step is given for the place at hand, if its file opens.
Given == IF run.entry = NoCredential THEN {} ELSE {files[step.uses].value}
Opened == Running /\ run.entry # NoEntry /\ (run.entry # NoCredential => opens(run.entry, files[step.uses]))
Handed == [value : Given, host : {step.host}, late : {Given \cap ended # {}}]

\* scope.resolve: the value goes into the text, and the next place is resolved anew.
Place ==
    /\ At({"http", "page"}) /\ Opened /\ run.place < step.places
    /\ run' = [run EXCEPT !.held = @ \cup Handed, !.place = @ + 1, !.entry = NoEntry]
    /\ UNCHANGED <<sent, last, stopping>>

\* The last place: the step is ready, and the redactor is told of one value for its
\* credential, the last; the others, if they are not the same, were turned over in
\* the meantime.
Ready == Opened /\ run.place >= step.places
Earlier == {u.value : u \in run.held}
Using ==
    [run EXCEPT !.known = Added(@, Given), !.used = @ \cup Earlier \cup Given,
                !.turned = @ \cup (Earlier \ Given)]
Sent == sent \cup run.held \cup Handed

\* What a host can show of the credentials it was sent.
Shows(host) == {u.value : u \in {w \in Sent : w.host = host}}

\* request, from the last place on: sent, answered, captured, checked.  A stop cuts
\* it short, unless it cleans up.
Request(class, showing, cut) ==
    /\ At({"http"}) /\ Ready /\ Checked(step, class)
    /\ class = "cut" => stopping /\ ~Cleaning
    /\ class = "redirect" => step.follows
    /\ cut \subseteq showing /\ showing \subseteq Shows(step.host) /\ Cardinality(cut) <= 1
    /\ sent' = Sent
    /\ run' = After([Blame(Using, class = "status", class \in {"cut", "redirect", "invalid"}) EXCEPT
                        !.shown = @ \cup Redact(Using.known, capture(showing, cut))],
                    Told(class))
    /\ UNCHANGED <<last, stopping>>

\* buildBrowserRequest: a step of a page made ready for the renderer.
Build ==
    /\ At({"page"}) /\ Ready
    /\ sent' = Sent
    /\ run' = After(Using, "")
    /\ UNCHANGED <<last, stopping>>

\* runBrowser: without a renderer at the start, or when it has gone or does not
\* answer in the end.
Built == Browser /\ run.class = "" /\ run.at = Len(Steps) + 1
NoRenderer ==
    /\ run.on /\ run.entry = NoEntry
    /\ (Browser /\ run.at = 1 /\ run.place = 1 /\ ~browser) \/ Built
    /\ run' = [run EXCEPT !.at = Len(Steps) + 2, !.class = "policy"]
    /\ UNCHANGED <<sent, last, stopping>>

\* runBrowser: the renderer's failure before the screenshot, the screenshot before
\* the checks.  A screenshot that cannot be measured counts against the page, and so
\* does a check that is not valid.
PageClass(page) ==
    IF page.failure # "" THEN browserClass(page.failure)
    ELSE IF page.screenshot # "" THEN "assertion" ELSE Told(page.checks)
Unusable(page) ==
    /\ page.failure = ""
    /\ page.screenshot = "unusable" \/ (page.screenshot = "" /\ page.checks = "invalid")
PageChecked(page) ==
    /\ page.checks = "" => \A i \in DOMAIN Steps : Checked(Steps[i], "")
    /\ page.checks = "invalid" => \E i \in DOMAIN Steps : Checked(Steps[i], "invalid")
Render(page, showing, cut) ==
    /\ run.on /\ run.entry = NoEntry /\ Built /\ browser
    /\ PageChecked(page)
    /\ cut \subseteq showing /\ showing \subseteq run.used /\ Cardinality(cut) <= 1
    /\ run' = [run EXCEPT
                 !.at = @ + 1, !.class = PageClass(page),
                 !.ours = Unusable(page),
                 !.theirs = PageClass(page) \notin {"", "policy"} /\ ~Unusable(page),
                 !.shown = Redact(run.known, capture(showing, cut))]
    /\ UNCHANGED <<sent, last, stopping>>

-----------------------------------------------------------------------------
(* The reading.                                                            *)

Finished ==
    /\ run.on /\ run.at > Len(Steps)
    /\ Browser => run.at = Len(Steps) + 2 \/ run.class # ""

\* The verdict, over the budget or not, and the last look at what would be recorded.
Reading(slow) ==
    LET leaks == leaked(run.known, run.shown)
        verdict == IF run.class # "" THEN verdictFor(run.class) ELSE IF slow THEN "degraded" ELSE "up"
    IN  [monitor |-> run.monitor, version |-> run.version,
         verdict |-> IF leaks THEN "error" ELSE verdict,
         class |-> IF leaks THEN "redaction" ELSE run.class,
         shown |-> IF leaks THEN {} ELSE run.shown,
         made |-> [definition |-> run.definition, ran |-> run.ran, used |-> run.used,
                   turned |-> run.turned, theirs |-> run.theirs, ours |-> run.ours]]

\* RecordSamples: the reading is recorded, or lost when the transaction fails.
RecordSamples(slow, committed) ==
    /\ Finished
    /\ last' = IF committed THEN Reading(slow) ELSE last
    /\ run' = NoRun
    /\ UNCHANGED <<sent, stopping>>

InitJourney == run = NoRun /\ sent = {} /\ last = NoReading /\ stopping = FALSE
=============================================================================
