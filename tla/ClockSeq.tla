------------------------------ MODULE ClockSeq ------------------------------
(***************************************************************************)
(* The floors the monitor signs (internal/clock: Poll, Apply,              *)
(* loadHighWater, Cycle): every floor carries the trusted time and the     *)
(* next sequence number, and every reading records both.  A restart        *)
(* restores the counter and a floor for the time from the record.          *)
(*                                                                         *)
(* One poll per enclave at a time (ClockFleet), polls of different         *)
(* enclaves at once.                                                       *)
(***************************************************************************)
EXTENDS TimeSource

CONSTANTS
    Enclaves,    \* the enclaves polled
    MaxSeq,      \* the model signs floors up to this number
    ReadsFail,   \* reading the high-water mark may fail
    Crashes      \* the process may stop at any step

ASSUME SeqAssumption == MaxSeq \in Nat /\ {ReadsFail, Crashes} \subseteq BOOLEAN

VARIABLES
    running,    \* Apply: "off", "loading" the high-water mark, "on"
    seq,        \* s.seq
    timeLost,   \* s.timeLost
    poll,       \* the floor each enclave's poll has sent, if any
    readings,   \* clock_readings: sequence numbers and times of the record
    signed,     \* history: sequence numbers signed so far
    reused,     \* history: one of them was signed twice
    latest,     \* history: the latest time signed
    backwards,  \* history: a process signed a time earlier than one an earlier
                \* process signed
    before      \* history: the latest time earlier processes signed

serviceVars == <<running, seq, timeLost, poll, readings>>
history == <<signed, reused, latest, backwards, before>>
vars == <<sourceVars, serviceVars, history>>

NoPoll == [seq |-> 0, sent |-> 0]

Init ==
    /\ SourceInit
    /\ running = "off" /\ seq = 0 /\ timeLost = FALSE
    /\ poll = [e \in Enclaves |-> NoPoll]
    /\ readings = {}
    /\ signed = {} /\ reused = FALSE /\ latest = 0 /\ backwards = FALSE /\ before = 0

Highest(S) == IF S = {} THEN 0 ELSE CHOOSE x \in S : \A y \in S : y <= x

-----------------------------------------------------------------------------

\* Apply: the poller is set before the high-water mark is read.
Apply ==
    /\ running = "off"
    /\ running' = "loading"
    /\ UNCHANGED <<sourceVars, seq, timeLost, poll, readings, history>>

\* Mutant: only the sequence number of the last enclave listed is restored.
Mut_loadHighWater ==
    /\ running = "loading"
    /\ \E e \in Enclaves :
          seq' = Highest({seq} \cup {r.seq : r \in {r \in readings : r.enclave = e}})
    /\ running' = "on"
    /\ UNCHANGED <<sourceVars, timeLost, poll, readings, history>>

\* loadHighWater: the highest number and time of the record, over all enclaves;
\* then the rounds start.
loadHighWater ==
    /\ running = "loading"
    /\ \/ /\ seq' = Highest({seq} \cup {r.seq : r \in readings})
          /\ SetFloor(Highest({r.monitor : r \in readings}))
       \/ ReadsFail /\ UNCHANGED <<seq, floor>>
    /\ running' = "on"
    /\ UNCHANGED <<now, has, offset, fetched, timeLost, poll, readings, history>>

\* checkTrustedTime: whether the refresh left the monitor with a trusted time.
checkTrustedTime == timeLost' = ~(has' /\ now - fetched' <= MaxAge)

\* Mutant: the rounds start before the mark is read.
Mut_Cycle ==
    /\ running # "off"
    /\ Refresh
    /\ timeLost' = ~(has' /\ now - fetched' <= MaxAge)
    /\ UNCHANGED <<running, seq, poll, readings, history>>

\* Cycle: a fetch, then the check of the trusted time.
Cycle ==
    /\ running = "on"
    /\ Refresh
    /\ checkTrustedTime
    /\ UNCHANGED <<running, seq, poll, readings, history>>

\* Poll: with a poller and a trusted time, the next floor is signed and sent.
PollSigns(e) ==
    /\ running # "off" /\ HasTime
    /\ poll[e] = NoPoll
    /\ seq < MaxSeq
    /\ seq' = seq + 1
    /\ poll' = [poll EXCEPT ![e] = [seq |-> seq + 1, sent |-> Now]]
    /\ signed' = signed \cup {seq + 1}
    /\ reused' = (reused \/ seq + 1 \in signed)
    /\ latest' = Highest({latest, Now})
    /\ backwards' = (backwards \/ Now < before)
    /\ UNCHANGED <<sourceVars, running, timeLost, readings, before>>

\* Poll: the reading, with the time at the answer, or at the floor when there is
\* none any more.
PollRecords(e) ==
    /\ poll[e] # NoPoll
    /\ readings' = readings \cup {[seq |-> poll[e].seq, enclave |-> e,
                                   monitor |-> IF HasTime THEN Now ELSE poll[e].sent]}
    /\ poll' = [poll EXCEPT ![e] = NoPoll]
    /\ UNCHANGED <<sourceVars, running, seq, timeLost, history>>

\* Poll: called off, failed on the monitor's own side, or not recorded.
PollDrops(e) ==
    /\ poll[e] # NoPoll
    /\ poll' = [poll EXCEPT ![e] = NoPoll]
    /\ UNCHANGED <<sourceVars, running, seq, timeLost, readings, history>>

\* The process stops and starts again.
Restart ==
    /\ Crashes
    /\ running' = "off" /\ seq' = 0 /\ timeLost' = FALSE
    /\ poll' = [e \in Enclaves |-> NoPoll]
    /\ has' = FALSE /\ offset' = 0 /\ fetched' = 0 /\ floor' = 0
    /\ before' = latest
    /\ UNCHANGED <<now, readings, signed, reused, latest, backwards>>

Next ==
    \/ Apply \/ loadHighWater \/ Cycle
    \/ \E e \in Enclaves : PollSigns(e) \/ PollRecords(e) \/ PollDrops(e)
    \/ Tick /\ UNCHANGED <<serviceVars, history>>
    \/ Restart

Spec == Init /\ [][Next]_vars

-----------------------------------------------------------------------------
(* Properties.                                                             *)

\* No two readings of the record carry the same number, through restarts and
\* polls of several enclaves at once: readings can be told apart and ordered.
RecordedOnce ==
    \A r, s \in readings : r.seq = s.seq => r = s

\* A process signs no number at or below one of the record: the number is
\* restored before the first floor, since no floor goes out before a time is
\* fetched, and no time is fetched before the mark was read.
SignsAboveRecord ==
    [][\A e \in Enclaves : poll[e] = NoPoll /\ poll'[e] # NoPoll =>
          \A r \in readings : r.seq < poll'[e].seq]_vars

\* With at most one lying server, the trusted time is within an honest error and
\* half the agreement (rounded up: the mean of two answers is rounded towards the
\* first) of the true one, floors from earlier processes included.
TimeNearTruth ==
    HasTime => Distance(Now, now) <= HonestError + (Agreement - Half(Agreement))

-----------------------------------------------------------------------------
(* Claims of comments and documents that the code does not keep (README).  *)

\* loadHighWater: "a restart never reuses a sequence number".
NeverReused == ~reused

\* loadHighWater: a restart "never believes a time earlier than one it already
\* signed".
NeverBackwards == ~backwards
=============================================================================
