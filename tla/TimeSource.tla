----------------------------- MODULE TimeSource -----------------------------
(***************************************************************************)
(* internal/clock/timesource: the monitor's trusted time, taken from pinned *)
(* NTS servers.  A fetch asks two servers chosen at random and a third when *)
(* the two do not settle it, and adopts the mean of the closest pair that   *)
(* agrees.  Between fetches the time is extrapolated on the local monotonic *)
(* clock, for at most MaxAge, and is never below a floor restored from the  *)
(* record.                                                                  *)
(*                                                                          *)
(* A time is in whole units; an offset is written as the error it leaves,   *)
(* the local clock being taken to advance with the true time (now).         *)
(* Sampling, its key exchange and its round-trip limit are reduced to an    *)
(* answer with an error or none.                                            *)
(***************************************************************************)
EXTENDS Integers, Sequences, FiniteSets

CONSTANTS
    Servers,      \* the pinned servers
    Liars,        \* the ones among them that may answer anything
    HonestError,  \* half of MaxRTT: how far an honest answer may be off
    LiarError,    \* the range explored for a liar's answer
    Agreement,    \* how close two answers must be to count as agreeing
    MaxAge,       \* how long a fetched time is extrapolated
    MaxNow,       \* the model's time runs up to here
    MinNow        \* and starts here, above any error

ASSUME SourceAssumption ==
    /\ IsFiniteSet(Servers) /\ Cardinality(Servers) >= 2
    /\ Liars \subseteq Servers /\ Cardinality(Liars) <= 1
    /\ {HonestError, LiarError, Agreement, MaxAge, MaxNow, MinNow} \subseteq Nat

VARIABLES
    now,       \* the true time
    has,       \* a time was fetched
    offset,    \* the error of the adopted offset
    fetched,   \* when it was fetched, on the local clock
    floor      \* the earliest time Now reports

sourceVars == <<now, has, offset, fetched, floor>>

SourceInit ==
    /\ now = MinNow
    /\ has = FALSE /\ offset = 0 /\ fetched = 0 /\ floor = 0

-----------------------------------------------------------------------------

Distance(a, b) == IF a >= b THEN a - b ELSE b - a

\* Half of a difference as Go divides: towards zero.
Half(d) == IF d >= 0 THEN d \div 2 ELSE -((-d) \div 2)

Pairs(got) == {p \in (1..Len(got)) \X (1..Len(got)) :
                  p[1] < p[2] /\ Distance(got[p[1]], got[p[2]]) <= Agreement}

\* Mutant: the first two answers are taken, agreeing or not.
Mut_agreeing(got) == IF Len(got) >= 2 THEN {got[1] + Half(got[2] - got[1])} ELSE {}

\* agreeing: the mean of the closest agreeing pair, the first found on a tie;
\* the empty set when no two agree.
agreeing(got) ==
    LET gap(p) == Distance(got[p[1]], got[p[2]])
        first(p, q) == p[1] < q[1] \/ (p[1] = q[1] /\ p[2] <= q[2])
        best == {p \in Pairs(got) :
                    \A q \in Pairs(got) : gap(p) < gap(q) \/ (gap(p) = gap(q) /\ first(p, q))}
    IN {got[p[1]] + Half(got[p[2]] - got[p[1]]) : p \in best}

\* What a server may answer: a sample as a sequence of one, or nothing.
Answers(s) ==
    LET range == IF s \in Liars THEN LiarError ELSE HonestError
    IN {<<>>} \cup {<<o>> : o \in (-range)..range}

\* quorum, after two answers: a third server is asked when they do not agree.
Settled(got, others) ==
    IF agreeing(got) # {} \/ others = {} THEN {agreeing(got)}
    ELSE {agreeing(got \o c) : c \in UNION {Answers(s) : s \in others}}

\* quorum: what a fetch may end with, an offset or none, over the servers asked,
\* the order their answers arrive in and what they say.
Quorums ==
    UNION {UNION {Settled(a \o b, Servers \ {p[1], p[2]}) : a \in Answers(p[1]), b \in Answers(p[2])}
           : p \in {p \in Servers \X Servers : p[1] # p[2]}}

\* Now: the trusted time, or none.
HasTime == has /\ now - fetched <= MaxAge
Now == IF now + offset < floor THEN floor ELSE now + offset

-----------------------------------------------------------------------------

\* Refresh: adopts what the quorum says, or keeps what there was.
Refresh ==
    /\ \E q \in Quorums :
          \/ q = {} /\ UNCHANGED <<has, offset, fetched>>
          \/ /\ q # {}
             /\ has' = TRUE /\ offset' \in q /\ fetched' = now
    /\ UNCHANGED <<now, floor>>

\* SetFloor.
SetFloor(t) == floor' = IF t > floor THEN t ELSE floor

\* Time passes.
Tick ==
    /\ now < MaxNow
    /\ now' = now + 1
    /\ UNCHANGED <<has, offset, fetched, floor>>
=============================================================================
