---------------------------- MODULE MCDetection -----------------------------
(* An instance of Detection for TLC: two monitors of two components, the id of *)
(* one of which holds the other's.                                            *)
EXTENDS Detection, TLC

Pair == {"m1", "m2"}
Webs == {"web", "web2"}
PairOf == [m \in Pair |-> "web"]
RuleMajority == ("web" :> "majority") @@ ("web2" :> "any")
WebLike == ("web" :> Webs) @@ ("web2" :> {"web2"})
Mixed == ("m1" :> {"error", "up", "down"}) @@ ("m2" :> {"up", "down"})
Moves == ("m1" :> {}) @@ ("m2" :> {"web2"})
Amendments == ("web" :> {"any"}) @@ ("web2" :> {})
OnWeb2 == {{"web2"}}
AtTimes == (1 :> {{}}) @@ (2 :> {{}, {"web"}})

IncidentSymmetry == Permutations(Incidents)
=============================================================================
