------------------------------ MODULE Register ------------------------------
(***************************************************************************)
(* What the ledger and its anchors promise a customer, without how they    *)
(* are kept: a history that only grows, anchors that say what it was, and  *)
(* no detail forgotten that an anchor does not stand for.  A copy of the   *)
(* whole may be put back in its place; nothing inside can prevent that.    *)
(***************************************************************************)
EXTENDS Integers, Sequences

VARIABLES
    history,    \* the states so far, oldest first
    anchors,    \* what was signed: versions and the history up to them
    kept,       \* the first version whose root can still be told
    saved       \* the copy that may be put back

vars == <<history, anchors, kept, saved>>

Nothing == [history |-> <<>>, anchors |-> {}, kept |-> 1]

Init == history = <<>> /\ anchors = {} /\ kept = 1 /\ saved = Nothing

\* The history is extended, never rewritten.
Extend ==
    /\ Len(history') > Len(history)
    /\ SubSeq(history', 1, Len(history)) = history
    /\ UNCHANGED <<anchors, kept, saved>>

\* The state of the moment is signed, after every state signed before.
Anchor ==
    /\ \A a \in anchors : a.version < Len(history)
    /\ anchors' = anchors \cup {[version |-> Len(history), root |-> history]}
    /\ UNCHANGED <<history, kept, saved>>

\* Detail is forgotten only behind an anchor.
Forget ==
    /\ kept' > kept /\ \E a \in anchors : kept' <= a.version
    /\ UNCHANGED <<history, anchors, saved>>

Save ==
    /\ saved' = [history |-> history, anchors |-> anchors, kept |-> kept]
    /\ UNCHANGED <<history, anchors, kept>>

PutBack ==
    /\ history' = saved.history /\ anchors' = saved.anchors /\ kept' = saved.kept
    /\ saved' = Nothing

Next == Extend \/ Anchor \/ Forget \/ Save \/ PutBack

Spec == Init /\ [][Next]_vars
=============================================================================
