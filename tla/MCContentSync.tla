---- MODULE MCContentSync ----
(* Instances of ContentSync for TLC. *)
EXTENDS ContentSync, TLC

CONSTANTS
    a1, a2,     \* the agencies
    Second      \* the ids of the second one; the others are of the first

SplitOwner ==
    [x \in Items \cup Pages \cup Pushes \cup Pulls |-> IF x \in Second THEN a2 ELSE a1]

\* Any two of the tasks run at once, never three.
Busy ==
    {j \in Pushes : push[j].pc # "idle"} \cup {l \in Pulls : pull[l].pc # "idle"}
        \cup {u \in Updates : update[u] # NoItem}
TwoAtOnce == Cardinality(Busy) <= 2

Symmetry ==
    Permutations(Items) \cup Permutations(Pages) \cup Permutations(Pushes)
====
