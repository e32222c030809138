---- MODULE MCAgencyMembers ----
(* Instances of AgencyMembers for TLC. *)
EXTENDS AgencyMembers, TLC

\* Any two of the longer requests run at once, never three.
Busy == {k \in Accepts : accept[k] # Idle} \cup {c \in Changes : change[c] # Idle}
TwoAtOnce == Cardinality(Busy) <= 2

Symmetry ==
    Permutations(Users) \cup Permutations(Accepts) \cup Permutations(Tokens)
        \cup Permutations(Changes)
====
