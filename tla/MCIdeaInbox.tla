---- MODULE MCIdeaInbox ----
(* Instances of IdeaInbox for TLC. *)
EXTENDS IdeaInbox, TLC

Symmetry ==
    Permutations(Requests) \cup Permutations(Generations)
        \cup Permutations(ContentIds) \cup Permutations(IdeaIds)
====
