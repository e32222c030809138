---- MODULE DuplicateScore ----
(***************************************************************************)
(* How a generated idea is compared with what the agency has already       *)
(* (ideas.service.ts, scoreDuplicates).  An item of the corpus is the      *)
(* words it shares with the idea and its own; a score is in hundredths.    *)
(***************************************************************************)
EXTENDS Calls, Integers, Sequences, FiniteSets

CONSTANTS
    IdeaWords,      \* the words of the idea
    Corpora         \* what the agency has: sequences of [shared, words]

ASSUME ScoreAssumption ==
    /\ IdeaWords \in Nat
    /\ \A corpus \in Corpora : corpus \in Seq([shared : 0..IdeaWords, words : Nat])

Min2(a, b) == IF a < b THEN a ELSE b

Kept == 3           \* slice(0, 3)
Similar == 18
Possible == 35
Duplicate == 65

\* Math.round of the share in hundredths: halves go up.
RoundScore(shared, all) == (200 * shared + all) \div (2 * all)
Score(item) ==
    IF IdeaWords = 0 \/ item.words = 0
    THEN 0 ELSE RoundScore(item.shared, IdeaWords + item.words - item.shared)

Near(corpus) == {i \in DOMAIN corpus : Score(corpus[i]) >= Similar}

\* The order of the sort, which is stable.
AsFound(corpus, i, j) == i < j      \* wrong: the items are not sorted
Before(corpus, i, j) ==
    \/ Score(corpus[i]) > Score(corpus[j])
    \/ Score(corpus[i]) = Score(corpus[j]) /\ i < j
NotAfter(corpus, i) == {j \in Near(corpus) : j = i \/ Before(corpus, j, i)}
Rank(corpus, i) == Cardinality(NotAfter(corpus, i))

\* The scores of the items shown, the sorted ones up to the third.
SimilarItems(corpus) ==
    LET At(k) == CHOOSE i \in Near(corpus) : Rank(corpus, i) = k
    IN [k \in 1..Min2(Kept, Cardinality(Near(corpus))) |-> Score(corpus[At(k)])]

BestScore(items) == IF items = <<>> THEN 0 ELSE items[1]
Status(score) ==
    CASE score >= Duplicate -> "DUPLICATE"
      [] score >= Possible /\ score < Duplicate -> "POSSIBLE_DUPLICATE"
      [] OTHER -> "UNIQUE"

ScoreCalls == [of : {"scoreDuplicates"}, corpus : Corpora]
AskScore == CallOf(ScoreCalls)

ScoreSpec == call = None /\ [][AskScore \/ Return]_call

-----------------------------------------------------------------------------
(* Properties.                                                             *)

\* An idea is judged by the nearest of the items it is scored against (the forty
\* latest of each kind at most), wherever that item stands, and the items shown are
\* the nearest ones: whatever is left out is no nearer than what is shown.
NearestDecides ==
    Calling("scoreDuplicates") =>
        LET scores == {Score(call.corpus[i]) : i \in DOMAIN call.corpus}
            shown == SimilarItems(call.corpus)
            Count(s, f) == Cardinality({i \in DOMAIN f : f[i] >= s})
            all == [i \in DOMAIN call.corpus |-> Score(call.corpus[i])]
        IN /\ \A s \in scores : s >= Similar =>
                Count(s, shown) = Min2(Kept, Count(s, all))
           /\ Status(BestScore(shown)) =
                CASE \E s \in scores : s >= Duplicate -> "DUPLICATE"
                  [] \A s \in scores : s < Possible -> "UNIQUE"
                  [] OTHER -> "POSSIBLE_DUPLICATE"
====
