---- MODULE MCProgress ----
(***************************************************************************)
(* What is stated of whole behaviours, on instances small enough for the   *)
(* liveness checks: the pushes of ContentSync, its tasks when they do not  *)
(* overlap, and the ingestions of FeedIngestion.  A behaviour is one of a  *)
(* part chosen at the start, while what the part leaves out stands still.  *)
(***************************************************************************)
EXTENDS ContentSync, FeedIngestion

CONSTANTS
    l1, l2,     \* links
    i1, p1,     \* the row and the page of the tasks that are held apart
    a1          \* the agency

VARIABLE
    part        \* the part that moves

SomeListings == {<<>>, <<l1, l2>>}
OneAgency == [x \in Items \cup Pages \cup Pushes \cup Pulls |-> a1]

\* "edited" follows one row that is edited, one page of which may go;
\* "several" two rows that stand in the same pushes; "apart" a push, a pull and a
\* PATCH over one row and one page, in the behaviours where no two hold the row.
Lost == {p \in Pages : notion[p].state \in {"trash", "gone"}}
OneRow ==
    /\ removed \cup {r.id : r \in content} \subseteq {i1}
    /\ \A l \in Pulls : pull[l].item # NoItem => pull[l].item.id = i1
    /\ \A p \in Pages \ {p1} : notion[p].state = "unused"
ProgressInit ==
    /\ part \in {"edited", "several", "apart", "feeds"}
    /\ Init /\ FeedInit
    /\ part # "feeds" => web = [f \in FeedIds |-> <<>>]

ProgressNext ==
    /\ UNCHANGED part
    /\ \/ /\ part = "edited" /\ UNCHANGED <<pull, feedVars>> /\ Next
          /\ writes' <= 1 /\ Cardinality(Lost') <= 1
       \/ part = "several" /\ UNCHANGED <<update, pull, feedVars>> /\ Next /\ ~People
       \/ /\ part = "apart" /\ UNCHANGED feedVars /\ Next
          /\ RowsHeldApart' /\ OneRow'
       \/ part = "feeds" /\ FeedNext /\ UNCHANGED vars

progressVars == <<part, vars, feedVars>>

ProgressSpec == ProgressInit /\ [][ProgressNext]_progressVars

\* A part that stands still is fair to nothing, or has nothing to wait for: each
\* property is checked under the fairness of its own part.

\* Every planned content comes into step with Notion in the end.
SyncProgress == PushFairness => PlannedReachesNotion

\* Every entry of an enabled feed comes into the curation in the end.
IngestionProgress == FeedFairness => FeedsProgress
====
