---- MODULE IdeaInbox ----
(***************************************************************************)
(* The inbox of ideas of one agency: ideas are generated, on demand or by  *)
(* the agency's cron job, then accepted or dismissed (ideas.service.ts).   *)
(* A step is what a task does between two awaits.                          *)
(***************************************************************************)
EXTENDS FiniteSets

CONSTANTS
    IdeaIds,     \* ids of ideas
    ContentIds,  \* ids of the contents made of ideas
    Requests,    \* concurrent accept and update requests
    Generations, \* concurrent generateForAgency calls, MANUAL or SCHEDULED
    None,        \* null: no row, no content
    Idle         \* no task

VARIABLES
    ideas,       \* ideas[i]: the row of content_ideas, or None
    contents,    \* contents[c]: the idea it was made of, and whether the row stands
    runs,        \* rows of idea_generation_runs; the ideas stand for generatedCount
    request,     \* accept and update requests
    generation   \* generateForAgency calls

vars == <<ideas, contents, runs, request, generation>>

Idea == [status : {"NEW", "ACCEPTED", "DISMISSED"}, content : ContentIds \cup {None}]
Content == [idea : IdeaIds, live : BOOLEAN]
Run == [status : {"SUCCESS", "ERROR"}, ideas : SUBSET IdeaIds]
AcceptTask == [op : {"create", "mark"}, idea : IdeaIds, content : ContentIds \cup {None}]
EditTask == [op : {"edit"}, idea : IdeaIds, row : Idea]
Generation == [pc : {"ask", "repair", "record", "fail"}, saved : SUBSET IdeaIds]

ASSUME NullsAssumption ==
    /\ None \notin Idea \cup Content \cup ContentIds
    /\ Idle \notin AcceptTask \cup EditTask \cup Generation

TypeOK ==
    /\ ideas \in [IdeaIds -> Idea \cup {None}]
    /\ contents \in [ContentIds -> Content \cup {None}]
    /\ runs \subseteq Run
    /\ request \in [Requests -> AcceptTask \cup EditTask \cup {Idle}]
    /\ generation \in [Generations -> Generation \cup {Idle}]

Init ==
    /\ ideas = [i \in IdeaIds |-> None]
    /\ contents = [c \in ContentIds |-> None]
    /\ runs = {}
    /\ request = [r \in Requests |-> Idle]
    /\ generation = [g \in Generations |-> Idle]

SetRequest(r, task) ==
    request' = [request EXCEPT ![r] = task] /\ UNCHANGED <<runs, generation>>
SetGeneration(g, task) ==
    generation' = [generation EXCEPT ![g] = task] /\ UNCHANGED <<contents, request>>

-----------------------------------------------------------------------------
(* generateForAgency.                                                        *)

Generating(g, pc) == generation[g] # Idle /\ generation[g].pc = pc
GenerationAt(pc, saved) == [pc |-> pc, saved |-> saved]

Generate(g) ==
    /\ generation[g] = Idle
    /\ SetGeneration(g, GenerationAt("ask", {}))
    /\ UNCHANGED <<ideas, runs>>

AnyBatch(S) == TRUE
Enough(S) == S # {}

\* The ideas of an answer are saved together; the run comes with the next step.
StoreIdeas(g, S) ==
    /\ Enough(S)
    /\ \A i \in S : ideas[i] = None
    /\ ideas' = [i \in IdeaIds |->
                   IF i \in S THEN [status |-> "NEW", content |-> None] ELSE ideas[i]]
    /\ UNCHANGED runs
    /\ SetGeneration(g, GenerationAt("record", S))

\* The provider answers with ideas, with text that is no JSON, with no idea at
\* all, or fails.
AskAnswered(g) ==
    /\ Generating(g, "ask")
    /\ \/ \E S \in SUBSET IdeaIds : StoreIdeas(g, S)
       \/ /\ \E pc \in {"repair", "fail"} : SetGeneration(g, GenerationAt(pc, {}))
          /\ UNCHANGED <<ideas, runs>>

\* The second call, to repair the text, is the last.
RepairAnswered(g) ==
    /\ Generating(g, "repair")
    /\ \/ \E S \in SUBSET IdeaIds : StoreIdeas(g, S)
       \/ SetGeneration(g, GenerationAt("fail", {})) /\ UNCHANGED <<ideas, runs>>

RecordSuccess(g) ==
    /\ Generating(g, "record")
    /\ runs' = runs \cup {[status |-> "SUCCESS", ideas |-> generation[g].saved]}
    /\ SetGeneration(g, Idle)
    /\ UNCHANGED ideas

\* The save of the run throws: the ideas stay, and the run will be one that failed.
RecordFailed(g) ==
    /\ Generating(g, "record")
    /\ SetGeneration(g, GenerationAt("fail", {}))
    /\ UNCHANGED <<ideas, runs>>

\* This save may throw as well: the generation leaves no run.
RecordError(g) ==
    /\ Generating(g, "fail")
    /\ runs' \in {runs, runs \cup {[status |-> "ERROR", ideas |-> {}]}}
    /\ SetGeneration(g, Idle)
    /\ UNCHANGED ideas

-----------------------------------------------------------------------------
(* accept, update, and the removal of a content.                             *)

AcceptFind(r, i) ==
    /\ request[r] = Idle
    /\ ideas[i] # None /\ ideas[i].status = "NEW"
    /\ SetRequest(r, [op |-> "create", idea |-> i, content |-> None])
    /\ UNCHANGED <<ideas, contents>>

At(r, op) == request[r] # Idle /\ request[r].op = op

AcceptCreate(r, c) ==
    /\ At(r, "create")
    /\ contents[c] = None
    /\ contents' = [contents EXCEPT ![c] = [idea |-> request[r].idea, live |-> TRUE]]
    /\ SetRequest(r, [op |-> "mark", idea |-> request[r].idea, content |-> c])
    /\ UNCHANGED ideas

\* A save that would point to a content whose row is gone breaks the foreign key.
Linkable(c) == c = None \/ contents[c].live
Save(i, row) == ideas' = IF Linkable(row.content) THEN [ideas EXCEPT ![i] = row] ELSE ideas
UnlinkedRow(c) == [status |-> "ACCEPTED", content |-> None]
ContentRow(c) == [status |-> "IDEA", content |-> c]
AcceptedRow(c) == [status |-> "ACCEPTED", content |-> c]

AcceptMark(r) ==
    /\ At(r, "mark")
    /\ Save(request[r].idea, AcceptedRow(request[r].content))
    /\ SetRequest(r, Idle)
    /\ UNCHANGED contents

\* A status of ACCEPTED is refused; another, or none, is saved with what was read.
EditFind(r, i) ==
    /\ request[r] = Idle
    /\ ideas[i] # None
    /\ \E s \in {"NEW", "DISMISSED", ideas[i].status} :
         SetRequest(r, [op |-> "edit", idea |-> i, row |-> [ideas[i] EXCEPT !.status = s]])
    /\ UNCHANGED <<ideas, contents>>

EditSave(r) ==
    /\ At(r, "edit")
    /\ Save(request[r].idea, request[r].row)
    /\ SetRequest(r, Idle)
    /\ UNCHANGED contents

\* acceptedContent is ON DELETE SET NULL.
RemoveContent(c) ==
    /\ contents[c] # None /\ contents[c].live
    /\ contents' = [contents EXCEPT ![c].live = FALSE]
    /\ ideas' = [i \in IdeaIds |->
                   IF ideas[i] # None /\ ideas[i].content = c
                   THEN [ideas[i] EXCEPT !.content = None] ELSE ideas[i]]
    /\ UNCHANGED <<runs, request, generation>>

-----------------------------------------------------------------------------

Restart ==
    /\ request' = [r \in Requests |-> Idle]
    /\ generation' = [g \in Generations |-> Idle]
    /\ UNCHANGED <<ideas, contents, runs>>

GenerationStep(g) ==
    \/ Generate(g) \/ AskAnswered(g) \/ RepairAnswered(g)
    \/ RecordSuccess(g) \/ RecordFailed(g) \/ RecordError(g)
RequestStep(r) ==
    \/ \E i \in IdeaIds : AcceptFind(r, i) \/ EditFind(r, i)
    \/ \E c \in ContentIds : AcceptCreate(r, c)
    \/ AcceptMark(r) \/ EditSave(r)

Next ==
    \/ \E g \in Generations : GenerationStep(g)
    \/ \E r \in Requests : RequestStep(r)
    \/ \E c \in ContentIds : RemoveContent(c)
    \/ Restart

Spec == Init /\ [][Next]_vars

-----------------------------------------------------------------------------
(* Properties.                                                               *)

\* An accepted idea points to a content made of it, as long as that content
\* stands (accept creates the content, then marks the idea; requests on one
\* idea overlap and the content may be removed at any point).
AcceptedHasContent ==
    \A i \in IdeaIds : ideas[i] # None /\ ideas[i].status = "ACCEPTED" =>
        \/ /\ ideas[i].content # None
           /\ contents[ideas[i].content] = [idea |-> i, live |-> TRUE]
        \/ \E c \in ContentIds : contents[c] = [idea |-> i, live |-> FALSE]

\* The history never claims ideas the inbox does not hold, nor the same idea
\* twice: a run that succeeded counts at least one, one that failed counts none,
\* though its ideas may stand in the inbox.  The ideas are saved before the run; a
\* stop may come between the two, and the save of the run may throw.
RunsMatchInbox ==
    /\ \A n \in runs : (n.status = "SUCCESS") = (n.ideas # {})
    /\ \A n \in runs : \A i \in n.ideas : ideas[i] # None
    /\ \A m, n \in runs : m # n => m.ideas \cap n.ideas = {}

\* ideas.service.ts: "Only new ideas can be accepted": an idea becomes one
\* content at most.
OneContentPerIdea ==
    \A c, d \in ContentIds : contents[c] # None /\ contents[d] # None =>
        (contents[c].idea = contents[d].idea => c = d)
====
