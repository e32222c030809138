---- MODULE IdeaInbox_proofs ----
(***************************************************************************)
(* Proofs about IdeaInbox, for every value of its constants.               *)
(***************************************************************************)
EXTENDS IdeaInbox, TLAPS

-----------------------------------------------------------------------------
(* Types.                                                                    *)

\* The tasks under way are records of their kind.
LEMMA TaskType ==
    ASSUME TypeOK
    PROVE  /\ \A r \in Requests : At(r, "create") \/ At(r, "mark") => request[r] \in AcceptTask
           /\ \A r \in Requests : At(r, "edit") => request[r] \in EditTask
           /\ \A g \in Generations : generation[g] # Idle => generation[g] \in Generation
  BY DEF TypeOK, At, AcceptTask, EditTask

\* What a request, or a generation, that moves on or ends leaves typed.
LEMMA TypeSetRequest ==
    ASSUME TypeOK, NEW r \in Requests, NEW task \in AcceptTask \cup EditTask \cup {Idle},
           SetRequest(r, task)
    PROVE  /\ request' \in [Requests -> AcceptTask \cup EditTask \cup {Idle}]
           /\ runs' \subseteq Run
           /\ generation' \in [Generations -> Generation \cup {Idle}]
  BY DEF TypeOK, SetRequest

LEMMA TypeSetGeneration ==
    ASSUME TypeOK, NEW g \in Generations, NEW task \in Generation \cup {Idle},
           SetGeneration(g, task)
    PROVE  /\ generation' \in [Generations -> Generation \cup {Idle}]
           /\ contents' \in [ContentIds -> Content \cup {None}]
           /\ request' \in [Requests -> AcceptTask \cup EditTask \cup {Idle}]
  BY DEF TypeOK, SetGeneration

LEMMA GenerationType ==
    ASSUME NEW pc \in {"ask", "repair", "record", "fail"}, NEW S \in SUBSET IdeaIds
    PROVE  GenerationAt(pc, S) \in Generation
  BY DEF GenerationAt, Generation

LEMMA TypeSave ==
    ASSUME TypeOK, NEW i \in IdeaIds, NEW row \in Idea, Save(i, row)
    PROVE  ideas' \in [IdeaIds -> Idea \cup {None}]
  BY DEF TypeOK, Save

LEMMA TypeStore ==
    ASSUME TypeOK, NEW g \in Generations, NEW S \in SUBSET IdeaIds, StoreIdeas(g, S)
    PROVE  TypeOK'
  <1>1. [status |-> "NEW", content |-> None] \in Idea
    BY DEF Idea
  <1>2. ideas' \in [IdeaIds -> Idea \cup {None}]
    BY <1>1 DEF StoreIdeas, TypeOK
  <1> QED
    BY <1>2, TypeSetGeneration, GenerationType DEF StoreIdeas, TypeOK

LEMMA TypeStep == TypeOK /\ [Next]_vars => TypeOK'
  <1> SUFFICES ASSUME TypeOK, [Next]_vars PROVE TypeOK'
    OBVIOUS
  <1>1. ASSUME NEW g \in Generations, Generate(g) PROVE TypeOK'
    BY <1>1, TypeSetGeneration, GenerationType DEF Generate, TypeOK
  <1>2. ASSUME NEW g \in Generations, AskAnswered(g) PROVE TypeOK'
    <2>1. CASE \E S \in SUBSET IdeaIds : StoreIdeas(g, S)
      BY <2>1, TypeStore
    <2>2. ASSUME NEW pc \in {"repair", "fail"}, SetGeneration(g, GenerationAt(pc, {})),
                 UNCHANGED <<ideas, runs>>
          PROVE  TypeOK'
      BY <2>2, TypeSetGeneration, GenerationType DEF TypeOK
    <2> QED
      BY <1>2, <2>1, <2>2 DEF AskAnswered
  <1>3. ASSUME NEW g \in Generations, RepairAnswered(g) PROVE TypeOK'
    <2>1. CASE \E S \in SUBSET IdeaIds : StoreIdeas(g, S)
      BY <2>1, TypeStore
    <2>2. CASE SetGeneration(g, GenerationAt("fail", {})) /\ UNCHANGED <<ideas, runs>>
      BY <2>2, TypeSetGeneration, GenerationType DEF TypeOK
    <2> QED
      BY <1>3, <2>1, <2>2 DEF RepairAnswered
  <1>4. ASSUME NEW g \in Generations, RecordSuccess(g) PROVE TypeOK'
    <2>1. generation[g].saved \in SUBSET IdeaIds
      BY <1>4, TaskType DEF RecordSuccess, Generating, Generation
    <2>2. runs' \subseteq Run
      BY <1>4, <2>1 DEF RecordSuccess, TypeOK, Run
    <2> QED
      BY <1>4, <2>2, TypeSetGeneration DEF RecordSuccess, TypeOK
  <1>5. ASSUME NEW g \in Generations, RecordError(g) PROVE TypeOK'
    <2>1. runs' \subseteq Run
      BY <1>5 DEF RecordError, TypeOK, Run
    <2> QED
      BY <1>5, <2>1, TypeSetGeneration DEF RecordError, TypeOK
  <1>14. ASSUME NEW g \in Generations, RecordFailed(g) PROVE TypeOK'
    BY <1>14, TypeSetGeneration, GenerationType DEF RecordFailed, TypeOK
  <1>6. ASSUME NEW r \in Requests, NEW i \in IdeaIds, AcceptFind(r, i) PROVE TypeOK'
    <2>1. [op |-> "create", idea |-> i, content |-> None] \in AcceptTask
      BY DEF AcceptTask
    <2> QED
      BY <1>6, <2>1, TypeSetRequest DEF AcceptFind, TypeOK
  <1>7. ASSUME NEW r \in Requests, NEW i \in IdeaIds, EditFind(r, i) PROVE TypeOK'
    <2>1. ideas[i] \in Idea
      BY <1>7 DEF EditFind, TypeOK
    <2>2. PICK s \in {"NEW", "DISMISSED", ideas[i].status} :
            SetRequest(r, [op |-> "edit", idea |-> i, row |-> [ideas[i] EXCEPT !.status = s]])
      BY <1>7 DEF EditFind
    <2>3. [ideas[i] EXCEPT !.status = s] \in Idea
      BY <2>1 DEF Idea
    <2>4. [op |-> "edit", idea |-> i, row |-> [ideas[i] EXCEPT !.status = s]] \in EditTask
      BY <2>3 DEF EditTask
    <2> QED
      BY <1>7, <2>2, <2>4, TypeSetRequest DEF EditFind, TypeOK
  <1>8. ASSUME NEW r \in Requests, NEW c \in ContentIds, AcceptCreate(r, c) PROVE TypeOK'
    <2>1. request[r].idea \in IdeaIds
      BY <1>8, TaskType DEF AcceptCreate, AcceptTask
    <2>2. [op |-> "mark", idea |-> request[r].idea, content |-> c] \in AcceptTask
      BY <2>1 DEF AcceptTask
    <2>3. contents' \in [ContentIds -> Content \cup {None}]
      BY <1>8, <2>1 DEF AcceptCreate, TypeOK, Content
    <2> QED
      BY <1>8, <2>2, <2>3, TypeSetRequest DEF AcceptCreate, TypeOK
  <1>9. ASSUME NEW r \in Requests, AcceptMark(r) PROVE TypeOK'
    <2>1. request[r].idea \in IdeaIds /\ AcceptedRow(request[r].content) \in Idea
      BY <1>9, TaskType DEF AcceptMark, AcceptTask, AcceptedRow, Idea
    <2> QED
      BY <1>9, <2>1, TypeSave, TypeSetRequest DEF AcceptMark, TypeOK
  <1>10. ASSUME NEW r \in Requests, EditSave(r) PROVE TypeOK'
    <2>1. request[r].idea \in IdeaIds /\ request[r].row \in Idea
      BY <1>10, TaskType DEF EditSave, EditTask
    <2> QED
      BY <1>10, <2>1, TypeSave, TypeSetRequest DEF EditSave, TypeOK
  <1>11. ASSUME NEW c \in ContentIds, RemoveContent(c) PROVE TypeOK'
    <2>1. contents' \in [ContentIds -> Content \cup {None}]
      BY <1>11 DEF RemoveContent, TypeOK, Content
    <2>2. ideas' \in [IdeaIds -> Idea \cup {None}]
      BY <1>11 DEF RemoveContent, TypeOK, Idea
    <2> QED
      BY <1>11, <2>1, <2>2 DEF RemoveContent, TypeOK
  <1>12. CASE Restart
    BY <1>12 DEF Restart, TypeOK
  <1>13. CASE UNCHANGED vars
    BY <1>13 DEF vars, TypeOK
  <1> QED
    BY <1>1, <1>2, <1>3, <1>4, <1>5, <1>6, <1>7, <1>8, <1>9, <1>10, <1>11, <1>12, <1>13, <1>14
    DEF Next, GenerationStep, RequestStep

LEMMA TypeInit == Init => TypeOK
  BY DEF Init, TypeOK

\* Every variable of the inbox keeps its type.
THEOREM TypeCorrect == Spec => []TypeOK
  BY TypeInit, TypeStep, PTL DEF Spec

-----------------------------------------------------------------------------
(* The history matches the inbox.                                            *)

\* The ideas a generation has saved and not yet recorded.
Pending(g) == IF generation[g] = Idle THEN {} ELSE generation[g].saved

GInv ==
    /\ RunsMatchInbox
    /\ \A g \in Generations : Generating(g, "record") => Pending(g) # {}
    /\ \A g \in Generations : \A i \in Pending(g) : ideas[i] # None
    /\ \A g \in Generations : \A n \in runs : Pending(g) \cap n.ideas = {}
    /\ \A g, h \in Generations : g # h => Pending(g) \cap Pending(h) = {}

LEMMA GInit == Init => GInv
  BY DEF Init, GInv, RunsMatchInbox, Generating, Pending

LEMMA SaveStays ==
    ASSUME TypeOK, NEW i \in IdeaIds, NEW row \in Idea, Save(i, row)
    PROVE  \A j \in IdeaIds : ideas[j] # None => ideas'[j] # None
  BY NullsAssumption DEF TypeOK, Save

LEMMA StoreStays ==
    ASSUME NEW g, NEW S \in SUBSET IdeaIds, StoreIdeas(g, S)
    PROVE  \A j \in IdeaIds : ideas[j] # None => ideas'[j] # None
  BY DEF StoreIdeas

\* No step deletes an idea.
LEMMA IdeasStay ==
    TypeOK /\ [Next]_vars => \A j \in IdeaIds : ideas[j] # None => ideas'[j] # None
  <1> SUFFICES ASSUME TypeOK, [Next]_vars
               PROVE  \A j \in IdeaIds : ideas[j] # None => ideas'[j] # None
    OBVIOUS
  <1>1. ASSUME NEW g \in Generations, GenerationStep(g)
        PROVE  \A j \in IdeaIds : ideas[j] # None => ideas'[j] # None
    <2>1. UNCHANGED ideas \/ \E S \in SUBSET IdeaIds : StoreIdeas(g, S)
      BY <1>1
      DEF GenerationStep, Generate, AskAnswered, RepairAnswered, RecordSuccess, RecordFailed,
          RecordError
    <2> QED
      BY <2>1, StoreStays
  <1>2. ASSUME NEW r \in Requests, AcceptMark(r)
        PROVE  \A j \in IdeaIds : ideas[j] # None => ideas'[j] # None
    <2>1. request[r].idea \in IdeaIds /\ AcceptedRow(request[r].content) \in Idea
      BY <1>2, TaskType DEF AcceptMark, AcceptTask, AcceptedRow, Idea
    <2> QED
      BY <1>2, <2>1, SaveStays DEF AcceptMark
  <1>3. ASSUME NEW r \in Requests, EditSave(r)
        PROVE  \A j \in IdeaIds : ideas[j] # None => ideas'[j] # None
    <2>1. request[r].idea \in IdeaIds /\ request[r].row \in Idea
      BY <1>3, TaskType DEF EditSave, EditTask
    <2> QED
      BY <1>3, <2>1, SaveStays DEF EditSave
  <1>4. ASSUME NEW c \in ContentIds, RemoveContent(c)
        PROVE  \A j \in IdeaIds : ideas[j] # None => ideas'[j] # None
    <2>1. \A j \in IdeaIds : ideas[j] # None => [ideas[j] EXCEPT !.content = None] \in Idea
      BY DEF TypeOK, Idea
    <2> QED
      BY <1>4, <2>1, NullsAssumption DEF RemoveContent
  <1>5. ASSUME NEW r \in Requests, NEW i \in IdeaIds, AcceptFind(r, i) \/ EditFind(r, i)
        PROVE  UNCHANGED ideas
    BY <1>5 DEF AcceptFind, EditFind
  <1>6. ASSUME NEW r \in Requests, NEW c \in ContentIds, AcceptCreate(r, c)
        PROVE  UNCHANGED ideas
    BY <1>6 DEF AcceptCreate
  <1>7. CASE Restart \/ UNCHANGED vars
    BY <1>7 DEF Restart, vars
  <1> QED
    BY <1>1, <1>2, <1>3, <1>4, <1>5, <1>6, <1>7 DEF Next, RequestStep

\* What a step that moves a generation on leaves pending.
LEMMA PendingAfter ==
    ASSUME TypeOK, NEW g \in Generations, NEW pc \in {"ask", "repair", "record", "fail"},
           NEW S \in SUBSET IdeaIds, SetGeneration(g, GenerationAt(pc, S))
    PROVE  /\ \A h \in Generations : Pending(h)' = IF h = g THEN S ELSE Pending(h)
           /\ Generating(g, "record")' => pc = "record"
           /\ \A h \in Generations : h # g =>
                Generating(h, "record")' = Generating(h, "record")
  <1>1. GenerationAt(pc, S) \in Generation /\ GenerationAt(pc, S) # Idle
    BY GenerationType, NullsAssumption
  <1>2. /\ generation'[g] = GenerationAt(pc, S)
        /\ \A h \in Generations : h # g => generation'[h] = generation[h]
    BY DEF SetGeneration, TypeOK
  <1> QED
    BY <1>1, <1>2 DEF Pending, Generating, GenerationAt

LEMMA GStore ==
    ASSUME TypeOK, GInv, NEW g \in Generations, NEW S \in SUBSET IdeaIds, StoreIdeas(g, S)
    PROVE  GInv'
  <1>1. SetGeneration(g, GenerationAt("record", S)) /\ UNCHANGED runs /\ S # {}
    BY DEF StoreIdeas, Enough
  <1>2. /\ \A h \in Generations : Pending(h)' = IF h = g THEN S ELSE Pending(h)
        /\ \A h \in Generations : h # g =>
             Generating(h, "record")' = Generating(h, "record")
    BY <1>1, PendingAfter
  <1>3. /\ \A i \in S : ideas[i] = None /\ ideas'[i] # None
        /\ \A i \in IdeaIds : ideas[i] # None => ideas'[i] # None
    BY NullsAssumption DEF StoreIdeas, Idea
  <1>4. \A n \in runs : n.ideas \subseteq IdeaIds
    BY DEF TypeOK, Run
  <1>5. \A h \in Generations : Pending(h) \subseteq IdeaIds
    BY TaskType DEF Pending, Generation
  <1>6. RunsMatchInbox'
    BY <1>1, <1>3, <1>4 DEF GInv, RunsMatchInbox
  <1>7. \A h \in Generations : Generating(h, "record")' => Pending(h)' # {}
    BY <1>1, <1>2 DEF GInv
  <1>8. \A h \in Generations : \A i \in Pending(h)' : ideas'[i] # None
    BY <1>2, <1>3, <1>5 DEF GInv
  <1>9. \A h \in Generations : \A n \in runs' : Pending(h)' \cap n.ideas = {}
    BY <1>1, <1>2, <1>3 DEF GInv, RunsMatchInbox
  <1>10. \A f, h \in Generations : f # h => Pending(f)' \cap Pending(h)' = {}
    BY <1>2, <1>3 DEF GInv
  <1> QED
    BY <1>6, <1>7, <1>8, <1>9, <1>10 DEF GInv

\* A step of a generation that saves nothing and records nothing.
LEMMA GMove ==
    ASSUME TypeOK, GInv, NEW g \in Generations, NEW pc \in {"ask", "repair", "fail"},
           SetGeneration(g, GenerationAt(pc, {})), UNCHANGED <<ideas, runs>>
    PROVE  GInv'
  <1>1. /\ \A h \in Generations : Pending(h)' = IF h = g THEN {} ELSE Pending(h)
        /\ Generating(g, "record")' => pc = "record"
        /\ \A h \in Generations : h # g =>
             Generating(h, "record")' = Generating(h, "record")
    BY PendingAfter
  <1> QED
    BY <1>1 DEF GInv, RunsMatchInbox

\* The end of a generation: what it saved goes to a run, or it saved nothing.
LEMMA GRecord ==
    ASSUME TypeOK, GInv, NEW g \in Generations, NEW status \in {"SUCCESS", "ERROR"},
           NEW S \in SUBSET IdeaIds,
           (status = "SUCCESS") = (S # {}), S \subseteq Pending(g),
           runs' = runs \cup {[status |-> status, ideas |-> S]},
           SetGeneration(g, Idle), UNCHANGED ideas
    PROVE  GInv'
  <1> DEFINE new == [status |-> status, ideas |-> S]
  <1>1. /\ generation'[g] = Idle
        /\ \A h \in Generations : h # g => generation'[h] = generation[h]
    BY DEF SetGeneration, TypeOK
  <1>2. /\ \A h \in Generations : Pending(h)' = IF h = g THEN {} ELSE Pending(h)
        /\ \A h \in Generations : Generating(h, "record")' => Generating(h, "record") /\ h # g
    BY <1>1 DEF Pending, Generating
  <1>3. new.status = status /\ new.ideas = S
    OBVIOUS
  <1>4. runs' = runs \cup {new}
    OBVIOUS
  <1> HIDE DEF new
  <1>5. RunsMatchInbox'
    BY <1>3, <1>4 DEF GInv, RunsMatchInbox
  <1>6. \A h \in Generations : \A n \in runs' : Pending(h)' \cap n.ideas = {}
    BY <1>2, <1>3, <1>4 DEF GInv
  <1> QED
    BY <1>2, <1>5, <1>6 DEF GInv

\* The end of a generation whose last save fails: it leaves no run.
LEMMA GNoRun ==
    ASSUME TypeOK, GInv, NEW g \in Generations, SetGeneration(g, Idle), UNCHANGED <<ideas, runs>>
    PROVE  GInv'
  <1>1. /\ generation'[g] = Idle
        /\ \A h \in Generations : h # g => generation'[h] = generation[h]
    BY DEF SetGeneration, TypeOK
  <1>2. /\ \A h \in Generations : Pending(h)' = IF h = g THEN {} ELSE Pending(h)
        /\ \A h \in Generations : Generating(h, "record")' => Generating(h, "record") /\ h # g
    BY <1>1 DEF Pending, Generating
  <1> QED
    BY <1>2 DEF GInv, RunsMatchInbox

LEMMA GStep == TypeOK /\ GInv /\ [Next]_vars => GInv'
  <1> SUFFICES ASSUME TypeOK, GInv, [Next]_vars PROVE GInv'
    OBVIOUS
  <1>0. \A j \in IdeaIds : ideas[j] # None => ideas'[j] # None
    BY IdeasStay
  <1>1. ASSUME UNCHANGED <<runs, generation>> PROVE GInv'
    <2>1. \A n \in runs : n.ideas \subseteq IdeaIds
      BY DEF TypeOK, Run
    <2>2. \A h \in Generations : Pending(h) \subseteq IdeaIds
      BY TaskType DEF Pending, Generation
    <2>3. \A h \in Generations : /\ Pending(h)' = Pending(h)
                                 /\ Generating(h, "record")' = Generating(h, "record")
      BY <1>1 DEF Pending, Generating
    <2> QED
      BY <1>0, <1>1, <2>1, <2>2, <2>3 DEF GInv, RunsMatchInbox
  <1>2. ASSUME NEW g \in Generations, Generate(g) PROVE GInv'
    BY <1>2, GMove DEF Generate
  <1>3. ASSUME NEW g \in Generations, AskAnswered(g) PROVE GInv'
    BY <1>3, GStore, GMove DEF AskAnswered
  <1>4. ASSUME NEW g \in Generations, RepairAnswered(g) PROVE GInv'
    BY <1>4, GStore, GMove DEF RepairAnswered
  <1>5. ASSUME NEW g \in Generations, RecordSuccess(g) PROVE GInv'
    <2>1. generation[g].saved \in SUBSET IdeaIds /\ Pending(g) = generation[g].saved
      BY <1>5, TaskType DEF RecordSuccess, Generating, Generation, Pending
    <2>2. Pending(g) # {}
      BY <1>5 DEF RecordSuccess, GInv
    <2> QED
      BY <1>5, <2>1, <2>2, GRecord DEF RecordSuccess
  <1>6. ASSUME NEW g \in Generations, RecordError(g) PROVE GInv'
    <2>1. /\ runs' \in {runs, runs \cup {[status |-> "ERROR", ideas |-> {}]}}
          /\ SetGeneration(g, Idle) /\ UNCHANGED ideas
      BY <1>6 DEF RecordError
    <2>2. \A status \in {"SUCCESS", "ERROR"}, S \in SUBSET IdeaIds :
            /\ (status = "SUCCESS") = (S # {}) /\ S \subseteq Pending(g)
            /\ runs' = runs \cup {[status |-> status, ideas |-> S]}
            => GInv'
      BY <2>1, GRecord
    <2>3. {} \in SUBSET IdeaIds /\ {} \subseteq Pending(g)
      OBVIOUS
    <2>4. ("ERROR" = "SUCCESS") = ({} # {})
      OBVIOUS
    <2> QED
      BY <2>1, <2>2, <2>3, <2>4, GNoRun
  <1>11. ASSUME NEW g \in Generations, RecordFailed(g) PROVE GInv'
    BY <1>11, GMove DEF RecordFailed
  <1>7. CASE Restart
    <2>1. \A h \in Generations : Pending(h)' = {} /\ ~Generating(h, "record")'
      BY <1>7 DEF Restart, Pending, Generating
    <2> QED
      BY <1>7, <2>1 DEF Restart, GInv, RunsMatchInbox
  <1>8. ASSUME NEW r \in Requests, RequestStep(r) PROVE UNCHANGED <<runs, generation>>
    BY <1>8 DEF RequestStep, AcceptFind, EditFind, AcceptCreate, AcceptMark, EditSave, SetRequest
  <1>9. ASSUME NEW c \in ContentIds, RemoveContent(c) PROVE UNCHANGED <<runs, generation>>
    BY <1>9 DEF RemoveContent
  <1>10. CASE UNCHANGED vars
    BY <1>1, <1>10 DEF vars
  <1> QED
    BY <1>1, <1>2, <1>3, <1>4, <1>5, <1>6, <1>7, <1>8, <1>9, <1>10, <1>11
    DEF Next, GenerationStep

\* Whatever stops and overlaps, a run of the history that succeeded stands for
\* ideas that are in the inbox and that no other run stands for.
THEOREM HistoryMatchesInbox == Spec => []RunsMatchInbox
  <1>1. GInv => RunsMatchInbox
    BY DEF GInv
  <1> QED
    BY <1>1, TypeInit, TypeStep, GInit, GStep, PTL DEF Spec

-----------------------------------------------------------------------------
(* An accepted idea has its content.                                         *)

\* A content that was made of the idea and has been removed since.
Lost(cs, i) == \E c \in ContentIds : cs[c] = [idea |-> i, live |-> FALSE]

\* A content made of the idea, which stands or not.
MadeOf(cs, c, i) == cs[c] # None /\ cs[c].idea = i

\* What is known of a row of the idea, in the table or in memory.
Backed(cs, i, row) ==
    /\ row.content # None => MadeOf(cs, row.content, i)
    /\ row.status = "ACCEPTED" => row.content # None \/ Lost(cs, i)

CInv ==
    /\ \A i \in IdeaIds : ideas[i] # None =>
         /\ Backed(contents, i, ideas[i])
         /\ ideas[i].content # None => contents[ideas[i].content].live
    /\ \A r \in Requests : At(r, "edit") => Backed(contents, request[r].idea, request[r].row)
    /\ \A r \in Requests : At(r, "mark") =>
         request[r].content # None /\ MadeOf(contents, request[r].content, request[r].idea)

LEMMA MadeIsContent ==
    ASSUME NEW i \in IdeaIds, NEW live \in BOOLEAN
    PROVE  [idea |-> i, live |-> live] # None
  <1>1. [idea |-> i, live |-> live] \in Content
    BY DEF Content
  <1> QED
    BY <1>1, NullsAssumption

LEMMA CInit == Init => CInv
  BY DEF Init, CInv, At

\* A content once made keeps its idea, and stays lost.
ContentsKept ==
    \A c \in ContentIds, i \in IdeaIds :
        /\ MadeOf(contents, c, i) => MadeOf(contents', c, i)
        /\ contents[c] = [idea |-> i, live |-> FALSE] =>
             contents'[c] = [idea |-> i, live |-> FALSE]

LEMMA BackedKept ==
    ASSUME ContentsKept, NEW i \in IdeaIds, NEW row \in Idea, Backed(contents, i, row)
    PROVE  Backed(contents', i, row)
  <1>1. Lost(contents, i) => Lost(contents', i)
    BY DEF ContentsKept, Lost
  <1> QED
    BY <1>1 DEF ContentsKept, Backed, Idea

\* What tasks in memory hold stays backed when they stay as they are.
LEMMA HeldKept ==
    ASSUME TypeOK, CInv, ContentsKept, NEW r \in Requests, request'[r] = request[r]
    PROVE  /\ At(r, "edit")' => Backed(contents', request[r].idea, request[r].row)
           /\ At(r, "mark")' =>
                request[r].content # None /\ MadeOf(contents', request[r].content, request[r].idea)
  <1>1. /\ At(r, "edit") => request[r].idea \in IdeaIds /\ request[r].row \in Idea
        /\ At(r, "mark") =>
             request[r].idea \in IdeaIds /\ request[r].content \in ContentIds \cup {None}
    BY TaskType DEF AcceptTask, EditTask
  <1> QED
    BY <1>1, BackedKept DEF CInv, At, ContentsKept

\* A save of a backed row, or one the foreign key refuses.
LEMMA CSave ==
    ASSUME TypeOK, CInv, NEW r \in Requests, NEW i \in IdeaIds, NEW row \in Idea,
           Backed(contents, i, row), Save(i, row), SetRequest(r, Idle), UNCHANGED contents
    PROVE  CInv'
  <1>1. ContentsKept
    BY DEF ContentsKept, MadeOf
  <1>2. ASSUME NEW j \in IdeaIds, ideas'[j] # None
        PROVE  /\ Backed(contents, j, ideas'[j])
               /\ ideas'[j].content # None => contents[ideas'[j].content].live
    <2>1. CASE ideas'[j] = ideas[j]
      BY <1>2, <2>1 DEF CInv
    <2>2. CASE j = i /\ ideas'[j] = row /\ Linkable(row.content)
      BY <2>2 DEF Linkable
    <2> QED
      BY <2>1, <2>2 DEF Save, TypeOK
  <1>3. \A j \in IdeaIds : ideas'[j] # None => Backed(contents', j, ideas'[j])
    BY <1>2 DEF Backed, MadeOf, Lost
  <1>4. \A q \in Requests : request'[q] = request[q] \/ request'[q] = Idle
    BY DEF SetRequest, TypeOK
  <1>5. \A q \in Requests :
          /\ At(q, "edit")' => Backed(contents', request'[q].idea, request'[q].row)
          /\ At(q, "mark")' =>
               request'[q].content # None /\ MadeOf(contents', request'[q].content, request'[q].idea)
    BY <1>1, <1>4, HeldKept DEF At
  <1> QED
    BY <1>2, <1>3, <1>5 DEF CInv

LEMMA CStore ==
    ASSUME TypeOK, CInv, NEW g, NEW S \in SUBSET IdeaIds, StoreIdeas(g, S)
    PROVE  CInv'
  <1>1. UNCHANGED <<contents, request>>
    BY DEF StoreIdeas, SetGeneration
  <1>2. \A i \in IdeaIds :
          ideas'[i] = ideas[i] \/ ideas'[i] = [status |-> "NEW", content |-> None]
    BY DEF StoreIdeas
  <1> QED
    BY <1>1, <1>2 DEF CInv, Backed, MadeOf, Lost, At

LEMMA CStep == TypeOK /\ CInv /\ [Next]_vars => CInv'
  <1> SUFFICES ASSUME TypeOK, CInv, [Next]_vars PROVE CInv'
    OBVIOUS
  <1>1. ASSUME UNCHANGED <<ideas, contents, request>> PROVE CInv'
    BY <1>1 DEF CInv, Backed, MadeOf, Lost, At
  <1>2. ASSUME NEW g \in Generations, GenerationStep(g) PROVE CInv'
    <2>1. \/ UNCHANGED <<ideas, contents, request>>
          \/ \E S \in SUBSET IdeaIds : StoreIdeas(g, S)
      BY <1>2
      DEF GenerationStep, Generate, AskAnswered, RepairAnswered, RecordSuccess, RecordFailed,
          RecordError, SetGeneration
    <2> QED
      BY <1>1, <2>1, CStore
  <1>3. ASSUME NEW r \in Requests, NEW i \in IdeaIds, AcceptFind(r, i) PROVE CInv'
    <2>1. /\ \A q \in Requests : q # r => request'[q] = request[q]
          /\ request'[r].op = "create"
          /\ UNCHANGED <<ideas, contents>>
      BY <1>3 DEF AcceptFind, SetRequest, TypeOK
    <2> QED
      BY <2>1 DEF CInv, Backed, MadeOf, Lost, At
  <1>4. ASSUME NEW r \in Requests, NEW i \in IdeaIds, EditFind(r, i) PROVE CInv'
    <2>1. ideas[i] \in Idea /\ Backed(contents, i, ideas[i])
      BY <1>4 DEF EditFind, TypeOK, CInv
    <2>2. PICK s \in {"NEW", "DISMISSED", ideas[i].status} :
            SetRequest(r, [op |-> "edit", idea |-> i, row |-> [ideas[i] EXCEPT !.status = s]])
      BY <1>4 DEF EditFind
    <2> DEFINE row == [ideas[i] EXCEPT !.status = s]
    <2>3. row.content = ideas[i].content /\ (row.status = "ACCEPTED" => ideas[i].status = "ACCEPTED")
      BY <2>1 DEF Idea
    <2>4. Backed(contents, i, row)
      BY <2>1, <2>3 DEF Backed
    <2>5. /\ \A q \in Requests : q # r => request'[q] = request[q]
          /\ request'[r] = [op |-> "edit", idea |-> i, row |-> row]
          /\ UNCHANGED <<ideas, contents>>
      BY <1>4, <2>2 DEF EditFind, SetRequest, TypeOK
    <2> HIDE DEF row
    <2>6. ContentsKept
      BY <2>5 DEF ContentsKept
    <2>7. \A q \in Requests :
            /\ At(q, "edit")' => Backed(contents', request'[q].idea, request'[q].row)
            /\ At(q, "mark")' =>
                 request'[q].content # None /\ MadeOf(contents', request'[q].content, request'[q].idea)
      <3>1. ASSUME NEW q \in Requests, q # r
            PROVE  /\ At(q, "edit")' => Backed(contents', request'[q].idea, request'[q].row)
                   /\ At(q, "mark")' =>
                        /\ request'[q].content # None
                        /\ MadeOf(contents', request'[q].content, request'[q].idea)
        BY <2>5, <2>6, <3>1, HeldKept
      <3>2. ~At(r, "mark")' /\ Backed(contents', request'[r].idea, request'[r].row)
        BY <2>4, <2>5 DEF At
      <3> QED
        BY <3>1, <3>2
    <2> QED
      BY <2>5, <2>7 DEF CInv
  <1>5. ASSUME NEW r \in Requests, NEW c \in ContentIds, AcceptCreate(r, c) PROVE CInv'
    <2>1. request[r].idea \in IdeaIds
      BY <1>5, TaskType DEF AcceptCreate, AcceptTask
    <2>2. /\ contents'[c] = [idea |-> request[r].idea, live |-> TRUE]
          /\ \A d \in ContentIds : d # c => contents'[d] = contents[d]
          /\ contents[c] = None
      BY <1>5 DEF AcceptCreate, TypeOK
    <2>3. contents'[c] # None
      BY <2>1, <2>2, MadeIsContent
    <2>4. \A d \in ContentIds : contents[d] # None => contents'[d] = contents[d]
      BY <2>2
    <2>5. ContentsKept
      <3>1. \A i \in IdeaIds : [idea |-> i, live |-> FALSE] # None
        BY MadeIsContent
      <3> QED
        BY <2>4, <3>1 DEF ContentsKept, MadeOf
    <2>6. \A i \in IdeaIds : ideas[i] # None =>
            /\ Backed(contents', i, ideas[i])
            /\ ideas[i].content # None => contents'[ideas[i].content].live
      <3>1. \A i \in IdeaIds : ideas[i] # None => ideas[i] \in Idea
        BY DEF TypeOK
      <3>2. UNCHANGED ideas
        BY <1>5 DEF AcceptCreate
      <3>3. \A i \in IdeaIds : ideas[i] # None => Backed(contents', i, ideas[i])
        BY <2>5, <3>1, <3>2, BackedKept DEF CInv
      <3> QED
        BY <2>4, <3>1, <3>3 DEF CInv, Idea, Backed, MadeOf
    <2>7. /\ \A q \in Requests : q # r => request'[q] = request[q]
          /\ request'[r] = [op |-> "mark", idea |-> request[r].idea, content |-> c]
          /\ UNCHANGED ideas
      BY <1>5 DEF AcceptCreate, SetRequest, TypeOK
    <2>8. \A q \in Requests :
            /\ At(q, "edit")' => Backed(contents', request'[q].idea, request'[q].row)
            /\ At(q, "mark")' =>
                 request'[q].content # None /\ MadeOf(contents', request'[q].content, request'[q].idea)
      <3>1. ASSUME NEW q \in Requests, q # r
            PROVE  /\ At(q, "edit")' => Backed(contents', request'[q].idea, request'[q].row)
                   /\ At(q, "mark")' =>
                        request'[q].content # None /\ MadeOf(contents', request'[q].content, request'[q].idea)
        BY <2>5, <2>7, <3>1, HeldKept
      <3>2. ~At(r, "edit")' /\ request'[r].content # None
            /\ MadeOf(contents', request'[r].content, request'[r].idea)
        BY <2>2, <2>3, <2>7, NullsAssumption DEF At, MadeOf
      <3> QED
        BY <3>1, <3>2
    <2> QED
      BY <2>6, <2>7, <2>8 DEF CInv
  <1>6. ASSUME NEW r \in Requests, AcceptMark(r) PROVE CInv'
    <2>1. /\ request[r].idea \in IdeaIds
          /\ AcceptedRow(request[r].content) \in Idea
      BY <1>6, TaskType DEF AcceptMark, AcceptTask, AcceptedRow, Idea
    <2>2. Backed(contents, request[r].idea, AcceptedRow(request[r].content))
      BY <1>6 DEF AcceptMark, CInv, Backed, AcceptedRow
    <2> QED
      BY <1>6, <2>1, <2>2, CSave DEF AcceptMark
  <1>7. ASSUME NEW r \in Requests, EditSave(r) PROVE CInv'
    <2>1. request[r].idea \in IdeaIds /\ request[r].row \in Idea
      BY <1>7, TaskType DEF EditSave, EditTask
    <2>2. Backed(contents, request[r].idea, request[r].row)
      BY <1>7 DEF EditSave, CInv
    <2> QED
      BY <1>7, <2>1, <2>2, CSave DEF EditSave
  <1>8. ASSUME NEW c \in ContentIds, RemoveContent(c) PROVE CInv'
    <2>1. contents[c] \in Content /\ UNCHANGED request
      BY <1>8 DEF RemoveContent, TypeOK
    <2>2. /\ contents'[c] = [idea |-> contents[c].idea, live |-> FALSE]
          /\ \A d \in ContentIds : d # c => contents'[d] = contents[d]
      BY <1>8, <2>1 DEF RemoveContent, TypeOK, Content
    <2>3. contents'[c] # None
      <3>1. contents[c].idea \in IdeaIds
        BY <2>1 DEF Content
      <3> QED
        BY <2>2, <3>1, MadeIsContent
    <2>4. ContentsKept
      BY <1>8, <2>2, <2>3 DEF ContentsKept, MadeOf, RemoveContent
    <2>5. ASSUME NEW i \in IdeaIds, ideas'[i] # None
          PROVE  /\ Backed(contents', i, ideas'[i])
                 /\ ideas'[i].content # None => contents'[ideas'[i].content].live
      <3>1. ideas[i] # None /\ ideas[i] \in Idea /\ Backed(contents, i, ideas[i])
        BY <1>8, <2>5 DEF RemoveContent, TypeOK, CInv
      <3>2. CASE ideas[i].content = c
        <4>1. ideas'[i].content = None
          BY <1>8, <3>1, <3>2 DEF RemoveContent, Idea
        <4>2. contents[c].idea = i
          BY <1>8, <3>1, <3>2, NullsAssumption DEF Backed, MadeOf
        <4>3. Lost(contents', i)
          BY <2>2, <4>2 DEF Lost
        <4> QED
          BY <4>1, <4>3 DEF Backed
      <3>3. CASE ideas[i].content # c
        <4>1. ideas'[i] = ideas[i]
          BY <1>8, <3>1, <3>3 DEF RemoveContent
        <4>2. Backed(contents', i, ideas'[i])
          BY <2>4, <3>1, <4>1, BackedKept
        <4>3. ideas[i].content # None => contents'[ideas[i].content].live
          BY <2>2, <3>1, <3>3 DEF CInv, Idea
        <4> QED
          BY <4>1, <4>2, <4>3
      <3> QED
        BY <3>2, <3>3
    <2>6. \A q \in Requests :
            /\ At(q, "edit")' => Backed(contents', request'[q].idea, request'[q].row)
            /\ At(q, "mark")' =>
                 request'[q].content # None /\ MadeOf(contents', request'[q].content, request'[q].idea)
      BY <2>1, <2>4, HeldKept
    <2> QED
      BY <2>5, <2>6 DEF CInv
  <1>9. CASE Restart
    BY <1>9 DEF Restart, CInv, At, Backed, MadeOf, Lost
  <1>10. CASE UNCHANGED vars
    BY <1>1, <1>10 DEF vars
  <1> QED
    BY <1>2, <1>3, <1>4, <1>5, <1>6, <1>7, <1>8, <1>9, <1>10 DEF Next, RequestStep

\* Whatever requests on it overlap, an accepted idea points to a standing
\* content made of it, unless a content made of it has been removed.
THEOREM AcceptedIdeaHasContent == Spec => []AcceptedHasContent
  <1>1. TypeOK /\ CInv => AcceptedHasContent
    <2> SUFFICES ASSUME TypeOK, CInv, NEW i \in IdeaIds,
                        ideas[i] # None, ideas[i].status = "ACCEPTED"
                 PROVE  \/ /\ ideas[i].content # None
                           /\ contents[ideas[i].content] = [idea |-> i, live |-> TRUE]
                        \/ Lost(contents, i)
      BY DEF AcceptedHasContent, Lost
    <2>1. ideas[i] \in Idea /\ Backed(contents, i, ideas[i])
      BY DEF TypeOK, CInv
    <2>2. CASE ideas[i].content # None
      <3>1. contents[ideas[i].content] \in Content
        BY <2>1, <2>2 DEF TypeOK, Idea, Backed, MadeOf
      <3>2. contents[ideas[i].content].live /\ contents[ideas[i].content].idea = i
        BY <2>1, <2>2 DEF CInv, Backed, MadeOf
      <3> QED
        BY <2>2, <3>1, <3>2 DEF Content
    <2> QED
      BY <2>1, <2>2 DEF Backed
  <1> QED
    BY <1>1, TypeInit, TypeStep, CInit, CStep, PTL DEF Spec

====
