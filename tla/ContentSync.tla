---- MODULE ContentSync ----
(***************************************************************************)
(* Two-way synchronisation of an agency's rows with its Notion base:       *)
(* notion/notion-sync.service.ts, with what writes the same rows beside it *)
(* (content.service.ts, retention.service.ts) and the people who edit the  *)
(* pages in Notion.                                                        *)
(*                                                                         *)
(* A step is what one asynchronous task does between two awaits.  A task   *)
(* holds entities in memory; repository.save writes back every column of   *)
(* the entity it is given, so an entity read before an await and saved     *)
(* after it overwrites whatever happened in between.                       *)
(*                                                                         *)
(* The title, date and channel of a row or page are one number, the human  *)
(* write they come from: 1 is the first write of the run, on either side.  *)
(***************************************************************************)
EXTENDS Naturals, FiniteSets

CONSTANTS
    Agencies,   \* agencies; each has one Notion workspace, base and token
    Items,      \* row ids
    Pages,      \* Notion page ids
    Pushes,     \* concurrent calls of pushContent, with or without verification
    Pulls,      \* concurrent calls of pullContent
    Updates,    \* concurrent PATCH requests
    Owner,      \* the agency each row, page, push and pull belongs to
    Statuses,   \* the editorial statuses the run tells apart
    Eligible,   \* CALENDAR_ELIGIBLE_STATUSES among them
    NoPage,     \* null notionPageId
    NoItem,     \* a task that holds no entity
    PageSize,   \* pages per answer of a Notion query
    MaxWrites,  \* bound on human writes
    MaxStamp    \* bound on the last_edited_time of a page

ASSUME OwnerAssumption ==
    Owner \in [Items \cup Pages \cup Pushes \cup Pulls -> Agencies]
ASSUME StatusAssumption == Eligible \subseteq Statuses
ASSUME BoundAssumption ==
    PageSize \in Nat \ {0} /\ MaxWrites \in Nat /\ MaxStamp \in Nat \ {0}

VARIABLES
    content,    \* the rows of content_items
    removed,    \* ids of deleted rows: a uuid is never given twice
    notion,     \* the pages of every workspace
    push,       \* the push tasks
    pull,       \* the pull tasks
    update,     \* the entity each PATCH request has loaded
    writes      \* how many human writes there have been

vars == <<content, removed, notion, push, pull, update, writes>>

SyncStatuses == {"PENDING", "SYNCED", "CONFLICT", "ERROR"}

\* A null notionLastEditedAt is 0: the first stamp of a page is 1.
Row == [id : Items, status : Statuses, syncStatus : SyncStatuses,
        notionPageId : Pages \cup {NoPage}, notionLastEditedAt : Nat, data : Nat]

Page == [state : {"unused", "live", "trash", "gone"}, lastEdited : Nat, data : Nat]

\* What Notion answers about a page.
NotionPage == [id : Pages, lastEdited : Nat, data : Nat]

PushTask ==
    [pc : {"idle", "token", "verify", "forget", "find", "resolve",
           "call", "body", "save", "rescue", "stop"},
     queue : SUBSET Row, item : Row \cup {NoItem}, stamp : Nat]

PullTask ==
    [pc : {"idle", "query", "page", "save", "insert"},
     seen : SUBSET NotionPage, item : Row \cup {NoItem}]

ASSUME NullAssumption == NoPage \notin Pages /\ NoItem \notin Row

TypeOK ==
    /\ content \subseteq Row
    /\ removed \subseteq Items
    /\ notion \in [Pages -> Page]
    /\ push \in [Pushes -> PushTask]
    /\ pull \in [Pulls -> PullTask]
    /\ update \in [Updates -> Row \cup {NoItem}]
    /\ writes \in Nat

PushIdle == [pc |-> "idle", queue |-> {}, item |-> NoItem, stamp |-> 0]
PullIdle == [pc |-> "idle", seen |-> {}, item |-> NoItem]

Init ==
    /\ content = {}
    /\ removed = {}
    /\ notion = [p \in Pages |-> [state |-> "unused", lastEdited |-> 0, data |-> 0]]
    /\ push = [j \in Pushes |-> PushIdle]
    /\ pull = [l \in Pulls |-> PullIdle]
    /\ update = [u \in Updates |-> NoItem]
    /\ writes = 0

-----------------------------------------------------------------------------
(* The table.                                                              *)

IsEligible(e) == e.status \in Eligible

\* repository.save of a loaded entity.  An id that is gone becomes an INSERT
\* without its agency, a column that is NOT NULL; a page id another row holds
\* breaks the unique index.  Both throw.
NeverTaken(e) == FALSE    \* wrong on purpose: no unique index
PointerTaken(e) ==
    \E r \in content : r.id # e.id /\ r.notionPageId = e.notionPageId
                                   /\ e.notionPageId # NoPage
Rejected(e) == PointerTaken(e) \/ \A r \in content : r.id # e.id
Stored(e) == {r \in content : r.id # e.id} \cup {e}

FreshId(i) ==
    /\ i \notin removed
    /\ \A r \in content : r.id # i
    /\ \A l \in Pulls : pull[l].pc = "insert" => pull[l].item.id # i

-----------------------------------------------------------------------------
(* The application: ContentService and RetentionService.                   *)

\* The push an eligible create or update fires is PushFind, which may begin
\* at any time.
Create(i, s) ==
    /\ FreshId(i)
    /\ writes < MaxWrites
    /\ writes' = writes + 1
    /\ content' = content \cup
        {[id |-> i, status |-> s, syncStatus |-> "PENDING", notionPageId |-> NoPage,
          notionLastEditedAt |-> 0, data |-> writes']}
    /\ UNCHANGED <<removed, notion, push, pull, update>>

UpdateRead(u, r) ==
    /\ update[u] = NoItem
    /\ update' = [update EXCEPT ![u] = r]
    /\ UNCHANGED <<content, removed, notion, push, pull, writes>>

\* The fields Notion also holds may be left as they were (same data) or
\* rewritten (a new human write).
Patched(e, s, rewrite) ==
    [e EXCEPT !.status = s, !.syncStatus = "PENDING",
              !.data = IF rewrite THEN writes + 1 ELSE @]

UpdateSave(u, s, rewrite) ==
    LET e == Patched(update[u], s, rewrite)
    IN /\ update[u] # NoItem
       /\ rewrite => writes < MaxWrites
       /\ writes' = IF rewrite THEN writes + 1 ELSE writes
       /\ content' = IF Rejected(e) THEN content ELSE Stored(e)
       /\ update' = [update EXCEPT ![u] = NoItem]
       /\ UNCHANGED <<removed, notion, push, pull>>

Remove(r) ==
    /\ content' = content \ {r}
    /\ removed' = removed \cup {r.id}
    /\ UNCHANGED <<notion, push, pull, update, writes>>

\* Which rows are older than the cutoff is left open.
Purgeable == {r \in content : r.syncStatus = "SYNCED"}
PurgeExpired(old) ==
    /\ old # {}
    /\ content' = content \ old
    /\ removed' = removed \cup {r.id : r \in old}
    /\ UNCHANGED <<notion, push, pull, update, writes>>

-----------------------------------------------------------------------------
(* Notion, external.  Every change of a page takes a later stamp.          *)

CanTouch(p) == notion[p].lastEdited < MaxStamp
VisibleTo(t, p) == Owner[p] = Owner[t] /\ notion[p].state \in {"live", "trash"}

SetPage(p, state, data) ==
    /\ CanTouch(p)
    /\ notion' = [notion EXCEPT ![p] =
                    [state |-> state, data |-> data, lastEdited |-> @.lastEdited + 1]]

\* A person creates a page in the base or edits one.
NotionWrite(p) ==
    /\ notion[p].state \in {"unused", "live"}
    /\ writes < MaxWrites
    /\ writes' = writes + 1
    /\ SetPage(p, "live", writes')
    /\ UNCHANGED <<content, removed, push, pull, update>>

NotionTrash(p) ==
    /\ notion[p].state = "live"
    /\ SetPage(p, "trash", notion[p].data)
    /\ UNCHANGED <<content, removed, push, pull, update, writes>>

NotionRestore(p) ==
    /\ notion[p].state = "trash"
    /\ SetPage(p, "live", notion[p].data)
    /\ UNCHANGED <<content, removed, push, pull, update, writes>>

NotionDelete(p) ==
    /\ notion[p].state = "trash"
    /\ notion' = [notion EXCEPT ![p].state = "gone"]
    /\ UNCHANGED <<content, removed, push, pull, update, writes>>

-----------------------------------------------------------------------------
(* Entities as the synchronisation leaves them, before they are saved.     *)

\* The variants marked wrong replace the definition after them to show that a
\* property can fail.
MarkedNow(e, p, stamp) ==     \* wrong: the clock of the application, later than the page
    [e EXCEPT !.notionPageId = p, !.notionLastEditedAt = stamp + 1, !.syncStatus = "SYNCED"]
MarkSynced(e, p, stamp) ==
    [e EXCEPT !.notionPageId = p, !.notionLastEditedAt = stamp, !.syncStatus = "SYNCED"]
Archived(e) ==
    [e EXCEPT !.notionPageId = NoPage, !.notionLastEditedAt = 0, !.syncStatus = "SYNCED"]
FailedUnknown(e) == [e EXCEPT !.syncStatus = "FAILED"]   \* wrong: not in the enum
Failed(e) == [e EXCEPT !.syncStatus = "ERROR"]
StillSynced(e) ==             \* wrong: the status is not put back to PENDING
    [e EXCEPT !.notionPageId = NoPage, !.notionLastEditedAt = 0]
Forgotten(e) ==
    [e EXCEPT !.notionPageId = NoPage, !.notionLastEditedAt = 0, !.syncStatus = "PENDING"]

-----------------------------------------------------------------------------
(* Push: pushContent and pushEntities.                                     *)

Pushable(e) ==
    /\ e.syncStatus \in {"PENDING", "ERROR"}
    /\ IsEligible(e) \/ e.notionPageId # NoPage

SetPush(j, task) ==
    /\ push' = [push EXCEPT ![j] = task]
    /\ UNCHANGED <<removed, pull, update, writes>>

\* The task after its current item: the next of the loop, or the end.
NextItem(queue) ==
    IF queue = {} THEN PushIdle
    ELSE [pc |-> "call", queue |-> queue, item |-> NoItem, stamp |-> 0]

\* The find has no condition on the agency.
PushFind(j) ==
    /\ push[j].pc \in {"idle", "find"}
    /\ SetPush(j, [PushIdle EXCEPT !.pc = "resolve",
                                   !.queue = {r \in content : Pushable(r)}])
    /\ UNCHANGED <<content, notion>>

\* The base id and the token are resolved after the find, or throw.
PushResolve(j) ==
    /\ push[j].pc = "resolve"
    /\ \/ SetPush(j, NextItem(push[j].queue))
       \/ SetPush(j, PushIdle)
    /\ UNCHANGED <<content, notion>>

\* The task once Notion has answered about e: what it saves, and where.
AnsweredAgain(j, e, pc, item) ==    \* wrong: the item stays in the loop
    SetPush(j, [pc |-> pc, queue |-> push[j].queue, item |-> item, stamp |-> 0])
Answered(j, e, pc, item) ==
    SetPush(j, [pc |-> pc, queue |-> push[j].queue \ {e}, item |-> item, stamp |-> 0])

\* What the request for e does in Notion: createPage in the base of the task's
\* agency, updatePage, or archivePage.
TakesEffect(j, e, p) ==
    \/ /\ IsEligible(e) /\ e.notionPageId = NoPage
       /\ notion[p].state = "unused" /\ Owner[p] = Owner[j]
       /\ SetPage(p, "live", e.data)
    \/ /\ IsEligible(e) /\ e.notionPageId = p
       /\ VisibleTo(j, p) /\ notion[p].state = "live"
       /\ SetPage(p, "live", e.data)
    \/ /\ ~IsEligible(e) /\ e.notionPageId = p
       /\ VisibleTo(j, p)
       /\ SetPage(p, "trash", notion[p].data)

\* The answer arrives.  An update of an item that has a body is followed by
\* setPageContent; whether it has one is left open.
PushCall(j, e, p) ==
    /\ push[j].pc = "call"
    /\ TakesEffect(j, e, p)
    /\ \/ /\ IsEligible(e)
          /\ Answered(j, e, "save", MarkSynced(e, p, notion'[p].lastEdited))
       \/ /\ IsEligible(e) /\ e.notionPageId # NoPage
          /\ SetPush(j, [pc |-> "body", queue |-> push[j].queue \ {e}, item |-> e,
                         stamp |-> notion'[p].lastEdited])
       \/ ~IsEligible(e) /\ Answered(j, e, "save", Archived(e))
    /\ UNCHANGED content

\* The request took effect and its answer was lost (a timeout).
PushCallLost(j, e, p) ==
    /\ push[j].pc = "call"
    /\ TakesEffect(j, e, p)
    /\ Answered(j, e, "rescue", Failed(e))
    /\ UNCHANGED content

\* Refused: UNAUTHORIZED ends the loop, any other error goes to the next item.
PushCallRefused(j, e) ==
    /\ push[j].pc = "call"
    /\ \E pc \in {"rescue", "stop"} : Answered(j, e, pc, Failed(e))
    /\ UNCHANGED <<content, notion>>

\* NOT_FOUND: archiving counts as done, an update forgets the pointer.
PushCallNotFound(j, e) ==
    /\ push[j].pc = "call"
    /\ e.notionPageId # NoPage
    /\ ~VisibleTo(j, e.notionPageId)
    /\ IF IsEligible(e) THEN Answered(j, e, "rescue", Forgotten(e))
                        ELSE Answered(j, e, "save", Archived(e))
    /\ UNCHANGED <<content, notion>>

\* setPageContent writes the page again, after its stamp was read.
PushBody(j) ==
    LET e == push[j].item
        p == e.notionPageId
    IN /\ push[j].pc = "body"
       /\ \/ /\ VisibleTo(j, p) /\ notion[p].state = "live"
             /\ SetPage(p, "live", notion[p].data)
             /\ \/ Answered(j, e, "save", MarkSynced(e, p, push[j].stamp))
                \/ Answered(j, e, "rescue", Failed(e))
          \/ /\ UNCHANGED notion
             /\ \/ \E pc \in {"rescue", "stop"} : Answered(j, e, pc, Failed(e))
                \/ ~VisibleTo(j, p) /\ Answered(j, e, "rescue", Forgotten(e))
       /\ UNCHANGED content

\* The save inside the try.  If it throws, the catch saves the item as ERROR.
PushSave(j) ==
    LET e == push[j].item
    IN /\ push[j].pc = "save"
       /\ IF Rejected(e)
          THEN /\ Answered(j, e, "rescue", Failed(e))
               /\ UNCHANGED content
          ELSE /\ content' = Stored(e)
               /\ SetPush(j, NextItem(push[j].queue))
       /\ UNCHANGED notion

\* The save inside the catch.  If it throws, the rest of the loop is abandoned.
PushRescue(j) ==
    LET e == push[j].item
    IN /\ push[j].pc \in {"rescue", "stop"}
       /\ content' = IF Rejected(e) THEN content ELSE Stored(e)
       /\ SetPush(j, IF Rejected(e) \/ push[j].pc = "stop" THEN PushIdle
                     ELSE NextItem(push[j].queue))
       /\ UNCHANGED notion

-----------------------------------------------------------------------------
(* pushContentWithVerification: verifyContentPresence, then pushContent.   *)

NextCheck(queue) ==
    [PushIdle EXCEPT !.pc = IF queue = {} THEN "find" ELSE "verify", !.queue = queue]

VerifyFind(j) ==
    LET linked == {r \in content : IsEligible(r) /\ r.notionPageId # NoPage}
    IN /\ push[j].pc = "idle"
       /\ linked # {}
       /\ SetPush(j, [PushIdle EXCEPT !.pc = "token", !.queue = linked])
       /\ UNCHANGED <<content, notion>>

VerifyToken(j) ==
    /\ push[j].pc = "token"
    /\ \/ SetPush(j, NextCheck(push[j].queue))
       \/ SetPush(j, PushIdle)
    /\ UNCHANGED <<content, notion>>

\* retrievePage: a page in the trash or not found will be created again.  A
\* page that is there, or a passing error, changes nothing.
VerifyPage(j, e) ==
    /\ push[j].pc = "verify"
    /\ \/ /\ ~VisibleTo(j, e.notionPageId) \/ notion[e.notionPageId].state = "trash"
          /\ Answered(j, e, "forget", Forgotten(e))
       \/ SetPush(j, NextCheck(push[j].queue \ {e}))
       \/ SetPush(j, NextCheck({}))    \* UNAUTHORIZED
    /\ UNCHANGED <<content, notion>>

VerifySave(j) ==
    LET e == push[j].item
    IN /\ push[j].pc = "forget"
       /\ content' = IF Rejected(e) THEN content ELSE Stored(e)
       /\ SetPush(j, IF Rejected(e) THEN PushIdle ELSE NextCheck(push[j].queue))
       /\ UNCHANGED notion

-----------------------------------------------------------------------------
(* Pull: pullContent and pullItems.                                        *)

SetPull(l, task) ==
    /\ pull' = [pull EXCEPT ![l] = task]
    /\ UNCHANGED <<removed, notion, push, update, writes>>

NextPage(seen) ==
    IF seen = {} THEN PullIdle ELSE [pc |-> "page", seen |-> seen, item |-> NoItem]

PullStart(l) ==
    /\ pull[l].pc = "idle"
    /\ SetPull(l, [PullIdle EXCEPT !.pc = "query"])
    /\ UNCHANGED content

\* fetchAllPages: one answer of the paginated query, or the failure that ends
\* the pull.
Listed(l) ==
    {p \in Pages : /\ Owner[p] = Owner[l] /\ notion[p].state = "live"
                   /\ \A q \in pull[l].seen : q.id # p}
Answer(p) == [id |-> p, lastEdited |-> notion[p].lastEdited, data |-> notion[p].data]

PullQuery(l) ==
    /\ pull[l].pc = "query"
    /\ \/ \E batch \in SUBSET Listed(l) :
            LET seen == pull[l].seen \cup {Answer(p) : p \in batch}
            IN /\ Cardinality(batch) <= PageSize
               /\ batch = {} => Listed(l) = {}
               /\ SetPull(l, IF batch = Listed(l) THEN NextPage(seen)
                             ELSE [pull[l] EXCEPT !.seen = seen])
       \/ SetPull(l, PullIdle)
    /\ UNCHANGED content

\* applyRemoteUpdate.  Whether updatedAt is after lastSyncedAt compares a clock
\* of the application with one of the database: it is left open.
UpToDate(r, q) == r.notionLastEditedAt # 0 /\ q.lastEdited <= r.notionLastEditedAt
Pulled(r, q, syncStatus) ==
    [r EXCEPT !.data = q.data, !.notionPageId = q.id,
              !.notionLastEditedAt = q.lastEdited, !.syncStatus = syncStatus]

\* findOne by page id, in any agency.
PullKnown(l, q, r) ==
    /\ pull[l].pc = "page"
    /\ r.notionPageId = q.id
    /\ IF UpToDate(r, q)
       THEN SetPull(l, NextPage(pull[l].seen \ {q}))
       ELSE \E s \in {"SYNCED", "CONFLICT"} :
              SetPull(l, [pc |-> "save", seen |-> pull[l].seen \ {q},
                          item |-> Pulled(r, q, s)])
    /\ UNCHANGED content

\* applyRemoteCreation.  The status depends on the date of the page.
PullNew(l, q, i, s) ==
    /\ pull[l].pc = "page"
    /\ \A r \in content : r.notionPageId # q.id
    /\ FreshId(i) /\ Owner[i] = Owner[l]
    /\ SetPull(l, [pc |-> "insert", seen |-> pull[l].seen \ {q},
                   item |-> [id |-> i, status |-> s, syncStatus |-> "SYNCED",
                             notionPageId |-> q.id, notionLastEditedAt |-> q.lastEdited,
                             data |-> q.data]])
    /\ UNCHANGED content

\* A save that throws is counted as an error: the loop goes on.
PullSave(l) ==
    LET e == pull[l].item
    IN /\ pull[l].pc = "save"
       /\ content' = IF Rejected(e) THEN content ELSE Stored(e)
       /\ SetPull(l, NextPage(pull[l].seen))

PullInsert(l) ==
    LET e == pull[l].item
    IN /\ pull[l].pc = "insert"
       /\ content' = IF PointerTaken(e) THEN content ELSE content \cup {e}
       /\ SetPull(l, NextPage(pull[l].seen))

-----------------------------------------------------------------------------
\* The process stops and starts again: tasks are lost, rows and pages stay.
Restart ==
    /\ push' = [j \in Pushes |-> PushIdle]
    /\ pull' = [l \in Pulls |-> PullIdle]
    /\ update' = [u \in Updates |-> NoItem]
    /\ UNCHANGED <<content, removed, notion, writes>>

App ==
    \/ \E i \in Items, s \in Statuses : Create(i, s)
    \/ \E u \in Updates, r \in content : UpdateRead(u, r)
    \/ \E u \in Updates, s \in Statuses, b \in BOOLEAN : UpdateSave(u, s, b)
    \/ \E r \in content : Remove(r)
    \/ \E old \in SUBSET Purgeable : PurgeExpired(old)

People ==
    \E p \in Pages :
        NotionWrite(p) \/ NotionTrash(p) \/ NotionRestore(p) \/ NotionDelete(p)

Push(j) ==
    \/ PushFind(j) \/ PushResolve(j) \/ PushBody(j) \/ PushSave(j) \/ PushRescue(j)
    \/ \E e \in push[j].queue :
        \/ \E p \in Pages : PushCall(j, e, p) \/ PushCallLost(j, e, p)
        \/ PushCallRefused(j, e) \/ PushCallNotFound(j, e)
        \/ VerifyPage(j, e)
    \/ VerifyFind(j) \/ VerifyToken(j) \/ VerifySave(j)

Pull(l) ==
    \/ PullStart(l) \/ PullQuery(l) \/ PullSave(l) \/ PullInsert(l)
    \/ \E q \in pull[l].seen :
        \/ \E r \in content : PullKnown(l, q, r)
        \/ \E i \in Items, s \in Statuses : PullNew(l, q, i, s)

Next ==
    \/ App \/ People \/ Restart
    \/ \E j \in Pushes : Push(j)
    \/ \E l \in Pulls : Pull(l)

Spec == Init /\ [][Next]_vars

\* The cron task pushes again and again, a push runs to its end, and some time
\* the base is found.
PushFairness ==
    \A j \in Pushes :
        /\ WF_vars(Push(j))
        /\ SF_vars(PushResolve(j) /\ push'[j] = NextItem(push[j].queue))

\* A Notion that is up now and then: an item that is sent again and again is let
\* through again and again, and so is its body.
LetThrough(j, i) ==
    \E e \in push[j].queue :
        /\ e.id = i
        /\ PushCallNotFound(j, e) \/ \E p \in Pages : PushCall(j, e, p)
Sent(j, i) ==
    \/ LetThrough(j, i)
    \/ \E e \in push[j].queue :
        /\ e.id = i
        /\ PushCallRefused(j, e) \/ \E p \in Pages : PushCallLost(j, e, p)
BodySent(j, i) == push[j].item # NoItem /\ push[j].item.id = i /\ PushBody(j)
ItemFairness(i) ==
    \A j \in Pushes :
        /\ []<><<Sent(j, i)>>_vars => []<><<LetThrough(j, i)>>_vars
        /\ []<><<BodySent(j, i)>>_vars => []<><<BodySent(j, i) /\ push'[j].pc = "save">>_vars

-----------------------------------------------------------------------------
(* Properties.                                                             *)

\* A row that claims to be in step with its page (SYNCED or CONFLICT) agrees
\* with it, or the page carries a later stamp than the one the row recorded:
\* applyRemoteUpdate never skips a remote change for good.  No interleaving of
\* pushes, pulls, updates, lost answers and restarts hides an edit made in Notion.
InStep(r) == r.syncStatus \in {"SYNCED", "CONFLICT"}
Agrees(r) ==
    LET page == notion[r.notionPageId]
    IN /\ r.notionLastEditedAt <= page.lastEdited
       /\ r.notionLastEditedAt = page.lastEdited => r.data = page.data
RemoteEditsVisible ==
    \A r \in content : InStep(r) /\ r.notionPageId # NoPage => Agrees(r)

\* A planned content that claims to be in step has a page: nothing on the
\* calendar is marked SYNCED without being in Notion, where no push would look
\* at it again.
PlannedHasPage ==
    \A r \in content : InStep(r) /\ IsEligible(r) => r.notionPageId # NoPage

\* A Notion page is one row, whatever pull and push do with it at once.
OneRowPerPage ==
    \A r, s \in content :
        \/ r = s
        \/ /\ r.id # s.id
           /\ r.notionPageId = s.notionPageId => r.notionPageId = NoPage

\* A planned content does not wait for ever: from the time when nothing but
\* automatic pushes goes on, with a valid token and without a stop of the process,
\* they bring every PENDING or ERROR row into step, after whatever failed, was lost
\* or was deleted in Notion before, and though the other items fail for ever.  A page
\* left in the trash is excepted (its update is refused each time), and a page the
\* bounds of the model exhaust.
Waiting(r) ==
    /\ IsEligible(r) /\ ~InStep(r)
    /\ \/ r.notionPageId = NoPage /\ \E p \in Pages : notion[p].state = "unused"
       \/ /\ r.notionPageId # NoPage /\ notion[r.notionPageId].state # "trash"
          /\ notion[r.notionPageId].state = "live"
             => notion[r.notionPageId].lastEdited + 2 <= MaxStamp
LeftAlone ==
    \E j \in Pushes :
        Push(j) /\ ~VerifyFind(j) /\ push'[j].pc # "stop"     \* UNAUTHORIZED
PlannedReachesNotion ==
    <>[][LeftAlone]_vars =>
        \A i \in Items :
            ItemFairness(i) => []<>~\E r \in content : r.id = i /\ Waiting(r)

\* A save takes nothing back, as long as no two tasks hold the same row: what a
\* PATCH or a push is about to save, or to send, is the row as it stands but for
\* the columns it has set itself, and a pull leaves the status alone.
Holding(i) ==
    {<<"push", j>> : j \in {j \in Pushes :
        \/ \E e \in push[j].queue : e.id = i
        \/ push[j].item # NoItem /\ push[j].item.id = i}}
    \cup {<<"pull", l>> : l \in {l \in Pulls : pull[l].item # NoItem /\ pull[l].item.id = i}}
    \cup {<<"update", u>> : u \in {u \in Updates : update[u] # NoItem /\ update[u].id = i}}
RowsHeldApart == \A i \in Items : \A x, y \in Holding(i) : x = y

Exact(rows, e) == \A r \in rows : r.id = e.id => r = e
SameWriting(rows, e) ==
    \A r \in rows : r.id = e.id => r.data = e.data /\ r.status = e.status
SameStatus(rows, e) == \A r \in rows : r.id = e.id => r.status = e.status
RowsHeldCurrent ==
    /\ \A u \in Updates : update[u] # NoItem => Exact(content, update[u])
    /\ \A j \in Pushes :
        /\ \A e \in push[j].queue : Exact(content, e)
        /\ push[j].item # NoItem => SameWriting(content, push[j].item)
    /\ \A l \in Pulls : pull[l].item # NoItem => SameStatus(content, pull[l].item)
SerialTasksKeepRows == []RowsHeldApart => []RowsHeldCurrent

(* The next three state what comments of the repository promise, and do not  *)
(* hold.                                                                     *)

\* "Toute creation ou modification repasse l'element en PENDING : c'est ce qui
\* declenchera son export" (content.service.ts:16): saving the outcome of an
\* export does not take back what the application wrote meanwhile.
PushKeepsEdits ==
    [][\A j \in Pushes : PushSave(j) =>
        \A r \in content, s \in content' :
            r.id = s.id => s.data = r.data /\ s.status = r.status]_vars

\* The purge takes what is "deja archive dans Notion (SYNCED)"
\* (retention.service.ts:18): a page holds the data of such a row, or a later
\* write.
PurgeableIsInNotion ==
    \A r \in Purgeable :
        \E p \in Pages : notion[p].state # "unused" /\ notion[p].data >= r.data

\* "chaque agence pointe ainsi vers ses propres bases"
\* (notion-sync.service.ts:493): the page of a row is in its agency's base.
PagesStayInBase ==
    \A r \in content : r.notionPageId # NoPage => Owner[r.notionPageId] = Owner[r.id]
====
