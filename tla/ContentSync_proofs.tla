---- MODULE ContentSync_proofs ----
(***************************************************************************)
(* Proofs about ContentSync, for every value of its constants.             *)
(***************************************************************************)
EXTENDS ContentSync, TLAPS

-----------------------------------------------------------------------------
(* The inductive invariant.  RemoteEditsVisible speaks of rows alone; what a *)
(* task will save later must already agree with Notion as the rows do.  The  *)
(* pages are a parameter n, so that one lemma says what a step of Notion     *)
(* preserves.                                                                *)

Mirrors(n, p, stamp, data) ==
    /\ stamp <= n[p].lastEdited
    /\ stamp = n[p].lastEdited => data = n[p].data

Sound(n, e) ==
    InStep(e) =>
        /\ e.notionPageId # NoPage =>
               Mirrors(n, e.notionPageId, e.notionLastEditedAt, e.data)
        /\ IsEligible(e) => e.notionPageId # NoPage

PushSound(n, t) ==
    /\ t \in PushTask
    /\ t.pc \in {"body", "save", "rescue", "stop", "forget"} => t.item \in Row
    /\ t.pc = "save" => Sound(n, t.item)
    /\ t.pc \in {"rescue", "stop", "forget"} => ~InStep(t.item)
    /\ t.pc = "body" =>
           /\ t.item.notionPageId \in Pages
           /\ Mirrors(n, t.item.notionPageId, t.stamp, t.item.data)

PullSound(n, t) ==
    /\ t \in PullTask
    /\ \A q \in t.seen : Mirrors(n, q.id, q.lastEdited, q.data)
    /\ t.pc \in {"save", "insert"} => t.item \in Row /\ Sound(n, t.item)

ContentSound(n, rows) == rows \subseteq Row /\ \A r \in rows : Sound(n, r)
PushesSound(n, tasks) ==
    tasks \in [Pushes -> PushTask] /\ \A j \in Pushes : PushSound(n, tasks[j])
PullsSound(n, tasks) ==
    tasks \in [Pulls -> PullTask] /\ \A l \in Pulls : PullSound(n, tasks[l])

IInv ==
    /\ TypeOK
    /\ ContentSound(notion, content)
    /\ PushesSound(notion, push)
    /\ PullsSound(notion, pull)

\* Between two states of Notion every page stays as it was or takes a later stamp.
Newer(n, m) ==
    \A p \in Pages :
        \/ n[p].lastEdited < m[p].lastEdited
        \/ n[p].lastEdited = m[p].lastEdited /\ n[p].data = m[p].data

-----------------------------------------------------------------------------
(* What a step of Notion preserves.                                          *)

\* What mirrored a page still does after any steps of Notion.
LEMMA MirrorsKept ==
    ASSUME NEW n \in [Pages -> Page], NEW m \in [Pages -> Page], Newer(n, m),
           NEW p \in Pages, NEW stamp \in Nat, NEW data, Mirrors(n, p, stamp, data)
    PROVE  Mirrors(m, p, stamp, data)
  <1>1. n[p] \in Page /\ m[p] \in Page
    OBVIOUS
  <1>2. n[p].lastEdited \in Nat /\ m[p].lastEdited \in Nat
    BY <1>1 DEF Page
  <1> QED
    BY <1>2 DEF Mirrors, Newer

\* So does every entity that claims to be in step.
LEMMA SoundKept ==
    ASSUME NEW n \in [Pages -> Page], NEW m \in [Pages -> Page], Newer(n, m),
           NEW e \in Row, Sound(n, e)
    PROVE  Sound(m, e)
  BY MirrorsKept DEF Sound, Row

\* And everything the rows and the tasks hold.
LEMMA ContentKept ==
    ASSUME NEW n \in [Pages -> Page], NEW m \in [Pages -> Page], Newer(n, m),
           NEW rows, ContentSound(n, rows)
    PROVE  ContentSound(m, rows)
  BY SoundKept DEF ContentSound

LEMMA PushKept ==
    ASSUME NEW n \in [Pages -> Page], NEW m \in [Pages -> Page], Newer(n, m),
           NEW t, PushSound(n, t)
    PROVE  PushSound(m, t)
  <1>1. t \in PushTask
    BY DEF PushSound
  <1>2. t.pc = "save" => Sound(m, t.item)
    BY SoundKept DEF PushSound
  <1>3. t.pc = "body" => Mirrors(m, t.item.notionPageId, t.stamp, t.item.data)
    BY <1>1, MirrorsKept DEF PushSound, PushTask
  <1> QED
    BY <1>1, <1>2, <1>3 DEF PushSound

LEMMA PullKept ==
    ASSUME NEW n \in [Pages -> Page], NEW m \in [Pages -> Page], Newer(n, m),
           NEW t, PullSound(n, t)
    PROVE  PullSound(m, t)
  <1>1. t \in PullTask
    BY DEF PullSound
  <1>2. ASSUME NEW q \in t.seen
        PROVE  Mirrors(m, q.id, q.lastEdited, q.data)
    <2>1. q \in NotionPage
      BY <1>1 DEF PullTask
    <2>2. q.id \in Pages /\ q.lastEdited \in Nat
      BY <2>1 DEF NotionPage
    <2> QED
      BY <2>2, MirrorsKept DEF PullSound
  <1>3. t.pc \in {"save", "insert"} => Sound(m, t.item)
    BY SoundKept DEF PullSound
  <1> QED
    BY <1>1, <1>2, <1>3 DEF PullSound

LEMMA AllKept ==
    ASSUME NEW n \in [Pages -> Page], NEW m \in [Pages -> Page], Newer(n, m),
           NEW rows, ContentSound(n, rows), NEW ps, PushesSound(n, ps),
           NEW ls, PullsSound(n, ls)
    PROVE  ContentSound(m, rows) /\ PushesSound(m, ps) /\ PullsSound(m, ls)
  BY ContentKept, PushKept, PullKept DEF PushesSound, PullsSound

-----------------------------------------------------------------------------
(* The operators the actions are built from.                                 *)

LEMMA SetPageNewer ==
    ASSUME notion \in [Pages -> Page], NEW p \in Pages, NEW state \in {"live", "trash"},
           NEW data \in Nat, SetPage(p, state, data)
    PROVE  /\ notion' \in [Pages -> Page]
           /\ Newer(notion, notion')
           /\ notion'[p].lastEdited \in Nat
           /\ notion'[p].data = data
  <1>1. notion[p] \in Page /\ notion[p].lastEdited \in Nat
    BY DEF Page
  <1>2. notion'[p] = [state |-> state, data |-> data, lastEdited |-> notion[p].lastEdited + 1]
    BY DEF SetPage
  <1>3. \A q \in Pages : q # p => notion'[q] = notion[q]
    BY DEF SetPage
  <1>4. notion'[p] \in Page
    BY <1>1, <1>2 DEF Page
  <1>5. notion' \in [Pages -> Page]
    BY <1>4 DEF SetPage, Page
  <1>6. Newer(notion, notion')
    BY <1>1, <1>2, <1>3 DEF Newer
  <1> QED
    BY <1>1, <1>2, <1>5, <1>6

LEMMA NewerSame ==
    ASSUME notion \in [Pages -> Page], UNCHANGED notion
    PROVE  notion' \in [Pages -> Page] /\ Newer(notion, notion')
  BY DEF Newer

\* What the synchronisation makes of an entity is an entity, and claims to be in
\* step only where it should.
LEMMA EntityTypes ==
    ASSUME NEW e \in Row
    PROVE  /\ Failed(e) \in Row /\ ~InStep(Failed(e))
           /\ Forgotten(e) \in Row /\ ~InStep(Forgotten(e))
           /\ Archived(e) \in Row /\ Archived(e).notionPageId = NoPage
           /\ Archived(e).status = e.status
  BY DEF Row, SyncStatuses, Failed, Forgotten, Archived, InStep

LEMMA PatchedType ==
    ASSUME NEW e \in Row, NEW s \in Statuses, NEW b \in BOOLEAN, writes \in Nat
    PROVE  Patched(e, s, b) \in Row /\ ~InStep(Patched(e, s, b))
  <1>1. PICK d \in Nat : d = IF b THEN writes + 1 ELSE e.data
    BY DEF Row
  <1>2. Patched(e, s, b) = [e EXCEPT !.status = s, !.syncStatus = "PENDING", !.data = d]
    BY <1>1 DEF Patched
  <1> QED
    BY <1>2 DEF Row, SyncStatuses, InStep

LEMMA MarkSyncedType ==
    ASSUME NEW e \in Row, NEW p \in Pages, NEW stamp \in Nat
    PROVE  /\ MarkSynced(e, p, stamp) \in Row
           /\ MarkSynced(e, p, stamp).notionPageId = p
           /\ MarkSynced(e, p, stamp).notionLastEditedAt = stamp
           /\ MarkSynced(e, p, stamp).data = e.data
  BY DEF Row, SyncStatuses, MarkSynced

LEMMA StoredSound ==
    ASSUME NEW n, ContentSound(n, content), NEW e \in Row, Sound(n, e)
    PROVE  ContentSound(n, Stored(e))
  BY DEF ContentSound, Stored

LEMMA NotInStepSound ==
    ASSUME NEW n, NEW e, ~InStep(e)
    PROVE  Sound(n, e)
  BY DEF Sound

\* A save, done or rejected, of a sound entity.
LEMMA SaveSound ==
    ASSUME NEW n, ContentSound(n, content), NEW e \in Row, Sound(n, e),
           content' = IF Rejected(e) THEN content ELSE Stored(e)
    PROVE  ContentSound(n, content')
  <1>1. CASE Rejected(e)
    BY <1>1
  <1>2. CASE ~Rejected(e)
    BY <1>2, StoredSound
  <1> QED
    BY <1>1, <1>2

LEMMA PushIdleSound ==
    ASSUME NEW n PROVE PushSound(n, PushIdle)
  BY DEF PushSound, PushTask, PushIdle

LEMMA NextItemSound ==
    ASSUME NEW n, NEW queue \in SUBSET Row
    PROVE  PushSound(n, NextItem(queue))
  BY PushIdleSound DEF PushSound, PushTask, NextItem

LEMMA NextCheckSound ==
    ASSUME NEW n, NEW queue \in SUBSET Row
    PROVE  PushSound(n, NextCheck(queue))
  BY DEF PushSound, PushTask, NextCheck, PushIdle

LEMMA PullIdleSound ==
    ASSUME NEW n PROVE PullSound(n, PullIdle)
  BY DEF PullSound, PullTask, PullIdle

LEMMA NextPageSound ==
    ASSUME NEW n, NEW seen \in SUBSET NotionPage,
           \A q \in seen : Mirrors(n, q.id, q.lastEdited, q.data)
    PROVE  PullSound(n, NextPage(seen))
  BY PullIdleSound DEF PullSound, PullTask, NextPage

LEMMA SetPushSound ==
    ASSUME NEW n, PushesSound(n, push), NEW j \in Pushes, NEW task, PushSound(n, task),
           SetPush(j, task)
    PROVE  PushesSound(n, push')
  BY DEF PushesSound, PushSound, SetPush

LEMMA SetPullSound ==
    ASSUME NEW n, PullsSound(n, pull), NEW l \in Pulls, NEW task, PullSound(n, task),
           SetPull(l, task)
    PROVE  PullsSound(n, pull')
  BY DEF PullsSound, PullSound, SetPull

-----------------------------------------------------------------------------
(* One lemma for each group of actions.                                      *)

LEMMA InitSound == Init => IInv
  <1> SUFFICES ASSUME Init PROVE IInv
    OBVIOUS
  <1>1. TypeOK
    BY DEF Init, TypeOK, Page, PushTask, PushIdle, PullTask, PullIdle
  <1>2. PushesSound(notion, push)
    BY <1>1, PushIdleSound DEF Init, TypeOK, PushesSound
  <1>3. PullsSound(notion, pull)
    BY <1>1, PullIdleSound DEF Init, TypeOK, PullsSound
  <1> QED
    BY <1>1, <1>2, <1>3 DEF IInv, ContentSound, Init

LEMMA AppStep ==
    ASSUME IInv, App PROVE IInv'
  <1> USE DEF IInv
  <1>1. notion' = notion /\ push' = push /\ pull' = pull
    BY DEF App, Create, UpdateRead, UpdateSave, Remove, PurgeExpired
  <1>2. PushesSound(notion', push') /\ PullsSound(notion', pull')
    BY <1>1
  <1>3. ASSUME NEW i \in Items, NEW s \in Statuses, Create(i, s)
        PROVE  TypeOK' /\ ContentSound(notion', content')
    <2> DEFINE r == [id |-> i, status |-> s, syncStatus |-> "PENDING",
                     notionPageId |-> NoPage, notionLastEditedAt |-> 0, data |-> writes']
    <2>1. writes' \in Nat
      BY <1>3 DEF Create, TypeOK
    <2>2. r \in Row /\ ~InStep(r)
      BY <2>1 DEF Row, SyncStatuses, InStep
    <2>3. content' = content \cup {r}
      BY <1>3 DEF Create
    <2> HIDE DEF r
    <2>4. ContentSound(notion', content')
      BY <1>1, <2>2, <2>3 DEF ContentSound, Sound
    <2> QED
      BY <1>1, <1>3, <2>1, <2>4 DEF Create, TypeOK, ContentSound
  <1>4. ASSUME NEW u \in Updates, NEW r \in content, UpdateRead(u, r)
        PROVE  TypeOK' /\ ContentSound(notion', content')
    BY <1>1, <1>4 DEF UpdateRead, TypeOK
  <1>5. ASSUME NEW u \in Updates, NEW s \in Statuses, NEW b \in BOOLEAN, UpdateSave(u, s, b)
        PROVE  TypeOK' /\ ContentSound(notion', content')
    <2> DEFINE e == Patched(update[u], s, b)
    <2>1. update[u] \in Row
      BY <1>5 DEF UpdateSave, TypeOK
    <2>2. writes \in Nat
      BY DEF TypeOK
    <2>3. e \in Row /\ ~InStep(e)
      BY <2>1, <2>2, PatchedType
    <2>4. content' = IF Rejected(e) THEN content ELSE Stored(e)
      BY <1>5 DEF UpdateSave
    <2> HIDE DEF e
    <2>5. ContentSound(notion', content')
      BY <1>1, <2>3, <2>4, NotInStepSound, SaveSound
    <2>6. writes' \in Nat /\ update' \in [Updates -> Row \cup {NoItem}]
      BY <1>5, <2>2 DEF UpdateSave, TypeOK
    <2> QED
      BY <1>1, <1>5, <2>5, <2>6 DEF UpdateSave, TypeOK, ContentSound
  <1>6. ASSUME NEW r \in content, Remove(r)
        PROVE  TypeOK' /\ ContentSound(notion', content')
    <2>1. r.id \in Items
      BY DEF TypeOK, Row
    <2> QED
      BY <1>1, <1>6, <2>1 DEF Remove, TypeOK, ContentSound
  <1>7. ASSUME NEW old \in SUBSET Purgeable, PurgeExpired(old)
        PROVE  TypeOK' /\ ContentSound(notion', content')
    <2>1. \A r \in old : r.id \in Items
      BY DEF TypeOK, Row, Purgeable
    <2> QED
      BY <1>1, <1>7, <2>1 DEF PurgeExpired, TypeOK, ContentSound
  <1> QED
    BY <1>2, <1>3, <1>4, <1>5, <1>6, <1>7 DEF App

LEMMA PeopleStep ==
    ASSUME IInv, People PROVE IInv'
  <1> USE DEF IInv
  <1>1. PICK p \in Pages :
          NotionWrite(p) \/ NotionTrash(p) \/ NotionRestore(p) \/ NotionDelete(p)
    BY DEF People
  <1>2. UNCHANGED <<content, removed, push, pull, update>> /\ writes' \in Nat
    BY <1>1 DEF NotionWrite, NotionTrash, NotionRestore, NotionDelete, TypeOK
  <1>3. notion \in [Pages -> Page] /\ writes \in Nat /\ notion[p].data \in Nat
    BY DEF TypeOK, Page
  <1>4. notion' \in [Pages -> Page] /\ Newer(notion, notion')
    <2>1. CASE NotionWrite(p)
      BY <1>3, <2>1, SetPageNewer DEF NotionWrite
    <2>2. CASE NotionTrash(p) \/ NotionRestore(p)
      BY <1>3, <2>2, SetPageNewer DEF NotionTrash, NotionRestore
    <2>3. CASE NotionDelete(p)
      BY <1>3, <2>3 DEF NotionDelete, Page, Newer
    <2> QED
      BY <1>1, <2>1, <2>2, <2>3
  <1>5. /\ ContentSound(notion', content)
        /\ PushesSound(notion', push)
        /\ PullsSound(notion', pull)
    BY <1>3, <1>4, AllKept
  <1> QED
    BY <1>2, <1>4, <1>5 DEF TypeOK

\* The request for e, whatever becomes of its answer.
LEMMA TakesEffectNewer ==
    ASSUME TypeOK, NEW j \in Pushes, NEW e \in Row, NEW p \in Pages, TakesEffect(j, e, p)
    PROVE  /\ notion' \in [Pages -> Page]
           /\ Newer(notion, notion')
           /\ IsEligible(e) => /\ notion'[p].lastEdited \in Nat
                               /\ notion'[p].data = e.data
                               /\ e.notionPageId # NoPage => e.notionPageId = p
  <1>1. notion \in [Pages -> Page] /\ notion[p].data \in Nat /\ e.data \in Nat
    BY DEF TypeOK, Page, Row
  <1>2. CASE IsEligible(e)
    BY <1>1, <1>2, SetPageNewer DEF TakesEffect
  <1>3. CASE ~IsEligible(e)
    BY <1>1, <1>3, SetPageNewer DEF TakesEffect
  <1> QED
    BY <1>2, <1>3

\* A push task that moves from sound to sound, with Notion and the rows.
LEMMA PushMoves ==
    ASSUME IInv, notion' \in [Pages -> Page], Newer(notion, notion'),
           NEW j \in Pushes, NEW task, SetPush(j, task), PushSound(notion', task),
           ContentSound(notion', content) => ContentSound(notion', content')
    PROVE  IInv'
  <1>1. notion \in [Pages -> Page]
    BY DEF IInv, TypeOK
  <1>2. /\ ContentSound(notion', content)
        /\ PushesSound(notion', push)
        /\ PullsSound(notion', pull)
    BY <1>1, AllKept DEF IInv
  <1>3. PushesSound(notion', push')
    BY <1>2, SetPushSound
  <1>4. UNCHANGED <<removed, pull, update, writes>>
    BY DEF SetPush
  <1> QED
    BY <1>2, <1>3, <1>4 DEF IInv, TypeOK, ContentSound, PushesSound

LEMMA AnsweredSound ==
    ASSUME NEW n, NEW j \in Pushes, push[j] \in PushTask, NEW e, NEW item \in Row,
           NEW pc \in {"save", "rescue", "stop", "forget"},
           pc = "save" => Sound(n, item),
           pc # "save" => ~InStep(item)
    PROVE  PushSound(n, [pc |-> pc, queue |-> push[j].queue \ {e}, item |-> item, stamp |-> 0])
  BY DEF PushSound, PushTask

LEMMA PushStep ==
    ASSUME IInv, NEW j \in Pushes, Push(j) PROVE IInv'
  <1>1. /\ notion \in [Pages -> Page] /\ content \subseteq Row
        /\ push[j] \in PushTask /\ push[j].queue \subseteq Row
        /\ PushSound(notion, push[j])
    BY DEF IInv, TypeOK, PushesSound, PushTask
  <1>2. UNCHANGED notion => notion' \in [Pages -> Page] /\ Newer(notion, notion')
    BY <1>1, NewerSame
  <1>3. CASE PushFind(j)
    <2> DEFINE task == [PushIdle EXCEPT !.pc = "resolve",
                                        !.queue = {r \in content : Pushable(r)}]
    <2>1. PushSound(notion', task)
      BY <1>1 DEF PushSound, PushTask, PushIdle
    <2>2. SetPush(j, task) /\ UNCHANGED <<content, notion>>
      BY <1>3 DEF PushFind
    <2> HIDE DEF task
    <2> QED
      BY <1>2, <2>1, <2>2, PushMoves
  <1>4. CASE PushResolve(j)
    <2>1. PushSound(notion', NextItem(push[j].queue)) /\ PushSound(notion', PushIdle)
      BY <1>1, NextItemSound, PushIdleSound
    <2> QED
      BY <1>2, <1>4, <2>1, PushMoves DEF PushResolve
  <1>5. ASSUME NEW e \in push[j].queue, NEW p \in Pages, PushCall(j, e, p)
        PROVE  IInv'
    <2>1. e \in Row
      BY <1>1
    <2>2. TakesEffect(j, e, p) /\ UNCHANGED content
      BY <1>5 DEF PushCall
    <2>3. /\ notion' \in [Pages -> Page] /\ Newer(notion, notion')
          /\ IsEligible(e) => /\ notion'[p].lastEdited \in Nat
                              /\ notion'[p].data = e.data
                              /\ e.notionPageId # NoPage => e.notionPageId = p
      BY <2>1, <2>2, TakesEffectNewer DEF IInv
    <2>4. CASE IsEligible(e) /\ Answered(j, e, "save", MarkSynced(e, p, notion'[p].lastEdited))
      <3> DEFINE item == MarkSynced(e, p, notion'[p].lastEdited)
      <3>1. item \in Row /\ Sound(notion', item)
        BY <2>1, <2>3, <2>4, MarkSyncedType, NullAssumption DEF Sound, Mirrors
      <3> HIDE DEF item
      <3>2. PushSound(notion', [pc |-> "save", queue |-> push[j].queue \ {e},
                                item |-> item, stamp |-> 0])
        BY <1>1, <3>1, AnsweredSound
      <3> QED
        BY <2>2, <2>3, <2>4, <3>2, PushMoves DEF Answered, item
    <2>5. CASE /\ IsEligible(e) /\ e.notionPageId # NoPage
               /\ SetPush(j, [pc |-> "body", queue |-> push[j].queue \ {e}, item |-> e,
                              stamp |-> notion'[p].lastEdited])
      <3> DEFINE task == [pc |-> "body", queue |-> push[j].queue \ {e}, item |-> e,
                          stamp |-> notion'[p].lastEdited]
      <3>1. task \in PushTask
        BY <1>1, <2>1, <2>3, <2>5 DEF PushTask
      <3>2. PushSound(notion', task)
        BY <2>1, <2>3, <2>5, <3>1 DEF PushSound, Mirrors
      <3> HIDE DEF task
      <3> QED
        BY <2>2, <2>3, <2>5, <3>2, PushMoves DEF task
    <2>6. CASE ~IsEligible(e) /\ Answered(j, e, "save", Archived(e))
      <3>1. Archived(e) \in Row /\ Sound(notion', Archived(e))
        BY <2>1, <2>6, EntityTypes DEF Sound, IsEligible
      <3>2. PushSound(notion', [pc |-> "save", queue |-> push[j].queue \ {e},
                                item |-> Archived(e), stamp |-> 0])
        BY <1>1, <3>1, AnsweredSound
      <3> QED
        BY <2>2, <2>3, <2>6, <3>2, PushMoves DEF Answered
    <2> QED
      BY <1>5, <2>4, <2>5, <2>6 DEF PushCall
  <1>6. ASSUME NEW e \in push[j].queue, NEW p \in Pages, PushCallLost(j, e, p)
        PROVE  IInv'
    <2>1. e \in Row
      BY <1>1
    <2>2. PushSound(notion', [pc |-> "rescue", queue |-> push[j].queue \ {e},
                              item |-> Failed(e), stamp |-> 0])
      BY <1>1, <2>1, EntityTypes, AnsweredSound
    <2>3. notion' \in [Pages -> Page] /\ Newer(notion, notion')
      BY <1>6, <2>1, TakesEffectNewer DEF PushCallLost, IInv
    <2> QED
      BY <1>6, <2>2, <2>3, PushMoves DEF PushCallLost, Answered
  <1>7. ASSUME NEW e \in push[j].queue, PushCallRefused(j, e)
        PROVE  IInv'
    <2>1. e \in Row
      BY <1>1
    <2>2. PICK pc \in {"rescue", "stop"} : Answered(j, e, pc, Failed(e))
      BY <1>7 DEF PushCallRefused
    <2>3. PushSound(notion', [pc |-> pc, queue |-> push[j].queue \ {e},
                              item |-> Failed(e), stamp |-> 0])
      BY <1>1, <2>1, EntityTypes, AnsweredSound
    <2> QED
      BY <1>2, <1>7, <2>2, <2>3, PushMoves DEF PushCallRefused, Answered
  <1>8. ASSUME NEW e \in push[j].queue, PushCallNotFound(j, e)
        PROVE  IInv'
    <2>1. e \in Row
      BY <1>1
    <2>2. PushSound(notion', [pc |-> "rescue", queue |-> push[j].queue \ {e},
                              item |-> Forgotten(e), stamp |-> 0])
      BY <1>1, <2>1, EntityTypes, AnsweredSound
    <2>3. ~IsEligible(e) =>
             PushSound(notion', [pc |-> "save", queue |-> push[j].queue \ {e},
                                 item |-> Archived(e), stamp |-> 0])
      <3>1. ~IsEligible(e) => Sound(notion', Archived(e))
        BY <2>1, EntityTypes DEF Sound, IsEligible
      <3> QED
        BY <1>1, <2>1, <3>1, EntityTypes, AnsweredSound
    <2>4. UNCHANGED <<content, notion>>
      BY <1>8 DEF PushCallNotFound
    <2>5. CASE IsEligible(e)
      BY <1>2, <1>8, <2>2, <2>4, <2>5, PushMoves DEF PushCallNotFound, Answered
    <2>6. CASE ~IsEligible(e)
      BY <1>2, <1>8, <2>3, <2>4, <2>6, PushMoves DEF PushCallNotFound, Answered
    <2> QED
      BY <2>5, <2>6
  <1>9. CASE PushBody(j)
    <2> DEFINE e == push[j].item
               p == e.notionPageId
    <2>1. /\ e \in Row /\ p \in Pages /\ push[j].stamp \in Nat
          /\ Mirrors(notion, p, push[j].stamp, e.data)
      BY <1>1, <1>9 DEF PushBody, PushSound, PushTask
    <2>2. notion[p].data \in Nat
      BY <1>1, <2>1 DEF Page
    <2>3. notion' \in [Pages -> Page] /\ Newer(notion, notion')
      BY <1>1, <1>2, <1>9, <2>1, <2>2, SetPageNewer DEF PushBody
    <2>4. MarkSynced(e, p, push[j].stamp) \in Row
          /\ Sound(notion', MarkSynced(e, p, push[j].stamp))
      <3>1. Mirrors(notion', p, push[j].stamp, e.data)
        BY <1>1, <2>1, <2>3, MirrorsKept
      <3> QED
        BY <2>1, <3>1, MarkSyncedType, NullAssumption DEF Sound
    <2>5. PushSound(notion', [pc |-> "save", queue |-> push[j].queue \ {e},
                              item |-> MarkSynced(e, p, push[j].stamp), stamp |-> 0])
      BY <1>1, <2>4, AnsweredSound
    <2>6. ASSUME NEW pc \in {"rescue", "stop"}, NEW item \in {Failed(e), Forgotten(e)}
          PROVE  PushSound(notion', [pc |-> pc, queue |-> push[j].queue \ {e},
                                     item |-> item, stamp |-> 0])
      BY <1>1, <2>1, EntityTypes, AnsweredSound
    <2>7. UNCHANGED content
      BY <1>9 DEF PushBody
    <2>8. \/ Answered(j, e, "save", MarkSynced(e, p, push[j].stamp))
          \/ \E pc \in {"rescue", "stop"}, item \in {Failed(e), Forgotten(e)} :
               Answered(j, e, pc, item)
      BY <1>9 DEF PushBody
    <2>9. CASE Answered(j, e, "save", MarkSynced(e, p, push[j].stamp))
      BY <2>3, <2>5, <2>7, <2>9, PushMoves DEF Answered
    <2>10. ASSUME NEW pc \in {"rescue", "stop"}, NEW item \in {Failed(e), Forgotten(e)},
                  Answered(j, e, pc, item)
           PROVE  IInv'
      BY <2>3, <2>6, <2>7, <2>10, PushMoves DEF Answered
    <2> QED
      BY <2>8, <2>9, <2>10
  <1>10. CASE PushSave(j)
    <2> DEFINE e == push[j].item
    <2>1. e \in Row /\ Sound(notion, e) /\ UNCHANGED notion
      BY <1>1, <1>10 DEF PushSave, PushSound
    <2>2. CASE Rejected(e)
      <3>1. PushSound(notion', [pc |-> "rescue", queue |-> push[j].queue \ {e},
                                item |-> Failed(e), stamp |-> 0])
        BY <1>1, <2>1, EntityTypes, AnsweredSound
      <3> QED
        BY <1>2, <1>10, <2>1, <2>2, <3>1, PushMoves DEF PushSave, Answered
    <2>3. CASE ~Rejected(e)
      <3>1. content' = Stored(e) /\ SetPush(j, NextItem(push[j].queue))
        BY <1>10, <2>3 DEF PushSave
      <3>2. ContentSound(notion', content) => ContentSound(notion', content')
        BY <2>1, <3>1, StoredSound
      <3>3. PushSound(notion', NextItem(push[j].queue))
        BY <1>1, NextItemSound
      <3> QED
        BY <1>2, <2>1, <3>1, <3>2, <3>3, PushMoves
    <2> QED
      BY <2>2, <2>3
  <1>11. CASE PushRescue(j)
    <2> DEFINE e == push[j].item
    <2>1. e \in Row /\ ~InStep(e) /\ UNCHANGED notion
      BY <1>1, <1>11 DEF PushRescue, PushSound
    <2>2. ContentSound(notion', content) => ContentSound(notion', content')
      BY <1>11, <2>1, NotInStepSound, SaveSound DEF PushRescue
    <2>3. PushSound(notion', NextItem(push[j].queue)) /\ PushSound(notion', PushIdle)
      BY <1>1, NextItemSound, PushIdleSound
    <2>4. SetPush(j, PushIdle) \/ SetPush(j, NextItem(push[j].queue))
      BY <1>11 DEF PushRescue
    <2> QED
      BY <1>2, <2>1, <2>2, <2>3, <2>4, PushMoves
  <1>12. CASE VerifyFind(j)
    <2> DEFINE linked == {r \in content : IsEligible(r) /\ r.notionPageId # NoPage}
               task == [PushIdle EXCEPT !.pc = "token", !.queue = linked]
    <2>1. PushSound(notion', task)
      BY <1>1 DEF PushSound, PushTask, PushIdle
    <2>2. SetPush(j, task) /\ UNCHANGED <<content, notion>>
      BY <1>12 DEF VerifyFind
    <2> HIDE DEF task
    <2> QED
      BY <1>2, <2>1, <2>2, PushMoves
  <1>13. CASE VerifyToken(j)
    <2>1. PushSound(notion', NextCheck(push[j].queue)) /\ PushSound(notion', PushIdle)
      BY <1>1, NextCheckSound, PushIdleSound
    <2> QED
      BY <1>2, <1>13, <2>1, PushMoves DEF VerifyToken
  <1>14. ASSUME NEW e \in push[j].queue, VerifyPage(j, e)
         PROVE  IInv'
    <2>1. e \in Row
      BY <1>1
    <2>2. PushSound(notion', [pc |-> "forget", queue |-> push[j].queue \ {e},
                              item |-> Forgotten(e), stamp |-> 0])
      BY <1>1, <2>1, EntityTypes, AnsweredSound
    <2>3. /\ PushSound(notion', NextCheck(push[j].queue \ {e}))
          /\ PushSound(notion', NextCheck({}))
      BY <1>1, NextCheckSound
    <2>4. UNCHANGED <<content, notion>>
      BY <1>14 DEF VerifyPage
    <2>5. \/ Answered(j, e, "forget", Forgotten(e))
          \/ SetPush(j, NextCheck(push[j].queue \ {e}))
          \/ SetPush(j, NextCheck({}))
      BY <1>14 DEF VerifyPage
    <2> QED
      BY <1>2, <2>2, <2>3, <2>4, <2>5, PushMoves DEF Answered
  <1>15. CASE VerifySave(j)
    <2> DEFINE e == push[j].item
    <2>1. e \in Row /\ ~InStep(e) /\ UNCHANGED notion
      BY <1>1, <1>15 DEF VerifySave, PushSound
    <2>2. ContentSound(notion', content) => ContentSound(notion', content')
      BY <1>15, <2>1, NotInStepSound, SaveSound DEF VerifySave
    <2>3. PushSound(notion', NextCheck(push[j].queue)) /\ PushSound(notion', PushIdle)
      BY <1>1, NextCheckSound, PushIdleSound
    <2>4. SetPush(j, PushIdle) \/ SetPush(j, NextCheck(push[j].queue))
      BY <1>15 DEF VerifySave
    <2> QED
      BY <1>2, <2>1, <2>2, <2>3, <2>4, PushMoves
  <1> QED
    BY <1>3, <1>4, <1>5, <1>6, <1>7, <1>8, <1>9, <1>10, <1>11, <1>12, <1>13, <1>14, <1>15
    DEF Push

-----------------------------------------------------------------------------
\* A pull task that moves from sound to sound, with the rows.
LEMMA PullMoves ==
    ASSUME IInv, NEW l \in Pulls, NEW task, SetPull(l, task), PullSound(notion, task),
           ContentSound(notion, content')
    PROVE  IInv'
  <1>1. PullsSound(notion, pull')
    BY SetPullSound DEF IInv
  <1>2. UNCHANGED <<removed, notion, push, update, writes>>
    BY DEF SetPull
  <1> QED
    BY <1>1, <1>2 DEF IInv, TypeOK, ContentSound, PullsSound

LEMMA PullStep ==
    ASSUME IInv, NEW l \in Pulls, Pull(l) PROVE IInv'
  <1>1. /\ notion \in [Pages -> Page] /\ content \subseteq Row
        /\ pull[l] \in PullTask /\ pull[l].seen \subseteq NotionPage
        /\ PullSound(notion, pull[l])
        /\ ContentSound(notion, content)
    BY DEF IInv, TypeOK, PullsSound, PullTask
  <1>2. \A seen \in SUBSET pull[l].seen : PullSound(notion, NextPage(seen))
    BY <1>1, NextPageSound DEF PullSound
  <1>3. PullSound(notion, PullIdle)
    BY PullIdleSound
  <1>4. CASE PullStart(l)
    <2> DEFINE task == [PullIdle EXCEPT !.pc = "query"]
    <2>1. PullSound(notion, task)
      BY DEF PullSound, PullTask, PullIdle
    <2>2. SetPull(l, task) /\ UNCHANGED content
      BY <1>4 DEF PullStart
    <2> HIDE DEF task
    <2> QED
      BY <1>1, <2>1, <2>2, PullMoves
  <1>5. CASE PullQuery(l)
    <2>1. UNCHANGED content
      BY <1>5 DEF PullQuery
    <2>2. ASSUME NEW batch \in SUBSET Listed(l),
                 LET seen == pull[l].seen \cup {Answer(p) : p \in batch}
                 IN  SetPull(l, IF batch = Listed(l) THEN NextPage(seen)
                                ELSE [pull[l] EXCEPT !.seen = seen]),
                 pull[l].pc = "query"
          PROVE  IInv'
      <3> DEFINE seen == pull[l].seen \cup {Answer(p) : p \in batch}
                 more == [pull[l] EXCEPT !.seen = seen]
      <3>1. \A p \in Pages : /\ Answer(p) \in NotionPage
                             /\ Mirrors(notion, Answer(p).id, Answer(p).lastEdited,
                                        Answer(p).data)
        BY <1>1 DEF Answer, NotionPage, Page, Mirrors
      <3>2. seen \subseteq NotionPage
            /\ \A q \in seen : Mirrors(notion, q.id, q.lastEdited, q.data)
        BY <1>1, <3>1 DEF Listed, PullSound
      <3> HIDE DEF seen
      <3>3. PullSound(notion, NextPage(seen))
        BY <3>2, NextPageSound
      <3>4. PullSound(notion, more)
        BY <1>1, <2>2, <3>2 DEF PullSound, PullTask
      <3>5. SetPull(l, NextPage(seen)) \/ SetPull(l, more)
        BY <2>2 DEF seen
      <3> HIDE DEF more
      <3> QED
        BY <1>1, <2>1, <3>3, <3>4, <3>5, PullMoves
    <2>3. CASE SetPull(l, PullIdle)
      BY <1>1, <1>3, <2>1, <2>3, PullMoves
    <2> QED
      BY <1>5, <2>2, <2>3 DEF PullQuery
  <1>6. ASSUME NEW q \in pull[l].seen, NEW r \in content, PullKnown(l, q, r)
        PROVE  IInv'
    <2>1. UNCHANGED content
      BY <1>6 DEF PullKnown
    <2>2. q \in NotionPage /\ r \in Row /\ Mirrors(notion, q.id, q.lastEdited, q.data)
      BY <1>1 DEF PullSound
    <2>3. CASE SetPull(l, NextPage(pull[l].seen \ {q}))
      BY <1>1, <1>2, <2>1, <2>3, PullMoves
    <2>4. ASSUME NEW s \in {"SYNCED", "CONFLICT"},
                 SetPull(l, [pc |-> "save", seen |-> pull[l].seen \ {q},
                             item |-> Pulled(r, q, s)])
          PROVE  IInv'
      <3> DEFINE item == Pulled(r, q, s)
                 task == [pc |-> "save", seen |-> pull[l].seen \ {q}, item |-> item]
      <3>1. /\ item \in Row /\ item.notionPageId = q.id /\ q.id \in Pages
            /\ item.notionLastEditedAt = q.lastEdited /\ item.data = q.data
        BY <2>2 DEF Pulled, Row, NotionPage, SyncStatuses
      <3> HIDE DEF item
      <3>2. Sound(notion, item)
        BY <2>2, <3>1, NullAssumption DEF Sound
      <3>3. PullSound(notion, task)
        BY <1>1, <3>1, <3>2 DEF PullSound, PullTask
      <3> HIDE DEF task
      <3> QED
        BY <1>1, <2>1, <2>4, <3>3, PullMoves DEF task, item
    <2> QED
      BY <1>6, <2>3, <2>4 DEF PullKnown
  <1>7. ASSUME NEW q \in pull[l].seen, NEW i \in Items, NEW s \in Statuses,
               PullNew(l, q, i, s)
        PROVE  IInv'
    <2> DEFINE item == [id |-> i, status |-> s, syncStatus |-> "SYNCED",
                        notionPageId |-> q.id, notionLastEditedAt |-> q.lastEdited,
                        data |-> q.data]
               task == [pc |-> "insert", seen |-> pull[l].seen \ {q}, item |-> item]
    <2>1. q \in NotionPage /\ Mirrors(notion, q.id, q.lastEdited, q.data)
      BY <1>1 DEF PullSound
    <2>2. item \in Row /\ Sound(notion, item)
      BY <2>1, NullAssumption DEF Row, NotionPage, SyncStatuses, Sound
    <2>3. SetPull(l, task) /\ UNCHANGED content
      BY <1>7 DEF PullNew
    <2> HIDE DEF item
    <2>4. PullSound(notion, task)
      BY <1>1, <2>2 DEF PullSound, PullTask
    <2> HIDE DEF task
    <2> QED
      BY <1>1, <2>3, <2>4, PullMoves
  <1>8. CASE PullSave(l)
    <2>1. pull[l].item \in Row /\ Sound(notion, pull[l].item)
      BY <1>1, <1>8 DEF PullSave, PullSound
    <2>2. ContentSound(notion, content')
      BY <1>1, <1>8, <2>1, SaveSound DEF PullSave
    <2> QED
      BY <1>2, <1>8, <2>2, PullMoves DEF PullSave
  <1>9. CASE PullInsert(l)
    <2>1. pull[l].item \in Row /\ Sound(notion, pull[l].item)
      BY <1>1, <1>9 DEF PullInsert, PullSound
    <2>2. ContentSound(notion, content')
      BY <1>1, <1>9, <2>1 DEF PullInsert, ContentSound
    <2> QED
      BY <1>2, <1>9, <2>2, PullMoves DEF PullInsert
  <1> QED
    BY <1>4, <1>5, <1>6, <1>7, <1>8, <1>9 DEF Pull

LEMMA RestartStep ==
    ASSUME IInv, Restart PROVE IInv'
  BY PushIdleSound, PullIdleSound
  DEF IInv, TypeOK, Restart, PushesSound, PullsSound, PushSound, PullSound

-----------------------------------------------------------------------------
(* The theorems.                                                             *)

\* The invariant holds in every reachable state.
THEOREM Invariance == Spec => []IInv
  <1>1. IInv /\ [Next]_vars => IInv'
    <2> SUFFICES ASSUME IInv, [Next]_vars PROVE IInv'
      OBVIOUS
    <2>1. CASE UNCHANGED vars
      BY <2>1 DEF vars, IInv, TypeOK
    <2> QED
      BY <2>1, AppStep, PeopleStep, PushStep, PullStep, RestartStep DEF Next
  <1> QED
    BY <1>1, InitSound, PTL DEF Spec

\* Every variable keeps its type.
THEOREM TypeCorrect == Spec => []TypeOK
  BY Invariance, PTL DEF IInv

\* No edit made in Notion is hidden from a row that claims to be in step.
THEOREM RemoteEditsStayVisible == Spec => []RemoteEditsVisible
  <1>1. IInv => RemoteEditsVisible
    BY DEF IInv, ContentSound, Sound, Mirrors, RemoteEditsVisible, Agrees
  <1> QED
    BY <1>1, Invariance, PTL

\* No planned content is SYNCED without a page.
THEOREM PlannedContentHasPage == Spec => []PlannedHasPage
  <1>1. IInv => PlannedHasPage
    BY DEF IInv, ContentSound, Sound, PlannedHasPage
  <1> QED
    BY <1>1, Invariance, PTL

-----------------------------------------------------------------------------
(* One row per page.  Besides OneRowPerPage, the id a pull is about to insert *)
(* is nobody else's.                                                         *)

Reserved ==
    \A l \in Pulls : pull[l].pc = "insert" =>
        /\ \A r \in content : r.id # pull[l].item.id
        /\ \A k \in Pulls \ {l} :
               pull[k].pc = "insert" => pull[k].item.id # pull[l].item.id

UInv == TypeOK /\ OneRowPerPage /\ Reserved

\* The rows shrink, or one that is there is overwritten, and no new insert begins.
LEMMA RowsMove ==
    ASSUME UInv, TypeOK',
           \/ content' \subseteq content
           \/ \E e \in Row : ~Rejected(e) /\ content' = Stored(e),
           \A l \in Pulls : pull'[l].pc = "insert" => pull'[l] = pull[l]
    PROVE  UInv'
  <1>1. \A r \in content' : \E s \in content : s.id = r.id
    BY DEF Rejected, Stored
  <1>2. OneRowPerPage'
    BY DEF UInv, OneRowPerPage, Rejected, PointerTaken, Stored
  <1>3. Reserved'
    BY <1>1 DEF UInv, Reserved
  <1> QED
    BY <1>2, <1>3 DEF UInv

LEMMA PushRows ==
    ASSUME IInv, NEW j \in Pushes, Push(j)
    PROVE  /\ \/ content' = content
              \/ \E e \in Row : ~Rejected(e) /\ content' = Stored(e)
           /\ pull' = pull
  <1>1. push[j].pc \in {"save", "rescue", "stop", "forget"} => push[j].item \in Row
    BY DEF IInv, PushesSound, PushSound
  <1>2. pull' = pull
    BY DEF Push, PushFind, PushResolve, PushBody, PushSave, PushRescue, PushCall,
           PushCallLost, PushCallRefused, PushCallNotFound, VerifyPage, VerifyFind,
           VerifyToken, VerifySave, SetPush, Answered
  <1>3. CASE PushSave(j) \/ PushRescue(j) \/ VerifySave(j)
    BY <1>1, <1>2, <1>3 DEF PushSave, PushRescue, VerifySave
  <1>4. CASE ~(PushSave(j) \/ PushRescue(j) \/ VerifySave(j))
    BY <1>2, <1>4 DEF Push, PushFind, PushResolve, PushBody, PushCall, PushCallLost,
           PushCallRefused, PushCallNotFound, VerifyPage, VerifyFind, VerifyToken
  <1> QED
    BY <1>3, <1>4

LEMMA AppRows ==
    ASSUME UInv, TypeOK', App PROVE UInv'
  <1>1. pull' = pull
    BY DEF App, Create, UpdateRead, UpdateSave, Remove, PurgeExpired
  <1>2. ASSUME NEW i \in Items, NEW s \in Statuses, Create(i, s)
        PROVE  UInv'
    <2> DEFINE r == [id |-> i, status |-> s, syncStatus |-> "PENDING",
                     notionPageId |-> NoPage, notionLastEditedAt |-> 0, data |-> writes']
    <2>1. content' = content \cup {r} /\ FreshId(i)
      BY <1>2 DEF Create
    <2>2. r.id = i /\ r.notionPageId = NoPage
      OBVIOUS
    <2> HIDE DEF r
    <2>3. OneRowPerPage'
      BY <2>1, <2>2 DEF UInv, OneRowPerPage, FreshId
    <2>4. Reserved'
      BY <1>1, <2>1, <2>2 DEF UInv, Reserved, FreshId
    <2> QED
      BY <2>3, <2>4 DEF UInv
  <1>3. ASSUME NEW u \in Updates, NEW s \in Statuses, NEW b \in BOOLEAN, UpdateSave(u, s, b)
        PROVE  UInv'
    <2> DEFINE e == Patched(update[u], s, b)
    <2>1. content' = IF Rejected(e) THEN content ELSE Stored(e)
      BY <1>3 DEF UpdateSave
    <2>2. update[u] \in Row /\ writes \in Nat
      BY <1>3 DEF UpdateSave, UInv, TypeOK
    <2>3. e \in Row
      BY <2>2, PatchedType
    <2> HIDE DEF e
    <2> QED
      BY <1>1, <2>1, <2>3, RowsMove
  <1>4. CASE content' \subseteq content
    BY <1>1, <1>4, RowsMove
  <1> QED
    BY <1>2, <1>3, <1>4 DEF App, UpdateRead, Remove, PurgeExpired

LEMMA PullRows ==
    ASSUME IInv, UInv, TypeOK', NEW l \in Pulls, Pull(l) PROVE UInv'
  <1>1. \A k \in Pulls \ {l} : pull'[k] = pull[k]
    BY DEF Pull, PullStart, PullQuery, PullSave, PullInsert, PullKnown, PullNew, SetPull,
           UInv, TypeOK
  <1>2. pull[l] \in PullTask /\ pull'[l] \in PullTask
    BY DEF UInv, TypeOK
  <1>3. \A seen : NextPage(seen).pc # "insert"
    BY DEF NextPage, PullIdle
  <1>4. ASSUME NEW q \in pull[l].seen, NEW i \in Items, NEW s \in Statuses,
               PullNew(l, q, i, s)
        PROVE  UInv'
    <2>1. content' = content /\ FreshId(i) /\ pull'[l].item.id = i
      BY <1>4 DEF PullNew, SetPull, UInv, TypeOK
    <2>2. Reserved'
      BY <1>1, <2>1 DEF UInv, Reserved, FreshId
    <2> QED
      BY <2>1, <2>2 DEF UInv, OneRowPerPage
  <1>5. CASE PullInsert(l)
    <2> DEFINE e == pull[l].item
    <2>1. content' = IF PointerTaken(e) THEN content ELSE content \cup {e}
      BY <1>5 DEF PullInsert
    <2>2. /\ pull[l].pc = "insert" /\ \A r \in content : r.id # e.id
          /\ \A k \in Pulls \ {l} : pull[k].pc = "insert" => pull[k].item.id # e.id
      BY <1>5 DEF PullInsert, UInv, Reserved
    <2>3. pull'[l].pc # "insert"
      BY <1>3, <1>5 DEF PullInsert, SetPull, UInv, TypeOK
    <2>4. OneRowPerPage'
      BY <2>1, <2>2 DEF UInv, OneRowPerPage, PointerTaken
    <2>5. Reserved'
      BY <1>1, <2>1, <2>2, <2>3 DEF UInv, Reserved
    <2> QED
      BY <2>4, <2>5 DEF UInv
  <1>6. CASE PullSave(l)
    <2>1. pull[l].item \in Row
      BY <1>6 DEF IInv, PullsSound, PullSound, PullSave
    <2>2. pull'[l].pc # "insert"
      BY <1>3, <1>6 DEF PullSave, SetPull, UInv, TypeOK
    <2>3. content' = IF Rejected(pull[l].item) THEN content ELSE Stored(pull[l].item)
      BY <1>6 DEF PullSave
    <2> QED
      BY <1>1, <2>1, <2>2, <2>3, RowsMove
  <1>7. CASE PullStart(l) \/ PullQuery(l) \/
             \E q \in pull[l].seen, r \in content : PullKnown(l, q, r)
    <2>1. pull'[l].pc # "insert"
      <3>1. pull \in [Pulls -> PullTask]
        BY DEF UInv, TypeOK
      <3>2. CASE PullStart(l)
        BY <3>1, <3>2 DEF PullStart, SetPull, PullIdle
      <3>3. CASE PullQuery(l)
        <4>1. \/ \E seen : pull'[l] = NextPage(seen)
              \/ \E seen : pull'[l] = [pull[l] EXCEPT !.seen = seen]
              \/ pull'[l] = PullIdle
          BY <3>1, <3>3 DEF PullQuery, SetPull
        <4>2. \A seen : [pull[l] EXCEPT !.seen = seen].pc = pull[l].pc
          BY <1>2 DEF PullTask
        <4>3. pull[l].pc = "query" /\ PullIdle.pc = "idle"
          BY <3>3 DEF PullQuery, PullIdle
        <4> QED
          BY <1>3, <4>1, <4>2, <4>3
      <3>4. ASSUME NEW q \in pull[l].seen, NEW r \in content, PullKnown(l, q, r)
            PROVE  pull'[l].pc # "insert"
        BY <1>3, <3>1, <3>4 DEF PullKnown, SetPull
      <3> QED
        BY <1>7, <3>2, <3>3, <3>4
    <2>2. content' = content
      BY <1>7 DEF PullStart, PullQuery, PullKnown
    <2> QED
      BY <1>1, <2>1, <2>2, RowsMove
  <1> QED
    BY <1>4, <1>5, <1>6, <1>7 DEF Pull

LEMMA UniqueInvariance == Spec => []UInv
  <1>1. Init => UInv
    BY InitSound DEF UInv, IInv, Init, OneRowPerPage, Reserved, PullIdle
  <1>2. IInv /\ IInv' /\ UInv /\ [Next]_vars => UInv'
    <2> SUFFICES ASSUME IInv, IInv', UInv, [Next]_vars PROVE UInv'
      OBVIOUS
    <2>1. TypeOK'
      BY DEF IInv
    <2>2. CASE UNCHANGED vars
      BY <2>2 DEF vars, UInv, TypeOK, OneRowPerPage, Reserved
    <2>3. CASE People
      BY <2>1, <2>3, RowsMove
      DEF People, NotionWrite, NotionTrash, NotionRestore, NotionDelete
    <2>4. CASE Restart
      BY <2>1, <2>4, RowsMove DEF Restart, PullIdle
    <2>5. ASSUME NEW j \in Pushes, Push(j) PROVE UInv'
      BY <2>1, <2>5, PushRows, RowsMove
    <2> QED
      BY <2>1, <2>2, <2>3, <2>4, <2>5, AppRows, PullRows DEF Next
  <1> QED
    BY <1>1, <1>2, Invariance, PTL DEF Spec

\* A Notion page is never two rows.
THEOREM PageHasOneRow == Spec => []OneRowPerPage
  <1>1. UInv => OneRowPerPage
    BY DEF UInv
  <1> QED
    BY <1>1, UniqueInvariance, PTL

-----------------------------------------------------------------------------
(* Tasks that hold rows apart take nothing back.  Besides RowsHeldCurrent, an *)
(* entity held is that of a row that is or was there, and the loop of a push   *)
(* holds each row once.                                                      *)

KnownIds == {r.id : r \in content} \cup removed

QueuesDistinct ==
    \A j \in Pushes :
        /\ \A e, f \in push[j].queue : e.id = f.id => e = f
        /\ push[j].item # NoItem => \A e \in push[j].queue : e.id # push[j].item.id

HeldKnown ==
    /\ \A u \in Updates : update[u] # NoItem => update[u].id \in KnownIds
    /\ \A j \in Pushes :
        /\ \A e \in push[j].queue : e.id \in KnownIds
        /\ push[j].item # NoItem => push[j].item.id \in KnownIds
    /\ \A l \in Pulls :
        pull[l].item # NoItem => pull[l].pc = "insert" \/ pull[l].item.id \in KnownIds

HInv == RowsHeldCurrent /\ QueuesDistinct /\ HeldKnown

\* Only the rows of these ids change.
OnlyRows(ids) == \A r \in content' : r \in content \/ r.id \in ids

\* What holds no entity of a row that changes stays current.
LEMMA ExactKept ==
    ASSUME NEW ids, OnlyRows(ids), NEW e, e.id \notin ids
    PROVE  /\ Exact(content, e) => Exact(content', e)
           /\ SameWriting(content, e) => SameWriting(content', e)
           /\ SameStatus(content, e) => SameStatus(content', e)
  BY DEF OnlyRows, Exact, SameWriting, SameStatus

\* Rows that are there no more are known still.
LEMMA KnownKept ==
    ASSUME \/ content' = content /\ removed' = removed
           \/ \E e \in Row : ~Rejected(e) /\ content' = Stored(e) /\ removed' = removed
           \/ \E e : content' = content \cup {e} /\ removed' = removed
           \/ \E old \in SUBSET content :
                 content' = content \ old /\ removed' = removed \cup {r.id : r \in old}
    PROVE  KnownIds \subseteq KnownIds'
  BY DEF KnownIds, Rejected, Stored

\* These tasks hold no entity of row i.
PushFree(i, j) == /\ \A e \in push[j].queue : e.id # i
                  /\ push[j].item # NoItem => push[j].item.id # i
PullFree(i, l) == pull[l].item # NoItem => pull[l].item.id # i
UpdateFree(i, u) == update[u] # NoItem => update[u].id # i

\* A row a task holds is held by no other.
LEMMA HeldByOne ==
    ASSUME RowsHeldApart, NEW i \in Items
    PROVE  /\ \A j \in Pushes : ~PushFree(i, j) =>
                /\ \A k \in Pushes \ {j} : PushFree(i, k)
                /\ \A l \in Pulls : PullFree(i, l)
                /\ \A u \in Updates : UpdateFree(i, u)
           /\ \A l \in Pulls : ~PullFree(i, l) =>
                /\ \A k \in Pulls \ {l} : PullFree(i, k)
                /\ \A j \in Pushes : PushFree(i, j)
                /\ \A u \in Updates : UpdateFree(i, u)
           /\ \A u \in Updates : ~UpdateFree(i, u) =>
                /\ \A v \in Updates \ {u} : UpdateFree(i, v)
                /\ \A j \in Pushes : PushFree(i, j)
                /\ \A l \in Pulls : PullFree(i, l)
  <1>1. /\ \A j \in Pushes : ~PushFree(i, j) => <<"push", j>> \in Holding(i)
        /\ \A l \in Pulls : ~PullFree(i, l) => <<"pull", l>> \in Holding(i)
        /\ \A u \in Updates : ~UpdateFree(i, u) => <<"update", u>> \in Holding(i)
    BY DEF Holding, PushFree, PullFree, UpdateFree
  <1>2. \A x, y \in Holding(i) : x = y
    BY DEF RowsHeldApart
  <1> QED
    BY <1>1, <1>2

\* Rows change that the tasks which go on do not hold.
LEMMA OthersCurrent ==
    ASSUME HInv, NEW ids, OnlyRows(ids), KnownIds \subseteq KnownIds',
           \A u \in Updates : update'[u] # NoItem =>
                update'[u] = update[u] /\ update[u].id \notin ids,
           \A k \in Pushes :
                /\ push'[k].queue \subseteq push[k].queue
                /\ \A e \in push'[k].queue : e.id \notin ids
                /\ push'[k].item # NoItem =>
                        push'[k].item = push[k].item /\ push[k].item.id \notin ids,
           \A l \in Pulls : pull'[l].item # NoItem =>
                pull'[l] = pull[l] /\ pull[l].item.id \notin ids
    PROVE  HInv'
  <1>1. \A u \in Updates : update'[u] # NoItem =>
            Exact(content', update'[u]) /\ update'[u].id \in KnownIds'
    BY ExactKept DEF HInv, RowsHeldCurrent, HeldKnown
  <1>2. \A k \in Pushes : \A e \in push'[k].queue : Exact(content', e) /\ e.id \in KnownIds'
    BY ExactKept DEF HInv, RowsHeldCurrent, HeldKnown
  <1>3. \A k \in Pushes : push'[k].item # NoItem =>
            SameWriting(content', push'[k].item) /\ push'[k].item.id \in KnownIds'
    BY ExactKept DEF HInv, RowsHeldCurrent, HeldKnown
  <1>4. \A l \in Pulls : pull'[l].item # NoItem =>
            /\ SameStatus(content', pull'[l].item)
            /\ pull'[l].pc = "insert" \/ pull'[l].item.id \in KnownIds'
    BY ExactKept DEF HInv, RowsHeldCurrent, HeldKnown
  <1>5. QueuesDistinct'
    BY DEF HInv, QueuesDistinct
  <1> QED
    BY <1>1, <1>2, <1>3, <1>4, <1>5 DEF HInv, RowsHeldCurrent, HeldKnown

\* An entity that differs only in what the synchronisation writes.
SameEntity(e, f) == f.id = e.id /\ f.data = e.data /\ f.status = e.status

LEMMA SynchronisedSame ==
    ASSUME NEW e \in Row
    PROVE  /\ SameEntity(e, Failed(e)) /\ SameEntity(e, Forgotten(e)) /\ SameEntity(e, Archived(e))
           /\ \A p, stamp : SameEntity(e, MarkSynced(e, p, stamp))
  BY DEF Row, SameEntity, Failed, Forgotten, Archived, MarkSynced

\* The four kinds of step of a push: it finds rows or drops some, takes one out
\* of its loop, has an answer about the one it holds, or saves it.
PushKeeps(j) == content' = content /\ push'[j].queue \subseteq push[j].queue
PushDrops(j) ==
    /\ content' = content /\ push'[j].item = NoItem
    /\ push'[j].queue \subseteq push[j].queue \/ push'[j].queue \subseteq content
PushTakes(j) ==
    /\ PushKeeps(j)
    /\ \E e \in push[j].queue : e \notin push'[j].queue /\ SameEntity(e, push'[j].item)
PushHolds(j) ==
    /\ PushKeeps(j)
    /\ push[j].item # NoItem /\ SameEntity(push[j].item, push'[j].item)
PushStores(j) ==
    /\ push[j].item # NoItem /\ push'[j].item = NoItem
    /\ push'[j].queue \subseteq push[j].queue
    /\ push[j].item \in Row /\ ~Rejected(push[j].item) /\ content' = Stored(push[j].item)

LEMMA PushShape ==
    ASSUME IInv, NEW j \in Pushes, Push(j)
    PROVE  /\ \A k \in Pushes \ {j} : push'[k] = push[k]
           /\ UNCHANGED <<removed, pull, update>>
           /\ PushDrops(j) \/ PushTakes(j) \/ PushHolds(j) \/ PushStores(j)
  <1>1. /\ push \in [Pushes -> PushTask] /\ push[j] \in PushTask
        /\ push[j].queue \subseteq Row /\ PushSound(notion, push[j])
    BY DEF IInv, TypeOK, PushesSound, PushTask
  <1>2. \E task : SetPush(j, task)
    BY DEF Push, PushFind, PushResolve, PushBody, PushSave, PushRescue, PushCall,
           PushCallLost, PushCallRefused, PushCallNotFound, VerifyPage, VerifyFind,
           VerifyToken, VerifySave, Answered
  <1>3. /\ \A k \in Pushes \ {j} : push'[k] = push[k]
        /\ UNCHANGED <<removed, pull, update>>
    BY <1>1, <1>2 DEF SetPush
  <1>4. /\ PushIdle.item = NoItem /\ PushIdle.queue = {}
        /\ \A queue : /\ NextItem(queue).item = NoItem /\ NextItem(queue).queue \subseteq queue
                      /\ NextCheck(queue).item = NoItem /\ NextCheck(queue).queue = queue
    BY DEF PushIdle, NextItem, NextCheck
  <1>5. ASSUME NEW task, SetPush(j, task) PROVE push'[j] = task
    BY <1>1, <1>5 DEF SetPush
  <1>6. ASSUME NEW e, NEW pc, NEW item, Answered(j, e, pc, item)
        PROVE  push'[j].item = item /\ push'[j].queue = push[j].queue \ {e}
    BY <1>5, <1>6 DEF Answered
  <1>7. CASE PushFind(j) \/ VerifyFind(j)
    <2>1. content' = content
      BY <1>7 DEF PushFind, VerifyFind
    <2> DEFINE Found(pc, queue) == [PushIdle EXCEPT !.pc = pc, !.queue = queue]
    <2>2. \A pc, queue : Found(pc, queue).item = NoItem /\ Found(pc, queue).queue = queue
      BY DEF PushIdle
    <2>3. CASE PushFind(j)
      <3> DEFINE pushable == {r \in content : Pushable(r)}
      <3>1. push'[j] = Found("resolve", pushable)
        BY <1>5, <2>3 DEF PushFind
      <3>2. pushable \subseteq content
        OBVIOUS
      <3> HIDE DEF Found, pushable
      <3>3. push'[j].item = NoItem /\ push'[j].queue = pushable
        BY <2>2, <3>1
      <3> QED
        BY <1>3, <2>1, <3>2, <3>3 DEF PushDrops
    <2>4. CASE VerifyFind(j)
      <3> DEFINE linked == {r \in content : IsEligible(r) /\ r.notionPageId # NoPage}
      <3>1. push'[j] = Found("token", linked)
        BY <1>5, <2>4 DEF VerifyFind
      <3>2. linked \subseteq content
        OBVIOUS
      <3> HIDE DEF Found, linked
      <3>3. push'[j].item = NoItem /\ push'[j].queue = linked
        BY <2>2, <3>1
      <3> QED
        BY <1>3, <2>1, <3>2, <3>3 DEF PushDrops
    <2> QED
      BY <1>7, <2>3, <2>4
  <1>8. CASE PushResolve(j) \/ VerifyToken(j)
    <2>1. content' = content
      BY <1>8 DEF PushResolve, VerifyToken
    <2>2. \/ push'[j] = NextItem(push[j].queue) \/ push'[j] = PushIdle
          \/ push'[j] = NextCheck(push[j].queue)
      BY <1>5, <1>8 DEF PushResolve, VerifyToken
    <2> QED
      BY <1>3, <1>4, <2>1, <2>2 DEF PushDrops
  <1>9. ASSUME NEW e \in push[j].queue,
               \/ \E p \in Pages : PushCall(j, e, p) \/ PushCallLost(j, e, p)
               \/ PushCallRefused(j, e) \/ PushCallNotFound(j, e)
        PROVE  PushTakes(j)
    <2>1. content' = content /\ e \in Row
      BY <1>1, <1>9 DEF PushCall, PushCallLost, PushCallRefused, PushCallNotFound
    <2>2. CASE \E pc, item : Answered(j, e, pc, item) /\ SameEntity(e, item)
      BY <1>6, <2>1, <2>2 DEF PushTakes, PushKeeps
    <2>3. CASE \E stamp : SetPush(j, [pc |-> "body", queue |-> push[j].queue \ {e}, item |-> e,
                                      stamp |-> stamp])
      BY <1>5, <2>1, <2>3 DEF PushTakes, PushKeeps, SameEntity
    <2> QED
      BY <1>9, <2>1, <2>2, <2>3, SynchronisedSame
      DEF PushCall, PushCallLost, PushCallRefused, PushCallNotFound
  <1>10. CASE PushBody(j)
    <2> DEFINE e == push[j].item
    <2>1. e \in Row /\ e # NoItem /\ content' = content
      BY <1>1, <1>10, NullAssumption DEF PushBody, PushSound
    <2>2. \E pc, item : Answered(j, e, pc, item) /\ SameEntity(e, item)
      BY <1>10, <2>1, SynchronisedSame DEF PushBody
    <2> QED
      BY <1>3, <1>6, <2>1, <2>2 DEF PushHolds, PushKeeps
  <1>11. CASE PushSave(j) \/ PushRescue(j) \/ VerifySave(j)
    <2> DEFINE e == push[j].item
    <2>1. e \in Row /\ e # NoItem
      BY <1>1, <1>11, NullAssumption DEF PushSave, PushRescue, VerifySave, PushSound
    <2>2. CASE ~Rejected(e)
      <3>1. content' = Stored(e)
        BY <1>11, <2>2 DEF PushSave, PushRescue, VerifySave
      <3>2. push'[j] \in {PushIdle, NextItem(push[j].queue), NextCheck(push[j].queue)}
        BY <1>5, <1>11, <2>2 DEF PushSave, PushRescue, VerifySave
      <3> QED
        BY <1>3, <1>4, <2>1, <2>2, <3>1, <3>2 DEF PushStores
    <2>3. CASE Rejected(e)
      <3>1. content' = content
        BY <1>11, <2>3 DEF PushSave, PushRescue, VerifySave
      <3>2. push'[j] = PushIdle \/ Answered(j, e, "rescue", Failed(e))
        BY <1>5, <1>11, <2>3 DEF PushSave, PushRescue, VerifySave
      <3> QED
        BY <1>3, <1>4, <1>6, <2>1, <3>1, <3>2, SynchronisedSame
        DEF PushDrops, PushHolds, PushKeeps
    <2> QED
      BY <2>2, <2>3
  <1>12. ASSUME NEW e \in push[j].queue, VerifyPage(j, e) PROVE PushDrops(j) \/ PushTakes(j)
    <2>1. content' = content /\ e \in Row
      BY <1>1, <1>12 DEF VerifyPage
    <2>2. \/ Answered(j, e, "forget", Forgotten(e))
          \/ push'[j] = NextCheck(push[j].queue \ {e}) \/ push'[j] = NextCheck({})
      BY <1>5, <1>12 DEF VerifyPage
    <2> QED
      BY <1>4, <1>6, <2>1, <2>2, SynchronisedSame DEF PushDrops, PushTakes, PushKeeps
  <1> QED
    BY <1>3, <1>7, <1>8, <1>9, <1>10, <1>11, <1>12 DEF Push

\* A step of a push, while no other task holds a row it holds.
LEMMA PushCurrent ==
    ASSUME IInv, UInv, HInv, RowsHeldApart, NEW j \in Pushes, Push(j) PROVE HInv'
  <1>1. /\ \A k \in Pushes \ {j} : push'[k] = push[k]
        /\ UNCHANGED <<removed, pull, update>>
        /\ PushDrops(j) \/ PushTakes(j) \/ PushHolds(j) \/ PushStores(j)
    BY PushShape
  <1>2. push[j].queue \subseteq Row /\ content \subseteq Row
    BY DEF IInv, TypeOK, PushTask
  <1>4. content' = content => KnownIds' = KnownIds
    BY <1>1 DEF KnownIds
  <1>5. \A e \in content : Exact(content, e) /\ e.id \in KnownIds
    BY DEF UInv, OneRowPerPage, Exact, KnownIds
  <1>6. \A e, f \in content : e.id = f.id => e = f
    BY DEF UInv, OneRowPerPage
  <1>7. CASE PushDrops(j)
    BY <1>1, <1>4, <1>5, <1>6, <1>7
    DEF PushDrops, HInv, RowsHeldCurrent, QueuesDistinct, HeldKnown
  <1>8. CASE PushTakes(j)
    <2>1. PICK e \in push[j].queue : e \notin push'[j].queue /\ SameEntity(e, push'[j].item)
      BY <1>8 DEF PushTakes
    <2>2. content' = content /\ push'[j].queue \subseteq push[j].queue
      BY <1>8 DEF PushTakes, PushKeeps
    <2>3. SameWriting(content, push'[j].item)
      BY <2>1 DEF HInv, RowsHeldCurrent, Exact, SameWriting, SameEntity
    <2>4. \A f \in push'[j].queue : f.id # push'[j].item.id
      BY <2>1, <2>2 DEF HInv, QueuesDistinct, SameEntity
    <2>5. push'[j].item.id \in KnownIds
      BY <2>1 DEF HInv, HeldKnown, SameEntity
    <2> QED
      BY <1>1, <1>4, <2>2, <2>3, <2>4, <2>5
      DEF HInv, RowsHeldCurrent, QueuesDistinct, HeldKnown
  <1>9. CASE PushHolds(j)
    <2>1. /\ content' = content /\ push'[j].queue \subseteq push[j].queue
          /\ push[j].item # NoItem /\ SameEntity(push[j].item, push'[j].item)
      BY <1>9 DEF PushHolds, PushKeeps
    <2>2. SameWriting(content, push'[j].item)
      BY <2>1 DEF HInv, RowsHeldCurrent, SameWriting, SameEntity
    <2>3. \A f \in push'[j].queue : f.id # push'[j].item.id
      BY <2>1 DEF HInv, QueuesDistinct, SameEntity
    <2>4. push'[j].item.id \in KnownIds
      BY <2>1 DEF HInv, HeldKnown, SameEntity
    <2> QED
      BY <1>1, <1>4, <2>1, <2>2, <2>3, <2>4
      DEF HInv, RowsHeldCurrent, QueuesDistinct, HeldKnown
  <1>10. CASE PushStores(j)
    <2> DEFINE i == push[j].item.id
    <2>1. /\ push[j].item # NoItem /\ push'[j].item = NoItem
          /\ push'[j].queue \subseteq push[j].queue
          /\ push[j].item \in Row /\ ~Rejected(push[j].item) /\ content' = Stored(push[j].item)
      BY <1>10 DEF PushStores
    <2>2. OnlyRows({i}) /\ i \in Items
      BY <2>1 DEF OnlyRows, Stored, Row
    <2>3. KnownIds \subseteq KnownIds'
      BY <1>1, <2>1, KnownKept
    <2>4. ~PushFree(i, j)
      BY <2>1 DEF PushFree
    <2>5. /\ \A k \in Pushes \ {j} : PushFree(i, k)
          /\ \A l \in Pulls : PullFree(i, l)
          /\ \A u \in Updates : UpdateFree(i, u)
      BY <2>2, <2>4, HeldByOne
    <2>6. \A e \in push[j].queue : e.id # i
      BY <2>1 DEF HInv, QueuesDistinct
    <2> HIDE DEF i
    <2> QED
      BY <1>1, <2>1, <2>2, <2>3, <2>5, <2>6, OthersCurrent DEF PushFree, PullFree, UpdateFree
  <1> QED
    BY <1>1, <1>7, <1>8, <1>9, <1>10

\* A step of the application.
LEMMA PatchedId ==
    ASSUME NEW e \in Row, NEW s, NEW b PROVE Patched(e, s, b).id = e.id
  BY DEF Patched, Row

LEMMA AppCurrent ==
    ASSUME IInv, UInv, HInv, RowsHeldApart, App PROVE HInv'
  <1>1. /\ content \subseteq Row /\ update \in [Updates -> Row \cup {NoItem}]
        /\ \A e, f \in content : e.id = f.id => e = f
    BY DEF UInv, TypeOK, OneRowPerPage
  <1>2. ASSUME NEW i \in Items, NEW s \in Statuses, Create(i, s) PROVE HInv'
    <2>1. /\ UNCHANGED <<removed, push, pull, update>> /\ FreshId(i)
          /\ \E e : e.id = i /\ content' = content \cup {e}
      BY <1>2 DEF Create
    <2>2. OnlyRows({i}) /\ KnownIds \subseteq KnownIds'
      BY <2>1, KnownKept DEF OnlyRows
    <2>3. i \notin KnownIds /\ \A l \in Pulls : pull[l].pc = "insert" => pull[l].item.id # i
      BY <2>1 DEF FreshId, KnownIds
    <2>4. /\ \A j \in Pushes : PushFree(i, j)
          /\ \A l \in Pulls : PullFree(i, l)
          /\ \A u \in Updates : UpdateFree(i, u)
      BY <2>3 DEF HInv, HeldKnown, PushFree, PullFree, UpdateFree
    <2> QED
      BY <2>1, <2>2, <2>4, OthersCurrent DEF PushFree, PullFree, UpdateFree
  <1>3. ASSUME NEW u \in Updates, NEW r \in content, UpdateRead(u, r) PROVE HInv'
    <2>1. /\ UNCHANGED <<content, removed, push, pull>>
          /\ \A v \in Updates : update'[v] = update[v] \/ update'[v] = r
      BY <1>1, <1>3 DEF UpdateRead
    <2>2. Exact(content, r) /\ r.id \in KnownIds /\ KnownIds' = KnownIds
      BY <1>1, <2>1 DEF Exact, KnownIds
    <2> QED
      BY <2>1, <2>2 DEF HInv, RowsHeldCurrent, QueuesDistinct, HeldKnown
  <1>4. ASSUME NEW u \in Updates, NEW s \in Statuses, NEW b \in BOOLEAN, UpdateSave(u, s, b)
        PROVE  HInv'
    <2> DEFINE e == Patched(update[u], s, b)  i == update[u].id
    <2>1. /\ UNCHANGED <<removed, push, pull>> /\ update[u] \in Row /\ update[u] # NoItem
          /\ update'[u] = NoItem /\ \A v \in Updates \ {u} : update'[v] = update[v]
          /\ content' = IF Rejected(e) THEN content ELSE Stored(e)
      BY <1>1, <1>4 DEF UpdateSave
    <2>2. e \in Row /\ e.id = i /\ i \in Items
      BY <1>4, <2>1, PatchedType, PatchedId DEF IInv, TypeOK, Row
    <2>3. OnlyRows({i})
      BY <2>1, <2>2 DEF OnlyRows, Stored
    <2>4. KnownIds \subseteq KnownIds'
      <3> HIDE DEF e
      <3> QED
        BY <2>1, <2>2, KnownKept
    <2>5. ~UpdateFree(i, u)
      BY <2>1 DEF UpdateFree
    <2>6. /\ \A v \in Updates \ {u} : UpdateFree(i, v)
          /\ \A j \in Pushes : PushFree(i, j)
          /\ \A l \in Pulls : PullFree(i, l)
      BY <2>2, <2>5, HeldByOne
    <2> HIDE DEF e, i
    <2> QED
      BY <2>1, <2>3, <2>4, <2>6, OthersCurrent DEF PushFree, PullFree, UpdateFree
  <1>5. ASSUME NEW old \in SUBSET content, content' = content \ old,
               removed' = removed \cup {r.id : r \in old}, UNCHANGED <<push, pull, update>>
        PROVE  HInv'
    <2>1. OnlyRows({}) /\ KnownIds \subseteq KnownIds'
      BY <1>5, KnownKept DEF OnlyRows
    <2> QED
      BY <1>5, <2>1, OthersCurrent
  <1>6. ASSUME NEW r \in content, Remove(r) PROVE HInv'
    <2>1. {r} \in SUBSET content /\ {r.id} = {x.id : x \in {r}}
      OBVIOUS
    <2> QED
      BY <1>5, <1>6, <2>1 DEF Remove
  <1>7. ASSUME NEW old \in SUBSET Purgeable, PurgeExpired(old) PROVE HInv'
    BY <1>5, <1>7 DEF PurgeExpired, Purgeable
  <1> QED
    BY <1>2, <1>3, <1>4, <1>6, <1>7 DEF App

\* A step of a pull.
LEMMA PullCurrent ==
    ASSUME IInv, UInv, HInv, RowsHeldApart, NEW l \in Pulls, Pull(l) PROVE HInv'
  <1>1. /\ pull \in [Pulls -> PullTask] /\ content \subseteq Row
        /\ PullIdle.item = NoItem /\ \A seen : NextPage(seen).item = NoItem
    BY DEF UInv, TypeOK, NextPage, PullIdle
  <1>2. /\ UNCHANGED <<removed, push, update>>
        /\ \A k \in Pulls \ {l} : pull'[k] = pull[k]
    BY <1>1 DEF Pull, PullStart, PullQuery, PullSave, PullInsert, PullKnown, PullNew, SetPull
  <1>3. ASSUME NEW task, SetPull(l, task) PROVE pull'[l] = task
    BY <1>1, <1>3 DEF SetPull
  <1>4. ASSUME content' = content,
               pull'[l].item # NoItem => /\ SameStatus(content, pull'[l].item)
                                         /\ pull'[l].pc = "insert" \/ pull'[l].item.id \in KnownIds
        PROVE  HInv'
    <2>1. KnownIds' = KnownIds
      BY <1>2, <1>4 DEF KnownIds
    <2> QED
      BY <1>2, <1>4, <2>1 DEF HInv, RowsHeldCurrent, QueuesDistinct, HeldKnown
  <1>5. ASSUME NEW e \in Row, pull[l].item = e, pull'[l].item = NoItem,
               \/ content' = content
               \/ ~Rejected(e) /\ content' = Stored(e)
               \/ content' = content \cup {e}
        PROVE  HInv'
    <2> DEFINE i == e.id
    <2>1. OnlyRows({i}) /\ i \in Items
      BY <1>5 DEF OnlyRows, Stored, Row
    <2>2. KnownIds \subseteq KnownIds'
      BY <1>2, <1>5, KnownKept
    <2>3. ~PullFree(i, l)
      BY <1>5, NullAssumption DEF PullFree
    <2>4. /\ \A k \in Pulls \ {l} : PullFree(i, k)
          /\ \A j \in Pushes : PushFree(i, j)
          /\ \A u \in Updates : UpdateFree(i, u)
      BY <2>1, <2>3, HeldByOne
    <2> HIDE DEF i
    <2> QED
      BY <1>2, <1>5, <2>1, <2>2, <2>4, OthersCurrent DEF PushFree, PullFree, UpdateFree
  <1>6. CASE PullStart(l) \/ PullQuery(l)
    <2>1. content' = content
      BY <1>6 DEF PullStart, PullQuery
    <2>2. CASE PullStart(l)
      <3>1. pull'[l].item = NoItem
        BY <1>3, <2>2 DEF PullStart, PullIdle
      <3> QED
        BY <1>4, <2>1, <3>1
    <2>3. CASE PullQuery(l)
      <3> DEFINE Asked(seen) == [pull[l] EXCEPT !.seen = seen]
      <3>1. pull[l].pc = "query" /\ \A seen : Asked(seen).item = pull[l].item
        BY <1>1, <2>3 DEF PullQuery, PullTask
      <3>2. \E seen : pull'[l] \in {NextPage(seen), Asked(seen), PullIdle}
        BY <1>3, <2>3 DEF PullQuery
      <3> HIDE DEF Asked
      <3>3. pull'[l].item \in {NoItem, pull[l].item}
        BY <1>1, <3>1, <3>2
      <3> QED
        BY <1>4, <2>1, <3>1, <3>3 DEF HInv, RowsHeldCurrent, HeldKnown
    <2> QED
      BY <1>6, <2>2, <2>3
  <1>7. ASSUME NEW q \in pull[l].seen, NEW r \in content, PullKnown(l, q, r) PROVE HInv'
    <2>1. content' = content
      BY <1>7 DEF PullKnown
    <2>2. CASE pull'[l] = NextPage(pull[l].seen \ {q})
      BY <1>1, <1>4, <2>1, <2>2
    <2>3. ASSUME NEW s \in {"SYNCED", "CONFLICT"}, pull'[l].item = Pulled(r, q, s) PROVE HInv'
      <3>1. /\ Pulled(r, q, s).id = r.id /\ Pulled(r, q, s).status = r.status
        BY <1>1 DEF Pulled, Row
      <3>2. SameStatus(content, r) /\ r.id \in KnownIds
        BY DEF SameStatus, KnownIds, UInv, OneRowPerPage
      <3>3. SameStatus(content, Pulled(r, q, s)) /\ Pulled(r, q, s).id \in KnownIds
        BY <3>1, <3>2 DEF SameStatus
      <3> QED
        BY <1>4, <2>1, <2>3, <3>3
    <2>4. \/ pull'[l] = NextPage(pull[l].seen \ {q})
          \/ \E s \in {"SYNCED", "CONFLICT"} : pull'[l].item = Pulled(r, q, s)
      <3>1. CASE UpToDate(r, q)
        BY <1>3, <1>7, <3>1 DEF PullKnown
      <3>2. CASE ~UpToDate(r, q)
        <4>1. PICK s \in {"SYNCED", "CONFLICT"} :
                SetPull(l, [pc |-> "save", seen |-> pull[l].seen \ {q}, item |-> Pulled(r, q, s)])
          BY <1>7, <3>2 DEF PullKnown
        <4> QED
          BY <1>3, <4>1
      <3> QED
        BY <3>1, <3>2
    <2> QED
      BY <2>2, <2>3, <2>4
  <1>8. ASSUME NEW q \in pull[l].seen, NEW i \in Items, NEW s \in Statuses, PullNew(l, q, i, s)
        PROVE  HInv'
    <2>1. /\ content' = content /\ FreshId(i)
          /\ pull'[l].pc = "insert" /\ pull'[l].item.id = i
      BY <1>3, <1>8 DEF PullNew
    <2>2. SameStatus(content, pull'[l].item)
      BY <2>1 DEF FreshId, SameStatus
    <2> QED
      BY <1>4, <2>1, <2>2
  <1>9. CASE PullSave(l) \/ PullInsert(l)
    <2> DEFINE e == pull[l].item
    <2>1. e \in Row
      BY <1>9 DEF PullSave, PullInsert, IInv, PullsSound, PullSound
    <2>2. pull'[l].item = NoItem
      BY <1>1, <1>3, <1>9 DEF PullSave, PullInsert
    <2>3. content' = content \/ (~Rejected(e) /\ content' = Stored(e)) \/ content' = content \cup {e}
      BY <1>9 DEF PullSave, PullInsert
    <2> QED
      BY <1>5, <2>1, <2>2, <2>3
  <1> QED
    BY <1>6, <1>7, <1>8, <1>9 DEF Pull


\* As long as no two tasks hold the same row, what a PATCH or a push is about to
\* save or send is the row as it stands but for what it has set itself, and what
\* a pull saves leaves the status alone: content.service.ts and
\* notion-sync.service.ts lose an edit by overlapping only.
THEOREM TasksApartKeepRows == Spec => SerialTasksKeepRows
  <1>1. Init => HInv
    BY DEF Init, HInv, RowsHeldCurrent, QueuesDistinct, HeldKnown, PushIdle, PullIdle
  <1>2. IInv /\ UInv /\ HInv /\ RowsHeldApart /\ [Next]_vars => HInv'
    <2> SUFFICES ASSUME IInv, UInv, HInv, RowsHeldApart, [Next]_vars PROVE HInv'
      OBVIOUS
    <2>1. ASSUME UNCHANGED <<content, removed, push, pull, update>> PROVE HInv'
      BY <2>1 DEF HInv, RowsHeldCurrent, QueuesDistinct, HeldKnown, KnownIds
    <2>2. CASE UNCHANGED vars
      BY <2>1, <2>2 DEF vars
    <2>3. CASE People
      BY <2>1, <2>3 DEF People, NotionWrite, NotionTrash, NotionRestore, NotionDelete
    <2>4. CASE Restart
      <3>1. /\ UNCHANGED <<content, removed>>
            /\ \A u \in Updates : update'[u] = NoItem
            /\ \A j \in Pushes : push'[j].queue = {} /\ push'[j].item = NoItem
            /\ \A l \in Pulls : pull'[l].item = NoItem
        BY <2>4 DEF Restart, PushIdle, PullIdle
      <3> QED
        BY <3>1 DEF HInv, RowsHeldCurrent, QueuesDistinct, HeldKnown
    <2> QED
      BY <2>2, <2>3, <2>4, AppCurrent, PushCurrent, PullCurrent DEF Next
  <1>3. HInv => RowsHeldCurrent
    BY DEF HInv
  <1> QED
    BY <1>1, <1>2, <1>3, Invariance, UniqueInvariance, PTL DEF Spec, SerialTasksKeepRows

\* In particular the save of an export takes back nothing the application wrote:
\* what PushKeepsEdits says, and a run refutes when a PATCH overlaps the export,
\* holds of tasks that do not overlap.
THEOREM PushesApartKeepEdits == Spec => ([]RowsHeldApart => PushKeepsEdits)
  <1>1. IInv /\ UInv /\ RowsHeldCurrent =>
            \A j \in Pushes : PushSave(j) =>
                \A r \in content, s \in content' :
                    r.id = s.id => s.data = r.data /\ s.status = r.status
    <2> SUFFICES ASSUME IInv, UInv, RowsHeldCurrent, NEW j \in Pushes, PushSave(j),
                        NEW r \in content, NEW s \in content', r.id = s.id
                 PROVE  s.data = r.data /\ s.status = r.status
      OBVIOUS
    <2> DEFINE e == push[j].item
    <2>1. e \in Row /\ e # NoItem
      BY NullAssumption DEF PushSave, IInv, PushesSound, PushSound
    <2>2. content' = content \/ content' = Stored(e)
      BY DEF PushSave
    <2>3. s \in content \/ s = e
      BY <2>2 DEF Stored
    <2>4. CASE s \in content
      BY <2>4 DEF UInv, OneRowPerPage
    <2>5. CASE s = e
      BY <2>1, <2>5 DEF RowsHeldCurrent, SameWriting
    <2> QED
      BY <2>3, <2>4, <2>5
  <1>2. Spec => ([]RowsHeldApart => []RowsHeldCurrent)
    BY TasksApartKeepRows DEF SerialTasksKeepRows
  <1> QED
    BY <1>1, <1>2, Invariance, UniqueInvariance, PTL DEF PushKeepsEdits
====
