---- MODULE FeedIngestion_proofs ----
(***************************************************************************)
(* Proofs about FeedIngestion, for every value of its constants.           *)
(***************************************************************************)
EXTENDS FeedIngestion, TLAPS

-----------------------------------------------------------------------------
(* Types.                                                                    *)

LEMMA IngestionFields ==
    ASSUME FeedsTypeOK, NEW i \in Ingestions, ingestion[i] # None
    PROVE  /\ ingestion[i] \in Ingestion /\ ingestion[i].feed \in Held
           /\ ingestion[i].rest \subseteq Held /\ ingestion[i].todo \subseteq Nat \X Links
  BY DEF FeedsTypeOK, Ingestion

LEMMA HeldFields ==
    ASSUME NEW h \in Held PROVE h.id \in FeedIds /\ h.row \in Feed /\ h.row # None
  BY FeedAssumption DEF Held

LEMMA EntriesType ==
    ASSUME FeedsTypeOK, NEW f \in FeedIds PROVE Entries(web[f]) \subseteq Nat \X Links
  <1>1. web[f] \in Seq(Links)
    BY FeedAssumption DEF FeedsTypeOK
  <1> QED
    BY <1>1 DEF Entries

LEMMA TodoType ==
    ASSUME FeedsTypeOK, NEW i \in Ingestions, ingestion[i] # None,
           NEW entries \in SUBSET (Nat \X Links)
    PROVE  Todo(i, entries) \in Ingestion
  BY IngestionFields DEF Todo, Ingestion

\* The types of what SetIngestion sets and leaves.
LEMMA SetIngestionType ==
    ASSUME FeedsTypeOK, NEW i \in Ingestions, NEW task \in Ingestion \cup {None},
           SetIngestion(i, task)
    PROVE  /\ ingestion' \in [Ingestions -> Ingestion \cup {None}]
           /\ UNCHANGED <<goneFeeds, web, manual, feedEdit>>
  BY DEF FeedsTypeOK, SetIngestion

LEMMA NextFeedType ==
    ASSUME FeedsTypeOK, NEW i \in Ingestions, NEW left \in SUBSET Held, NextFeed(i, left)
    PROVE  /\ ingestion' \in [Ingestions -> Ingestion \cup {None}]
           /\ UNCHANGED <<goneFeeds, web, manual, feedEdit>>
  <1>1. ASSUME NEW h \in left
        PROVE  [pc |-> "fetch", feed |-> h, rest |-> left \ {h}, todo |-> {}] \in Ingestion
    BY DEF Ingestion
  <1> QED
    BY <1>1, SetIngestionType DEF NextFeed

LEMMA SavedType ==
    ASSUME FeedsTypeOK, NEW h \in Held, Saved(h) \/ SaveRefused
    PROVE  feeds' \in [FeedIds -> Feed \cup {None}]
  BY HeldFields DEF FeedsTypeOK, Saved, SaveRefused

\* What a task reads of the standing feeds.
LEMMA ReadType ==
    ASSUME FeedsTypeOK, NEW ids \in SUBSET Standing
    PROVE  {[id |-> f, row |-> feeds[f]] : f \in ids} \in SUBSET Held
  BY DEF FeedsTypeOK, Standing, Held

LEMMA FeedsTypeInit == FeedInit => FeedsTypeOK
  BY FeedAssumption DEF FeedInit, FeedsTypeOK, Feed

LEMMA IngestionType ==
    ASSUME FeedsTypeOK, NEW i \in Ingestions,
           \/ IngestAll(i) \/ FeedStep(i) \/ \E f \in FeedIds : IngestOne(i, f)
    PROVE  FeedsTypeOK'
  <1>1. CASE IngestAll(i)
    <2>1. ingestion' \in [Ingestions -> Ingestion \cup {None}]
          /\ UNCHANGED <<goneFeeds, web, manual, feedEdit>>
      BY <1>1, ReadType, NextFeedType DEF IngestAll
    <2> QED
      BY <1>1, <2>1 DEF IngestAll, FeedsTypeOK
  <1>2. ASSUME NEW f \in FeedIds, IngestOne(i, f) PROVE FeedsTypeOK'
    <2>1. {[id |-> f, row |-> feeds[f]]} \in SUBSET Held
      BY <1>2 DEF IngestOne, FeedsTypeOK, Standing, Held
    <2>2. ingestion' \in [Ingestions -> Ingestion \cup {None}]
          /\ UNCHANGED <<goneFeeds, web, manual, feedEdit>>
      BY <1>2, <2>1, NextFeedType DEF IngestOne
    <2> QED
      BY <1>2, <2>2 DEF IngestOne, FeedsTypeOK
  <1>3. CASE FetchAnswered(i)
    <2> DEFINE entries == Entries(web[ingestion[i].feed.id])
               task == [ingestion[i] EXCEPT !.pc = IF entries = {} THEN "save" ELSE "find",
                                            !.todo = entries]
    <2>1. ingestion[i] # None
      BY <1>3 DEF FetchAnswered, IngestionAt
    <2>2. entries \subseteq Nat \X Links
      BY <2>1, IngestionFields, HeldFields, EntriesType
    <2>3. task \in Ingestion
      BY <2>1, <2>2, IngestionFields DEF Ingestion
    <2>4. SetIngestion(i, task)
      BY <1>3 DEF FetchAnswered
    <2> QED
      BY <1>3, <2>3, <2>4, SetIngestionType DEF FetchAnswered, FeedsTypeOK
  <1>4. CASE FeedFailed(i)
    <2>1. ingestion' \in [Ingestions -> Ingestion \cup {None}]
          /\ UNCHANGED <<goneFeeds, web, manual, feedEdit>>
      BY <1>4, IngestionFields, NextFeedType DEF FeedFailed, IngestionAt
    <2> QED
      BY <1>4, <2>1 DEF FeedFailed, FeedsTypeOK
  <1>5. CASE FindKnown(i)
    <2> DEFINE entries == {e \in ingestion[i].todo : ~InCuration(e[2])}
    <2>1. ingestion[i] # None
      BY <1>5 DEF FindKnown, IngestionAt
    <2>2. entries \in SUBSET (Nat \X Links)
      BY <2>1, IngestionFields
    <2>3. SetIngestion(i, Todo(i, entries)) /\ Todo(i, entries) \in Ingestion
      BY <1>5, <2>1, <2>2, TodoType DEF FindKnown
    <2> QED
      BY <1>5, <2>3, SetIngestionType DEF FindKnown, FeedsTypeOK
  <1>6. CASE CreateItem(i)
    <2>1. ingestion[i] # None
      BY <1>6 DEF CreateItem, IngestionAt
    <2>2. PICK e \in ingestion[i].todo :
             /\ imported' = [imported EXCEPT ![e[2]] = @ + 1]
             /\ SetIngestion(i, Todo(i, AfterCreate(ingestion[i].todo, e)))
      BY <1>6 DEF CreateItem
    <2>3. AfterCreate(ingestion[i].todo, e) \in SUBSET (Nat \X Links)
      BY <2>1, IngestionFields DEF AfterCreate
    <2>4. Todo(i, AfterCreate(ingestion[i].todo, e)) \in Ingestion
      BY <2>1, <2>3, TodoType
    <2>a. e[2] \in Links
      BY <2>1, IngestionFields
    <2>5. imported' \in [Links -> Nat]
      BY <2>2, <2>a DEF FeedsTypeOK
    <2> QED
      BY <1>6, <2>2, <2>4, <2>5, SetIngestionType DEF CreateItem, FeedsTypeOK
  <1>7. CASE SaveFeed(i)
    <2>1. ingestion' \in [Ingestions -> Ingestion \cup {None}]
          /\ UNCHANGED <<goneFeeds, web, manual, feedEdit>>
      BY <1>7, IngestionFields, NextFeedType DEF SaveFeed, IngestionAt
    <2>2. feeds' \in [FeedIds -> Feed \cup {None}]
      BY <1>7, IngestionFields, SavedType DEF SaveFeed, IngestionAt
    <2> QED
      BY <1>7, <2>1, <2>2 DEF SaveFeed, FeedsTypeOK
  <1> QED
    BY <1>1, <1>2, <1>3, <1>4, <1>5, <1>6, <1>7 DEF FeedStep

LEMMA FeedsTypeStep == FeedsTypeOK /\ [FeedNext]_feedVars => FeedsTypeOK'
  <1> SUFFICES ASSUME FeedsTypeOK, [FeedNext]_feedVars PROVE FeedsTypeOK'
    OBVIOUS
  <1>1. ASSUME NEW f \in FeedIds, CreateFeed(f) \/ RemoveFeed(f) PROVE FeedsTypeOK'
    BY <1>1 DEF CreateFeed, RemoveFeed, FeedsTypeOK, Feed
  <1>2. ASSUME NEW e \in FeedEdits, EditFeedSave(e) PROVE FeedsTypeOK'
    <2>1. feedEdit[e] \in Held
      BY <1>2 DEF EditFeedSave, FeedsTypeOK
    <2>2. feeds' \in [FeedIds -> Feed \cup {None}]
      BY <1>2, <2>1, SavedType DEF EditFeedSave
    <2> QED
      BY <1>2, <2>2 DEF EditFeedSave, FeedsTypeOK
  <1>3. ASSUME NEW e \in FeedEdits, NEW f \in FeedIds, NEW new \in Feed, EditFeed(e, f, new)
        PROVE  FeedsTypeOK'
    BY <1>3 DEF EditFeed, FeedsTypeOK, Held
  <1>4. ASSUME NEW l \in Links, AddItem(l) \/ LoseItem(l) PROVE FeedsTypeOK'
    BY <1>4 DEF AddItem, LoseItem, FeedsTypeOK
  <1>5. ASSUME NEW f \in FeedIds, NEW links \in Listings, Publish(f, links) PROVE FeedsTypeOK'
    BY <1>5 DEF Publish, FeedsTypeOK
  <1>6. CASE FeedStop
    BY <1>6 DEF FeedStop, FeedsTypeOK
  <1>7. CASE UNCHANGED feedVars
    BY <1>7 DEF feedVars, FeedsTypeOK
  <1>8. \A i \in OnDemand : i \in Ingestions
    BY DEF Ingestions
  <1> QED
    BY <1>1, <1>2, <1>3, <1>4, <1>5, <1>6, <1>7, <1>8, IngestionType DEF FeedNext

\* Every variable of the feeds and their ingestion keeps its type.
THEOREM FeedsTypeCorrect == FeedSpec => []FeedsTypeOK
  BY FeedsTypeInit, FeedsTypeStep, PTL DEF FeedSpec

-----------------------------------------------------------------------------
(* What the steps of an ingestion change.                                    *)

\* An ingestion changes the table of feeds only with the save of the feed it
\* holds, and the items only in CreateItem.
LEMMA IngestionFrame ==
    ASSUME NEW i \in Ingestions,
           \/ IngestAll(i) \/ FeedStep(i) \/ \E f \in FeedIds : IngestOne(i, f)
    PROVE  /\ UNCHANGED <<goneFeeds, web, manual, feedEdit>>
           /\ feeds' = feeds \/ (SaveFeed(i) /\ Saved(ingestion[i].feed))
           /\ imported' = imported \/ CreateItem(i)
  BY DEF IngestAll, FeedStep, IngestOne, FetchAnswered, FeedFailed, FindKnown,
         CreateItem, SaveFeed, SaveRefused, NextFeed, SetIngestion

-----------------------------------------------------------------------------
(* Removed feeds.                                                            *)

LEMMA RemovedInit == FeedInit => RemovedFeedsStayRemoved
  BY DEF FeedInit, RemovedFeedsStayRemoved

LEMMA RemovedSaved ==
    ASSUME FeedsTypeOK, RemovedFeedsStayRemoved, NEW h \in Held, Saved(h), UNCHANGED goneFeeds
    PROVE  RemovedFeedsStayRemoved'
  BY HeldFields DEF FeedsTypeOK, RemovedFeedsStayRemoved, Saved, Standing

LEMMA RemovedStep ==
    FeedsTypeOK /\ RemovedFeedsStayRemoved /\ [FeedNext]_feedVars => RemovedFeedsStayRemoved'
  <1> SUFFICES ASSUME FeedsTypeOK, RemovedFeedsStayRemoved, [FeedNext]_feedVars
               PROVE  RemovedFeedsStayRemoved'
    OBVIOUS
  <1>1. ASSUME NEW f \in FeedIds, CreateFeed(f) \/ RemoveFeed(f)
        PROVE  RemovedFeedsStayRemoved'
    BY <1>1 DEF CreateFeed, RemoveFeed, FeedsTypeOK, RemovedFeedsStayRemoved, Standing
  <1>2. CASE UNCHANGED <<feeds, goneFeeds>>
    BY <1>2 DEF RemovedFeedsStayRemoved, Standing
  <1>3. ASSUME NEW e \in FeedEdits, EditFeedSave(e) PROVE RemovedFeedsStayRemoved'
    <2>1. feedEdit[e] \in Held
      BY <1>3 DEF EditFeedSave, FeedsTypeOK
    <2> QED
      BY <1>2, <1>3, <2>1, RemovedSaved DEF EditFeedSave, SaveRefused
  <1>4. ASSUME NEW i \in Ingestions,
               \/ IngestAll(i) \/ FeedStep(i) \/ \E f \in FeedIds : IngestOne(i, f)
        PROVE  RemovedFeedsStayRemoved'
    <2>1. SaveFeed(i) => ingestion[i].feed \in Held
      BY IngestionFields DEF SaveFeed, IngestionAt
    <2> QED
      BY <1>2, <1>4, <2>1, IngestionFrame, RemovedSaved
  <1>5. \A i \in OnDemand : i \in Ingestions
    BY DEF Ingestions
  <1> QED
    BY <1>1, <1>2, <1>3, <1>4, <1>5
    DEF FeedNext, EditFeed, AddItem, LoseItem, Publish, FeedStop, feedVars

\* No save of a row read before its removal brings a feed back.
THEOREM RemovalIsFinal == FeedSpec => []RemovedFeedsStayRemoved
  BY RemovedInit, RemovedStep, FeedsTypeCorrect, PTL DEF FeedSpec

-----------------------------------------------------------------------------
(* Items of one link.                                                        *)

\* What an ingestion is about to create is not there.
ImportInv ==
    /\ OneImportPerLink
    /\ \A i \in Ingestions :
         IngestionAt(i, "create") => \A e \in ingestion[i].todo : imported[e[2]] = 0

LEMMA ImportInit == FeedInit => ImportInv
  BY DEF FeedInit, ImportInv, OneImportPerLink, IngestionAt

\* The stage of a task NextFeed sets.
LEMMA NextFeedStage ==
    ASSUME FeedsTypeOK, NEW i \in Ingestions, NEW left, NextFeed(i, left)
    PROVE  /\ ~IngestionAt(i, "create")'
           /\ \A j \in Ingestions : j # i => ingestion'[j] = ingestion[j]
  BY DEF NextFeed, SetIngestion, FeedsTypeOK, IngestionAt

LEMMA ImportIngestion ==
    ASSUME FeedsTypeOK, ImportInv, OneIngestion, NEW i \in Ingestions,
           \/ IngestAll(i) \/ FeedStep(i) \/ \E f \in FeedIds : IngestOne(i, f)
    PROVE  ImportInv'
  <1>0. \A j \in Ingestions : j # i => ingestion'[j] = ingestion[j]
    BY NextFeedStage DEF IngestAll, FeedStep, IngestOne, FetchAnswered, FeedFailed,
       FindKnown, CreateItem, SaveFeed, SetIngestion, FeedsTypeOK
  <1>1. ASSUME imported' = imported, ~IngestionAt(i, "create")' PROVE ImportInv'
    BY <1>0, <1>1 DEF ImportInv, OneImportPerLink, IngestionAt
  <1>2. CASE IngestAll(i)
    BY <1>1, <1>2, NextFeedStage DEF IngestAll
  <1>3. ASSUME NEW f \in FeedIds, IngestOne(i, f) PROVE ImportInv'
    BY <1>1, <1>3, NextFeedStage DEF IngestOne
  <1>4. CASE FetchAnswered(i)
    <2> DEFINE entries == Entries(web[ingestion[i].feed.id])
               task == [ingestion[i] EXCEPT !.pc = IF entries = {} THEN "save" ELSE "find",
                                            !.todo = entries]
    <2>1. ingestion'[i] = task /\ imported' = imported
      BY <1>4 DEF FetchAnswered, SetIngestion, FeedsTypeOK
    <2>2. task.pc # "create"
      BY <1>4, IngestionFields DEF FetchAnswered, IngestionAt, Ingestion
    <2> QED
      BY <1>1, <2>1, <2>2 DEF IngestionAt
  <1>5. CASE FeedFailed(i)
    BY <1>1, <1>5, NextFeedStage DEF FeedFailed
  <1>6. CASE FindKnown(i)
    <2> DEFINE entries == {e \in ingestion[i].todo : ~InCuration(e[2])}
    <2>1. ingestion[i] # None
      BY <1>6 DEF FindKnown, IngestionAt
    <2>2. ingestion'[i] = Todo(i, entries) /\ imported' = imported
      BY <1>6 DEF FindKnown, SetIngestion, FeedsTypeOK
    <2>3. Todo(i, entries).todo = entries
      BY <2>1, IngestionFields DEF Todo, Ingestion
    <2>4. \A e \in entries : imported[e[2]] = 0
      BY <2>1, IngestionFields DEF FeedsTypeOK, InCuration
    <2> QED
      BY <1>0, <2>2, <2>3, <2>4 DEF ImportInv, OneImportPerLink, IngestionAt
  <1>7. CASE CreateItem(i)
    <2>1. IngestionAt(i, "create") /\ ingestion[i] # None
      BY <1>7 DEF CreateItem, IngestionAt
    <2> DEFINE todo == ingestion[i].todo
    <2>2. PICK e \in todo :
             /\ imported' = [imported EXCEPT ![e[2]] = @ + 1]
             /\ SetIngestion(i, Todo(i, AfterCreate(todo, e)))
      BY <1>7 DEF CreateItem
    <2>3. todo \subseteq Nat \X Links /\ e[2] \in Links /\ \A o \in todo : o[2] \in Links
      BY <2>1, IngestionFields
    <2>4. imported[e[2]] = 0 /\ \A o \in todo : imported[o[2]] = 0
      BY <2>1 DEF ImportInv
    <2>5. imported'[e[2]] = 1 /\ \A l \in Links : l # e[2] => imported'[l] = imported[l]
      BY <2>2, <2>3, <2>4 DEF FeedsTypeOK
    <2>6. OneImportPerLink'
      BY <2>5 DEF ImportInv, OneImportPerLink
    <2>7. ingestion'[i].todo = AfterCreate(todo, e)
      BY <2>1, <2>2, IngestionFields DEF SetIngestion, FeedsTypeOK, Todo, Ingestion
    <2>8. \A o \in AfterCreate(todo, e) : imported'[o[2]] = 0
      BY <2>3, <2>4, <2>5 DEF AfterCreate
    <2>9. \A j \in Ingestions : j # i => ingestion'[j] = None
      BY <1>0, <2>1 DEF OneIngestion
    <2> QED
      BY <2>6, <2>7, <2>8, <2>9 DEF ImportInv, IngestionAt
  <1>8. CASE SaveFeed(i)
    BY <1>1, <1>8, NextFeedStage DEF SaveFeed
  <1> QED
    BY <1>2, <1>3, <1>4, <1>5, <1>6, <1>7, <1>8 DEF FeedStep

LEMMA ImportStep ==
    FeedsTypeOK /\ ImportInv /\ OneIngestion /\ [FeedNext]_feedVars => ImportInv'
  <1> SUFFICES ASSUME FeedsTypeOK, ImportInv, OneIngestion, [FeedNext]_feedVars
               PROVE  ImportInv'
    OBVIOUS
  <1>1. CASE UNCHANGED <<imported, ingestion>>
    BY <1>1 DEF ImportInv, OneImportPerLink, IngestionAt
  <1>2. ASSUME NEW l \in Links, LoseItem(l) PROVE ImportInv'
    <2>1. UNCHANGED ingestion
      BY <1>2 DEF LoseItem
    <2>2. \A k \in Links : imported'[k] \in Nat /\ imported'[k] <= imported[k]
      BY <1>2 DEF LoseItem, FeedsTypeOK
    <2>3. \A i \in Ingestions : ingestion[i] # None => \A e \in ingestion[i].todo : e[2] \in Links
      BY IngestionFields
    <2> QED
      BY <2>1, <2>2, <2>3 DEF ImportInv, OneImportPerLink, IngestionAt, FeedsTypeOK
  <1>3. CASE FeedStop
    BY <1>3 DEF FeedStop, ImportInv, OneImportPerLink, IngestionAt
  <1>4. \A i \in OnDemand : i \in Ingestions
    BY DEF Ingestions
  <1> QED
    BY <1>1, <1>2, <1>3, <1>4, ImportIngestion
    DEF FeedNext, CreateFeed, RemoveFeed, EditFeed, EditFeedSave, AddItem, Publish, feedVars

\* Ingestions that do not overlap never import a link that an import of theirs
\* still stands for.
THEOREM SerialImportsAreOnce == FeedSpec => SerialImportsOnce
  <1>1. ImportInv => OneImportPerLink
    BY DEF ImportInv
  <1> QED
    BY <1>1, ImportInit, ImportStep, FeedsTypeCorrect, PTL DEF FeedSpec, SerialImportsOnce

-----------------------------------------------------------------------------
(* The rows an ingestion holds.                                              *)

\* An ingestion holds rows as they stand, of feeds that stand or are removed.
HeldInv ==
    \A i \in Ingestions : ingestion[i] # None =>
        \A h \in InHand(i) :
            /\ feeds[h.id] \in {h.row, None}
            /\ feeds[h.id] = None => h.id \in goneFeeds

LEMMA HeldInit == FeedInit => HeldInv
  BY DEF FeedInit, HeldInv

\* No step of an ingestion makes it hold a row it did not hold or read.
LEMMA InHandAfterNext ==
    ASSUME FeedsTypeOK, NEW i \in Ingestions, NEW left \in SUBSET Held, NextFeed(i, left),
           ingestion'[i] # None
    PROVE  InHand(i)' \subseteq left
  <1>1. PICK h \in left :
          SetIngestion(i, [pc |-> "fetch", feed |-> h, rest |-> left \ {h}, todo |-> {}])
    BY DEF NextFeed, SetIngestion, FeedsTypeOK
  <1>2. ingestion'[i] = [pc |-> "fetch", feed |-> h, rest |-> left \ {h}, todo |-> {}]
    BY <1>1 DEF SetIngestion, FeedsTypeOK
  <1> QED
    BY <1>2 DEF InHand

LEMMA HeldIngestion ==
    ASSUME FeedsTypeOK, HeldInv, NEW i \in Ingestions,
           \/ IngestAll(i) \/ FeedStep(i) \/ \E f \in FeedIds : IngestOne(i, f)
    PROVE  HeldInv'
  <1>0. /\ \A j \in Ingestions : j # i => ingestion'[j] = ingestion[j]
        /\ UNCHANGED goneFeeds
    BY NextFeedStage, IngestionFrame
    DEF IngestAll, FeedStep, IngestOne, FetchAnswered, FeedFailed,
        FindKnown, CreateItem, SaveFeed, SetIngestion, FeedsTypeOK
  <1>1. feeds' = feeds
    <2>1. ASSUME SaveFeed(i), Saved(ingestion[i].feed) PROVE feeds' = feeds
      <3>1. ingestion[i] # None /\ ingestion[i].feed \in InHand(i)
        BY <2>1 DEF SaveFeed, IngestionAt, InHand
      <3>2. feeds[ingestion[i].feed.id] = ingestion[i].feed.row
        BY <2>1, <3>1 DEF HeldInv, Saved, Standing
      <3> QED
        BY <2>1, <3>2 DEF Saved, FeedsTypeOK
    <2> QED
      BY <2>1, IngestionFrame
  <1>2. ASSUME ingestion'[i] # None =>
                 \A h \in InHand(i)' : feeds[h.id] \in {h.row, None}
                                       /\ (feeds[h.id] = None => h.id \in goneFeeds)
        PROVE  HeldInv'
    BY <1>0, <1>1, <1>2 DEF HeldInv, InHand
  <1>3. ASSUME ingestion[i] # None, ingestion'[i] # None => InHand(i)' \subseteq InHand(i)
        PROVE  HeldInv'
    BY <1>2, <1>3 DEF HeldInv
  <1>4. CASE IngestAll(i)
    <2> DEFINE read == {[id |-> f, row |-> feeds[f]] : f \in {f \in Standing : feeds[f] = "enabled"}}
    <2>1. read \in SUBSET Held /\ NextFeed(i, read)
      BY <1>4, ReadType DEF IngestAll
    <2>2. \A h \in read : feeds[h.id] = h.row /\ feeds[h.id] # None
      BY DEF Standing
    <2>3. ingestion'[i] # None => InHand(i)' \subseteq read
      BY <2>1, InHandAfterNext
    <2> QED
      BY <1>2, <2>2, <2>3
  <1>5. ASSUME NEW f \in FeedIds, IngestOne(i, f) PROVE HeldInv'
    <2> DEFINE read == {[id |-> f, row |-> feeds[f]]}
    <2>1. read \in SUBSET Held /\ NextFeed(i, read)
      BY <1>5 DEF IngestOne, FeedsTypeOK, Standing, Held
    <2>2. \A h \in read : feeds[h.id] = h.row /\ feeds[h.id] # None
      BY <1>5 DEF IngestOne, Standing
    <2>3. ingestion'[i] # None => InHand(i)' \subseteq read
      BY <2>1, InHandAfterNext
    <2> QED
      BY <1>2, <2>2, <2>3
  <1>6. CASE FeedFailed(i) \/ SaveFeed(i)
    <2>1. ingestion[i] # None /\ NextFeed(i, ingestion[i].rest)
      BY <1>6 DEF FeedFailed, SaveFeed, IngestionAt
    <2>2. ingestion'[i] # None => InHand(i)' \subseteq ingestion[i].rest
      BY <2>1, IngestionFields, InHandAfterNext
    <2> QED
      BY <1>3, <2>1, <2>2 DEF InHand
  <1>7. CASE FetchAnswered(i) \/ FindKnown(i) \/ CreateItem(i)
    <2>1. ingestion[i] # None
      BY <1>7 DEF FetchAnswered, FindKnown, CreateItem, IngestionAt
    <2>2. /\ ingestion'[i].feed = ingestion[i].feed
          /\ ingestion'[i].rest = ingestion[i].rest
      <3>1. ASSUME NEW pc, NEW entries,
                   SetIngestion(i, [ingestion[i] EXCEPT !.pc = pc, !.todo = entries])
            PROVE  /\ ingestion'[i].feed = ingestion[i].feed
                   /\ ingestion'[i].rest = ingestion[i].rest
        BY <2>1, <3>1, IngestionFields DEF SetIngestion, FeedsTypeOK, Ingestion
      <3> QED
        BY <1>7, <3>1, Zenon DEF FetchAnswered, FindKnown, CreateItem, Todo
    <2> QED
      BY <1>3, <2>1, <2>2 DEF InHand
  <1> QED
    BY <1>4, <1>5, <1>6, <1>7 DEF FeedStep

LEMMA HeldStep ==
    FeedsTypeOK /\ RemovedFeedsStayRemoved /\ HeldInv /\ ~PatchMeetsIngestion
        /\ [FeedNext]_feedVars => HeldInv'
  <1> SUFFICES ASSUME FeedsTypeOK, RemovedFeedsStayRemoved, HeldInv, ~PatchMeetsIngestion,
                      [FeedNext]_feedVars
               PROVE  HeldInv'
    OBVIOUS
  <1>0. \A i \in Ingestions : ingestion[i] # None => \A h \in InHand(i) : h.id \in FeedIds
    BY IngestionFields, HeldFields DEF InHand
  <1>1. ASSUME UNCHANGED ingestion, goneFeeds \subseteq goneFeeds',
               \A i \in Ingestions : ingestion[i] # None => \A h \in InHand(i) :
                   feeds'[h.id] = feeds[h.id]
                   \/ (feeds'[h.id] = None /\ h.id \in goneFeeds')
        PROVE  HeldInv'
    BY <1>1 DEF HeldInv, InHand
  <1>2. ASSUME NEW f \in FeedIds, CreateFeed(f) PROVE HeldInv'
    <2>1. \A i \in Ingestions : ingestion[i] # None => \A h \in InHand(i) : h.id # f
      BY <1>2 DEF CreateFeed, HeldInv, Standing
    <2> QED
      BY <1>0, <1>1, <1>2, <2>1 DEF CreateFeed, FeedsTypeOK
  <1>3. ASSUME NEW f \in FeedIds, RemoveFeed(f) PROVE HeldInv'
    BY <1>0, <1>1, <1>3 DEF RemoveFeed, FeedsTypeOK
  <1>4. ASSUME NEW e \in FeedEdits, EditFeedSave(e) PROVE HeldInv'
    <2>1. \A i \in Ingestions : ingestion[i] # None => \A h \in InHand(i) : h.id # feedEdit[e].id
      BY <1>4 DEF EditFeedSave, PatchMeetsIngestion
    <2> QED
      BY <1>0, <1>1, <1>4, <2>1 DEF EditFeedSave, Saved, SaveRefused, FeedsTypeOK
  <1>5. CASE UNCHANGED <<feeds, goneFeeds, ingestion>>
    BY <1>1, <1>5
  <1>6. CASE FeedStop
    BY <1>6 DEF FeedStop, HeldInv
  <1>7. \A i \in OnDemand : i \in Ingestions
    BY DEF Ingestions
  <1> QED
    BY <1>2, <1>3, <1>4, <1>5, <1>6, <1>7, HeldIngestion
    DEF FeedNext, EditFeed, AddItem, LoseItem, Publish, feedVars

\* As long as no PATCH meets an ingestion of its feed, no ingestion undoes one.
THEOREM SerialIngestionsKeepFeeds == FeedSpec => SerialIngestionKeepsFeeds
  <1>1. HeldInv => RowsInHandCurrent
    BY DEF HeldInv, RowsInHandCurrent
  <1> QED
    BY <1>1, HeldInit, HeldStep, FeedsTypeCorrect, RemovalIsFinal, PTL
    DEF FeedSpec, SerialIngestionKeepsFeeds

====
