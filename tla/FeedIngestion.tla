---- MODULE FeedIngestion ----
(***************************************************************************)
(* The RSS feeds of one agency and their ingestion into the curation       *)
(* (rss-ingestion.service.ts, feed-source.service.ts, curation.service.ts, *)
(* curation-scheduler.service.ts).  A step is what a task does between two *)
(* awaits.  An item is known by its sourceUrl, here a link; a feed by its  *)
(* id, its address by what it serves.                                      *)
(***************************************************************************)
EXTENDS Common, Naturals, Sequences

CONSTANTS
    FeedIds,        \* row ids: a uuid is never given twice
    Links,          \* sourceUrl of an entry of a feed
    Listings,       \* what a feed may serve: sequences of links
    Hourly,         \* ingestions of the cron task
    OnDemand,       \* ingestions asked for by an editor
    FeedEdits       \* concurrent PATCH requests

VARIABLES
    feeds,          \* feeds[f]: the column enabled of its row, or None
    goneFeeds,      \* the feeds removed
    web,            \* web[f]: what the address of the feed serves
    imported,       \* imported[l]: the items an ingestion made of l that stand
    manual,         \* the links of the other items
    ingestion,      \* the ingestions under way
    feedEdit        \* the PATCH requests under way

feedVars == <<feeds, goneFeeds, web, imported, manual, ingestion, feedEdit>>

Ingestions == Hourly \cup OnDemand
Feed == {"enabled", "disabled"}
Held == [id : FeedIds, row : Feed]      \* a row in memory, as it was read
Ingestion ==
    [pc : {"fetch", "find", "create", "save"}, feed : Held, rest : SUBSET Held,
     todo : SUBSET (Nat \X Links)]      \* entries: their place in the feed and their link

ASSUME FeedAssumption ==
    /\ None \notin Feed \cup Ingestion \cup Held
    /\ Listings \subseteq Seq(Links)

FeedsTypeOK ==
    /\ feeds \in [FeedIds -> Feed \cup {None}]
    /\ goneFeeds \subseteq FeedIds
    /\ web \in [FeedIds -> Listings]
    /\ imported \in [Links -> Nat]
    /\ manual \subseteq Links
    /\ ingestion \in [Ingestions -> Ingestion \cup {None}]
    /\ feedEdit \in [FeedEdits -> Held \cup {None}]

FeedInit ==
    /\ feeds = [f \in FeedIds |-> None]
    /\ goneFeeds = {}
    /\ web \in [FeedIds -> Listings]
    /\ imported = [l \in Links |-> 0]
    /\ manual = {}
    /\ ingestion = [i \in Ingestions |-> None]
    /\ feedEdit = [e \in FeedEdits |-> None]

-----------------------------------------------------------------------------
(* The feeds: feed-source.service.ts.                                       *)

Standing == {f \in FeedIds : feeds[f] # None}

CreateFeed(f) ==
    /\ f \notin Standing \cup goneFeeds
    /\ feeds' = [feeds EXCEPT ![f] = "enabled"]
    /\ UNCHANGED <<goneFeeds, web, imported, manual, ingestion, feedEdit>>

RemoveFeed(f) ==
    /\ f \in Standing
    /\ feeds' = [feeds EXCEPT ![f] = None]
    /\ goneFeeds' = goneFeeds \cup {f}
    /\ UNCHANGED <<web, imported, manual, ingestion, feedEdit>>

\* A save writes back every column held.  A row that is gone would be inserted
\* without its agency, and an address another feed has taken breaks the index:
\* both throw.
Inserted(h) == feeds' = [feeds EXCEPT ![h.id] = h.row]      \* wrong: a removed row comes back
Defaulted(h) ==     \* wrong: enabled is not read, so the save writes another value
    h.id \in Standing /\ feeds' = [feeds EXCEPT ![h.id] = "disabled"]
Saved(h) == h.id \in Standing /\ feeds' = [feeds EXCEPT ![h.id] = h.row]
SaveRefused == UNCHANGED feeds

EditFeed(e, f, new) ==
    /\ feedEdit[e] = None
    /\ f \in Standing
    /\ feedEdit' = [feedEdit EXCEPT ![e] = [id |-> f, row |-> new]]
    /\ UNCHANGED <<feeds, goneFeeds, web, imported, manual, ingestion>>

EditFeedSave(e) ==
    /\ feedEdit[e] # None
    /\ Saved(feedEdit[e]) \/ SaveRefused
    /\ feedEdit' = [feedEdit EXCEPT ![e] = None]
    /\ UNCHANGED <<goneFeeds, web, imported, manual, ingestion>>

-----------------------------------------------------------------------------
(* The ingestion: ingestAllForAgency and ingestFeed.                        *)

IngestionAt(i, pc) == ingestion[i] # None /\ ingestion[i].pc = pc
SetIngestion(i, task) ==
    /\ ingestion' = [ingestion EXCEPT ![i] = task]
    /\ UNCHANGED <<goneFeeds, web, manual, feedEdit>>

\* The find has no order: any of the feeds left may be the next.
StopAtFirst(i, left) == SetIngestion(i, None)      \* wrong: nothing after the first
NextFeed(i, left) ==
    \/ left = {} /\ SetIngestion(i, None)
    \/ \E h \in left :
         SetIngestion(i, [pc |-> "fetch", feed |-> h, rest |-> left \ {h}, todo |-> {}])

\* The hourly cron task (RSS_CRON_ENABLED), or POST ingest.
IngestAll(i) ==
    LET enabled == {f \in Standing : feeds[f] = "enabled"}
    IN /\ ingestion[i] = None /\ enabled # {}
       /\ NextFeed(i, {[id |-> f, row |-> feeds[f]] : f \in enabled})
       /\ UNCHANGED <<feeds, imported>>

\* POST :id/ingest, enabled or not.
IngestOne(i, f) ==
    /\ ingestion[i] = None /\ f \in Standing
    /\ NextFeed(i, {[id |-> f, row |-> feeds[f]]})
    /\ UNCHANGED <<feeds, imported>>

Entries(listing) == {<<n, listing[n]>> : n \in DOMAIN listing}
FetchAnswered(i) ==
    LET entries == Entries(web[ingestion[i].feed.id])
    IN /\ IngestionAt(i, "fetch")
       /\ SetIngestion(i, [ingestion[i] EXCEPT
                             !.pc = IF entries = {} THEN "save" ELSE "find",
                             !.todo = entries])
       /\ UNCHANGED <<feeds, imported>>

InCuration(l) == imported[l] > 0 \/ l \in manual
Unsaved(i, entries) ==      \* wrong: a stage nobody takes up
    [ingestion[i] EXCEPT !.pc = IF entries = {} THEN "done" ELSE "create", !.todo = entries]
Todo(i, entries) ==
    [ingestion[i] EXCEPT !.pc = IF entries = {} THEN "save" ELSE "create", !.todo = entries]

FindKnown(i) ==
    /\ IngestionAt(i, "find")
    /\ SetIngestion(i, Todo(i, {e \in ingestion[i].todo : ~InCuration(e[2])}))
    /\ UNCHANGED <<feeds, imported>>

\* known.add(link): the same link further down the feed is skipped.
OnlyThis(entries, e) == entries \ {e}       \* wrong: the link is not added
AfterCreate(entries, e) == {o \in entries : o[2] # e[2]}

CreateItem(i) ==
    LET entries == ingestion[i].todo
    IN /\ IngestionAt(i, "create")
       /\ \E e \in entries :
            /\ \A o \in entries : e[1] <= o[1]
            /\ imported' = [imported EXCEPT ![e[2]] = @ + 1]
            /\ SetIngestion(i, Todo(i, AfterCreate(entries, e)))
       /\ UNCHANGED feeds

\* The address, the find or a create fails, and with it the rest of the feed:
\* ingestFeed throws, ingestAllForAgency catches and goes on.
FeedFailed(i) ==
    /\ ingestion[i] # None /\ ingestion[i].pc # "save"
    /\ NextFeed(i, ingestion[i].rest)
    /\ UNCHANGED <<feeds, imported>>

\* The feed is saved as it was read before the fetch, with lastFetchedAt.
SaveFeed(i) ==
    /\ IngestionAt(i, "save")
    /\ Saved(ingestion[i].feed) \/ SaveRefused
    /\ NextFeed(i, ingestion[i].rest)
    /\ UNCHANGED imported

-----------------------------------------------------------------------------
(* The curation, and the outside.                                           *)

\* POST, or a PATCH of sourceUrl.
AddItem(l) ==
    /\ manual' = manual \cup {l}
    /\ UNCHANGED <<feeds, goneFeeds, web, imported, ingestion, feedEdit>>

\* DELETE, a PATCH of sourceUrl, the purge after RETENTION_DAYS.
LoseItem(l) ==
    /\ \/ l \in manual /\ manual' = manual \ {l} /\ UNCHANGED imported
       \/ /\ imported[l] > 0 /\ imported' = [imported EXCEPT ![l] = @ - 1]
          /\ UNCHANGED manual
    /\ UNCHANGED <<feeds, goneFeeds, web, ingestion, feedEdit>>

\* What the address serves changes, or a PATCH gives another address.
Publish(f, links) ==
    /\ web' = [web EXCEPT ![f] = links]
    /\ UNCHANGED <<feeds, goneFeeds, imported, manual, ingestion, feedEdit>>

FeedStop ==
    /\ ingestion' = [i \in Ingestions |-> None]
    /\ feedEdit' = [e \in FeedEdits |-> None]
    /\ UNCHANGED <<feeds, goneFeeds, web, imported, manual>>

FeedStep(i) ==
    FetchAnswered(i) \/ FindKnown(i) \/ CreateItem(i) \/ FeedFailed(i) \/ SaveFeed(i)

FeedNext ==
    \/ \E f \in FeedIds : CreateFeed(f) \/ RemoveFeed(f)
    \/ \E e \in FeedEdits :
         EditFeedSave(e) \/ \E f \in FeedIds, new \in Feed : EditFeed(e, f, new)
    \/ \E i \in Ingestions : IngestAll(i) \/ FeedStep(i)
    \/ \E i \in OnDemand, f \in FeedIds : IngestOne(i, f)
    \/ \E l \in Links : AddItem(l) \/ LoseItem(l)
    \/ \E f \in FeedIds, links \in Listings : Publish(f, links)
    \/ FeedStop

\* The cron task fires every hour and runs to its end.
FeedFairness ==
    \A i \in Hourly : WF_feedVars(IngestAll(i)) /\ WF_feedVars(FeedStep(i))

\* A server that answers now and then answers the ingestion some time, and the
\* database takes every entry of the feed some time: an entry it always refused
\* would keep out those after it.
FeedAnswers(f) ==
    \A i \in Hourly :
        /\ SF_feedVars(FetchAnswered(i) /\ ingestion[i].feed.id = f)
        /\ SF_feedVars(FindKnown(i) /\ ingestion[i].feed.id = f)
        /\ \A l \in Links :
             SF_feedVars(CreateItem(i) /\ ingestion[i].feed.id = f
                         /\ imported'[l] > imported[l])

FeedSpec == FeedInit /\ [][FeedNext]_feedVars /\ FeedFairness

-----------------------------------------------------------------------------
(* Properties.                                                             *)

\* A feed the editor removed stays removed, though ingestions and PATCH requests
\* save rows they read long before.
RemovedFeedsStayRemoved == Standing \cap goneFeeds = {}

\* Ingestions one after the other never make two items of one link: not of a
\* link a feed lists twice, not of one that several feeds list, and not when an
\* editor changes the feeds or the items meanwhile.
OneIngestion ==
    \A i, j \in Ingestions : ingestion[i] # None /\ ingestion[j] # None => i = j
OneImportPerLink == \A l \in Links : imported[l] <= 1
SerialImportsOnce == []OneIngestion => []OneImportPerLink

\* What an ingestion will save is what the editors last asked for, unless it
\* has been removed: the save of lastFetchedAt undoes none of their requests, as
\* long as no PATCH meets an ingestion of its feed.
InHand(i) == ingestion[i].rest \cup {ingestion[i].feed}
PatchMeetsIngestion ==
    \E e \in FeedEdits, i \in Ingestions :
        /\ feedEdit[e] # None /\ ingestion[i] # None
        /\ \E h \in InHand(i) : h.id = feedEdit[e].id
RowsInHandCurrent ==
    \A i \in Ingestions :
        ingestion[i] # None => \A h \in InHand(i) : feeds[h.id] \in {h.row, None}
SerialIngestionKeepsFeeds == []~PatchMeetsIngestion => []RowsInHandCurrent

\* What an enabled feed keeps listing comes into the curation, again and again
\* if it is removed, as long as that feed answers: another feed, before it, that
\* always fails does not keep it out.  The process may stop, but not for ever (an
\* ingestion that ends may look like a stop).
FeedsProgress ==
    \A f \in FeedIds, l \in Links :
        /\ FeedAnswers(f)
        /\ <>[](feeds[f] = "enabled" /\ \E n \in DOMAIN web[f] : web[f][n] = l)
        /\ <>[][FeedStop => \E i \in Ingestions : FeedStep(i)]_feedVars
        => []<>InCuration(l)
====
