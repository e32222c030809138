# Verification of projet-annuel-back

TLA+ modules that model the back end of an editorial tool for agencies (NestJS,
TypeORM, PostgreSQL, Notion), the TLC configurations that check them, and proofs
checked by TLAPS. Paths below are relative to the repository; `src/...` is its
source directory.

## 1. The system

Every component is a NestJS service in one Node process: nothing runs in
parallel, but every `await` lets another request, cron job or un-awaited promise
run. There are no transactions and no locks: a handler that reads an entity,
awaits, and saves it writes back what it read. `repository.save` of a loaded
entity is taken to bring every column of the row to the value the entity holds. (TypeORM
reads the row again inside `save` and updates only the columns that differ; two saves that
overlap between that SELECT and the UPDATE could mix their columns. This is external to the
repository and not modelled; `RemoteEditsVisible`, `SettingsOfOnePiece` and
`FittingRequestsFit` rest on it.) The database keeps what the schema says (unique indexes, NOT NULL) and survives a
stop of the process; everything in memory is lost.

| Component | Code | State | Operations | Talks to |
|---|---|---|---|---|
| Content CRUD | `src/content/content.service.ts` | rows of `content_items` | create, update, remove; create and update fire a push nobody waits for | synchronisation |
| Notion synchronisation | `src/notion/notion-sync.service.ts` | the sync columns of contents and curation items | push, push with verification, pull | Notion client, OAuth, both tables |
| Sync scheduler, controller | `src/notion/notion-sync.scheduler.ts`, `notion.controller.ts` | none | start pulls and pushes | synchronisation |
| Notion client | `src/notion/sdk-notion-client.ts` | none | query, create, update, archive, retrieve, set body, search; turns every error into a kind | Notion |
| Notion OAuth | `src/notion/notion-oauth.service.ts` | `agency_notion_connections`: token, base ids found | start, callback, resolve a base, disconnect | Notion, members |
| Retention | `src/curation/retention.service.ts` | none | delete old SYNCED rows | both tables |
| Agencies | `src/agencies/agencies.service.ts` | agencies, memberships, invitations | create, invite, accept, change a role | - |
| Role guard | `src/agencies/guards/agency-roles.guard.ts` | none | checks a role before a handler | memberships |
| Curation | `src/curation/curation.service.ts`, `feed-source.service.ts` | curation items, feeds | CRUD | - |
| RSS ingestion | `src/curation/rss-ingestion.service.ts`, `curation-scheduler.service.ts` | curation items, `lastFetchedAt` | ingest one feed, all feeds; hourly | feeds on the web |
| Ideas | `src/ideas/ideas.service.ts` | ideas, settings, runs | generate, accept, dismiss, settings | AI, content |
| Idea scheduler | `src/ideas/ideas.scheduler.ts`, `idea-generation-schedule.ts` | the cron jobs in memory, `nextRunAt`, `lastRunAt` | one job per agency | ideas |
| AI and generation | `src/ai`, `src/generate` | settings of the provider | choose a provider, call it, fall back | providers |
| Accounts | `src/auth` | users | register, login, tokens | - |

What is hard in it: interleavings of a push, a pull and a PATCH of one row (a
push waits for Notion between its read and its save); requests to Notion that
take effect and whose answer is lost; two pushes at once (the un-awaited one, the
scheduler's, a user's); restarts between two saves of one handler; a guard or a
count that is stale when the handler writes; people who edit, trash, restore and
delete pages in Notion meanwhile. What correctness means, component by component:

- **Synchronisation**: an edit made in Notion is never hidden from the next pull;
  a planned content that claims to be in step has a page; one page is one row; an
  edit made in the application reaches Notion before it may be purged; an agency's
  rows go to its own base; once the edits stop, pushes bring every row in step.
- **Agencies**: an agency with members has an owner; nobody joins but by founding or
  by an open invitation of their own; an accepted invitation made its user a member.
- **OAuth**: nothing of a connection outlives its disconnection; the workspace the owner
  reads is the one the token opens.
- **Ideas**: an idea becomes one content at most; a scheduled run never undoes a
  change of settings; there is one cron job per enabled agency, for its settings.
- **Curation**: an ingestion imports a link once and does not undo a change of a feed; a
  removed feed stays removed; a feed that fails does not keep the others out.
- **AI settings**: what the settings page shows is what a call finds; a provider is called
  with a model it serves.
- **Accounts**: one account per e-mail, found however it is typed; a session lasts its
  time from its signing, however late its answer, across restarts.
- **Pure functions**: the run announced is the next one the cron job makes; an idea is
  judged by the nearest of the items it is scored against; a row survives the way to Notion and back.

The hazards, each at its line, are in `PROJECT.json`.

## 2. Modules

| Module | What it is |
|---|---|
| `ContentSync` | contents, the synchronisation, the purge and Notion, between awaits |
| `MCContentSync` | its instances for TLC: owners, symmetry, the bound `TwoAtOnce` |
| `ContentSync_proofs` | its theorems |
| `AgencyRegistry` | abstract: memberships and open invitations, every operation atomic; whether two role changes have met |
| `AgencyMembers` | agencies, members, invitations and role changes between awaits; refines `AgencyRegistry` |
| `MCAgencyMembers` | its instances for TLC: symmetry, the bound `TwoAtOnce` |
| `AgencyMembers_proofs` | its theorems |
| `IdeaInbox` | ideas of one agency: generation, acceptance, dismissal, history of runs |
| `MCIdeaInbox` | its instances for TLC |
| `IdeaInbox_proofs` | its theorems |
| `IdeaSchedule` | settings of one agency's automatic generation, the cron job and its runs |
| `IdeaSchedule_proofs` | its theorems |
| `NotionConnection`, `NotionConnection_proofs` | the OAuth connection of one agency and the base ids it caches; its theorems |
| `FeedIngestion`, `FeedIngestion_proofs` | the feeds of one agency, their ingestion and the curation items; its theorems |
| `AiSettings` | the AI settings of one agency and what a call makes of them |
| `Accounts` | accounts, tokens, cookies and the guard |
| `Settings_proofs` | the theorems of these two |
| `IdeaCalendar` | `idea-generation-schedule.ts` as operators on hours |
| `DuplicateScore` | `scoreDuplicates` as operators on word counts |
| `NotionMapping` | the mappers between rows and Notion pages as operators |
| `PureFunctions_proofs` | the theorems of these three |
| `Common`, `Calls` | the null value; the call of a pure function under check |
| `MCAgencyServices` | the services from `IdeaSchedule` on and the pure functions, one per behaviour, for TLC |
| `MCProgress` | `ContentSync` and `FeedIngestion` under fairness, for TLC |

### ContentSync

One action is what a task does between two awaits. `content` is the table, a set
of rows; `notion` is the pages, live, in the trash or gone; `push`, `pull` and
`update` are the tasks in memory, each with the entities it holds.

- `Create`, `UpdateRead`/`UpdateSave`, `Remove` are `ContentService`; `PurgeExpired` is
  `RetentionService`. The push a create or update fires is `PushFind`, which may
  begin at any time, like those of the scheduler and the controller.
- A push is `PushFind` (the query), `PushResolve` (base and token), then per item
  `PushCall` and its failures, `PushBody` (setPageContent), and `PushSave` or, in the
  catch, `PushRescue`. Verification before it: `VerifyFind`, `VerifyToken`,
  `VerifyPage`, `VerifySave`.
- A pull is `PullStart`, `PullQuery` (one answer of the paginated listing), then per
  page `PullKnown` or `PullNew` (the findOne) and `PullSave` or `PullInsert`.
- `Rejected` says when a save throws: the row is gone (the entity was loaded without
  its agency, so the INSERT that TypeORM sends breaks a NOT NULL column), or another row
  holds its page id (the unique index). A save that throws in the `try` goes to the
  `catch`; one that throws in the `catch` abandons the rest of the push.
- `People` edit pages; `Restart` loses the tasks.

Abstractions. Title, date and channel are one number, the human write they come from,
so `data` of a row and of a page can be compared. What is left nondeterministic because
the model does not hold it: whether an item has a body, whether `updatedAt` is after
`lastSyncedAt` (two different clocks), which rows are older than the cutoff of the purge,
which status a pulled page gets, in what order the items and pages of a list come.
Notion (external) gives each change of a page a later `last_edited_time`; the real one
rounds to the minute, a hazard no code of the repository can meet. An agency's token
sees the pages of its own workspace only. Database failures other than the rejected
saves are not modelled. `findOne` of a pull and `find` of a push have no condition on the
agency, as in the code. The curation half of the service is the same code with every
item eligible (`Statuses = Eligible`).

### AgencyMembers

`role[a][u]` is the membership row (unique by its index). `CreateAgency` and
`CreateOwner` are the two saves of `createAgency`; `InviteAllowed` and `InviteMember` the
guard and the handler; `AcceptFind`, `AcceptLookup`, `AcceptJoin`, `AcceptMark` the four
awaits of `acceptInvitation`; `ChangeAllowed`, `ChangeRead`, `ChangeCount`, `ChangeSave`
those of the guarded `updateMemberRole`. A request that fails a check changes nothing and
is not an action. `Restart` drops the requests. `overlapped` is history: two role changes have
been under way at once. `AgencyRegistry` is the promise: a first member is an owner, joining
takes an open invitation of one's own, an invitation is spent only for a member, and, until two
role changes have met (`alone`, here `~overlapped`), an owner steps down only beside another and
whatever has members has an owner to invite from.

### IdeaInbox and IdeaSchedule

Agencies share nothing here, so both modules model one. In `IdeaInbox`, `Generate`,
`AskAnswered`, `RepairAnswered`, `RecordSuccess` and `RecordError` are the awaits of
`generateForAgency`; `AcceptFind`, `AcceptCreate`, `AcceptMark` those of `accept`; `EditFind`
and `EditSave` those of `update`. `Save` writes every column of the entity a request holds and
is refused, as the foreign key does, when it points to a content that is gone;
`RemoveContent` clears the links to it. A run of the history stands for the set of ideas whose
number the code stores. Titles, scores and prompts are left out: any nonempty set of new ideas
may come back, or none, or an error. `RecordFailed` is the save of a run that throws after its
ideas were saved: the catch records a run that failed, of no ideas, while they stay (`RecordError`,
whose save may throw too and leave no run).

In `IdeaSchedule`, `SettingsFind`, `SettingsInsert`, `SettingsSave` are `getOrCreateSettings` and
`updateSettings`; `SyncFind`, `SyncSetting` the `syncAgencySchedule` the controller awaits next;
`TickFire`, `TickFind`, `TickSave` are `runScheduledSettings`. Cadence, time, day and timezone are
one value, a schedule, and `nextRunAt` is the schedule it was computed from. `tick[t].registered`
says whether the job of a run is still in the registry: `waitForCompletion` keeps that job from
running twice, but a job deleted while it runs goes on beside its successor. The
generation inside a run is an await of any length here and a `Generations` task in
`IdeaInbox`. `Restart` loses tasks and jobs and rebuilds the job, as `onModuleInit` does. The DTO
takes any timezone of 80 characters. `CronKnows` has the schedules whose timezone the cron library
takes; at another (`Refused`), `nextRunAt` is calculated for Paris and the settings are saved, and
then `CronJob.from` throws, the former job being deleted already: a request fails there
(`SyncSetting`), and a start ends there (`up`), since nothing catches it in `onModuleInit` and
`bootstrap`. The row of another agency ends a start in the same way; with one agency modelled, that
is not. Spellings the cron library takes and `Intl` does not (an offset such as `UTC+3`), or the
other way round, are left out.

### NotionConnection

A token stands for the workspace it opens, and a base id for the base found in that
workspace. `AuthorizeUrl` signs a state, `StateExpires` is its lifetime; `CallbackVerify`,
`CallbackOwner`, `CallbackExchange`, `CallbackFind`, `CallbackSave` are the awaits of
`handleCallback`; `ResolveFind`, `ResolveSearch`, `ResolveSave` those of `resolveDatabaseId`, which
saves every column it selected. `granted` is history: which workspaces a callback gave each
row. Signatures and encryption are perfect, and the key they use does not change.

### FeedIngestion

`IngestAll` and `IngestOne` start an ingestion; `FetchAnswered`, `FindKnown`, one `CreateItem` per
entry and `SaveFeed` are the awaits of `ingestFeed`; `FeedFailed` is any of the first three that
throws, after which `ingestAllForAgency` goes on to the next feed. A feed is its
`enabled` column, an item its `sourceUrl`; `imported` counts the items an ingestion made of each
link. The other columns of a feed are saved with `enabled`, from the same entity.

### AiSettings and Accounts

`AiSettings` has the row as stored, the PATCH requests between their read and their save, and the
environment, which changes only with `AiRestart`. What readers make of the row are operators:
`PublicSettings`, `RuntimeSettings`, `CallGoesOut`, `ModelsListed`. A key is known by the secret it
was encrypted with and by whether it is blank: a key of ten spaces passes the DTO, is trimmed and
stored, and a call takes it for none. A blank model is stored empty, which every reader takes for
none. `AI_PROVIDER` is not checked by anything: `"other"` stands for a provider the application
does not have, which is shown, may be stored with a first PATCH, and is refused by every call.

`Accounts` has users, registrations between the look-up and the insert, and browsers with the
cookie they hold. `Admitted` is the guard. Each start without `JWT_SECRET` draws a secret of its own.
The clock counts instants, `PerSecond` to a second: `SendSession` signs a token, whose `exp` counts
from the whole second before (`second`), and the session is then on its way (`answer`, one at a time
to a browser); `Receive` is the browser, whose Max-Age counts from the instant it gets the answer,
any time later, or the loss of it. The two ends a session has are thus on two clocks, and either may
come first. That the browser's clock runs as fast as the machine's is assumed.

### Pure functions

`IdeaCalendar` counts whole hours since a Monday at midnight UTC, in zones that change their
offset at most once: schedules and the zones instantiated fall on whole hours, and a run is at
most eight days away. `OffsetAt` is what `Intl` answers; `ZonedTimeToUtc` looks it up once, at the
local time read as UTC, as the code does. `DuplicateScore` takes an item as the number of words it
shares with the idea and the number it has; how a text is cut into words is left out. The
stable sort and its first three are said by rank: `Rank(corpus, i)` is the place of item `i` among
those near enough, and `SimilarItems` has the scores of ranks 1 to 3.
`NotionMapping` takes a text as a sequence of words and a rich text as the pieces Notion cuts
it into.

## 3. Runs

| Run | What it checks | Result |
|---|---|---|
| `content_sync` | `RemoteEditsVisible`, `PlannedHasPage`, `OneRowPerPage`, types | holds |
| `lost_edit` | a push does not take back a PATCH (`PushKeepsEdits`) | violated |
| `purge` | what may be purged is in Notion (`PurgeableIsInNotion`) | violated |
| `bases` | a row's page is in its agency's base (`PagesStayInBase`) | violated |
| `agency_members` | `SerialChangesKeepOwner`, `AcceptedIsMember`, refinement of `AgencyRegistry`, types | holds |
| `last_owner_race` | an agency with members has an owner, whatever overlaps (`AgencyKeepsOwner`) | violated |
| `idea_inbox` | `AcceptedHasContent`, `RunsMatchInbox`, types | holds |
| `double_accept` | an idea becomes one content at most (`OneContentPerIdea`) | violated |
| `settings_undone` | a run of the job leaves the owner's settings alone (`RunKeepsSettings`) | violated |
| `start_rebuilds` | a start registers the job of enabled settings (`StartRebuildsJob`) | violated |
| `agency_services` | `DisconnectForgets`, `SerialTokenIsShown`; `RemovedFeedsStayRemoved`, `SerialImportsOnce`, `SerialIngestionKeepsFeeds`; `ShownIsAccepted`, `FittingRequestsFit`; `AddressFindsAccount`, `SessionsLast`; `AnnouncedIsNextRun`, `AnnouncedIsNear`; `NearestDecides`; `PullGivesPushedRow`, `PushKeepsPulledPage`; `SettingsOfOnePiece`, `JobFollowsSerialSettings`, `SerialRunKeepsSettings`; types | holds |
| `progress` | every planned row reaches Notion (`SyncProgress`), every listed entry the curation (`IngestionProgress`); a push, a pull and a PATCH that never hold one row at once take nothing back (`SerialTasksKeepRows`) | holds |

The violated runs are findings: the code does not do what the comment quoted in
`PROJECT.json` says. In `lost_edit` a user's PATCH falls between the call to Notion and the
save of a push; the save writes the old fields back and marks the row SYNCED, and the
edit is in neither place. In `purge` a planned content is edited and put back to draft
before the next push: the page is archived, the edit is not written to it, the row is
SYNCED, and the purge deletes it. In `bases` a push exports another agency's rows. In
`last_owner_race` two owners step down at once. In `double_accept` a second accept reads the
idea before the first has marked it. In `settings_undone` a run of the job saves the settings
it read before the generation, over a PATCH made meanwhile. In `start_rebuilds` one PATCH sets a
timezone the cron library does not know: it is saved, and the next start, which should rebuild the
job, throws at it. No overlap is needed.

Bounds. `content_sync`: two rows and one page let two rows compete for a page and a row
lose and regain one; two human writes are an edit on each side, or an edit and a
later one; three stamps are a creation, a change and another after it; two of the
three tasks run at once (`TwoAtOnce`), since every property breaks, when a definition is
mutated, with two. The proofs need none of these bounds. `agency_members`: two users are an
owner and a guest, or two owners; two tokens are two invitations of one user; of two
accepts and two role changes any two run at once (`TwoAtOnce`), so that each pair meets, the
two role changes of `last_owner_race` included; the clock passes the expiry. Symmetry permutes only
interchangeable constants. `idea_inbox`: two ideas and two generations let two runs claim
ideas, two requests and two contents let two acceptances, or an acceptance and an update, overlap
on an idea whose content goes away. Deadlock is checked in every passing run: `Restart` and new
requests always remain possible.

`agency_services` holds services that share no state. `part`, chosen in the initial state,
says which one moves: a behaviour of the composition is a behaviour of that service, and the states
are the sum of theirs, not the product. Every property of a service is checked in all of its
behaviours but for the bounds on feeds, accounts and AI keys named here. Those with `Serial` in their name, and `FittingRequestsFit`, have the form
`[]condition => []property`: the condition names the overlap, or the request, that breaks it (a
callback saving during a search; two ingestions at once; a PATCH during an ingestion of its feed; a
request that gives a provider without a model; a settings request or a run of the job beside
another), and nothing is said of behaviours in which it fails. Two workspaces and two connection ids
are a reconnection to another workspace and a connection after a disconnection, met by one callback and one search. Two feeds that both list
list one link twice, one hourly and one requested ingestion, and one PATCH meet every pair of tasks
that can overlap: `part` tells behaviours with the two ingestions from those with one and the PATCH.
Two settings requests and two runs of the job are every pair of those, a run of a deleted job
beside one of its successor included; of their three schedules one has a timezone the cron library
refuses. Two PATCH requests on the AI settings, which set the same key when they overlap (`OneKey`),
and four environments cover a restart into production, a key lost or gained, a blank key with and
without one of the environment beside it, and a provider the application does not have. Of the
accounts, either two registrations of one address typed in two ways, or of another, race each other
while the clock stands (part "accounts"), or one account's sessions meet two starts and six
half-seconds with a lifetime of one second (part "sessions"): a session signed in the first or the
second half of a second, whose answer arrives at once, later, or when the token is over. The
calendar runs over every hour of ten days in six zones, whose clocks change on, before, or far from
the run: `AnnouncedIsNextRun` is about the moments with no change near, `AnnouncedIsNear` about all
of them, and says that the hours the cron
expression fires and the run announced are no further apart than the change; an hour the change
skips is excepted from the second half, since when the job runs on that day is up to the cron
library. The scores over corpora of up to four items
below, between and above the thresholds (what the corpus is, the forty latest of each kind, is data);
the mappers over every row of empty, short and longer
texts and every label.

`progress` is the one run with fairness. Its part "apart" needs none and is for
`SerialTasksKeepRows`: a push, a pull and a PATCH over one row and one page, with two human writes,
in the behaviours where no two of them hold the row (`RowsHeldApart`). In these, what a task is about
to save or send is the row as it stands but for what the task sets itself. That is not to say that
edits are lost by overlaps only: a pull that meets a pending edit overwrites it, and `purge` loses
one, without any. `SyncProgress` is `PushFairness => PlannedReachesNotion`:
pushes keep being started and run to their end (the cron task and the event loop: weak fairness
of `Push`), and some time the base is found (strong fairness of the resolution). The conclusion
speaks of behaviours in which, from some time, only automatic pushes with a valid token go on:
people, requests, verifications, stops and pulls end (a pull may insert the page of a creation
before the push saves it). Before that, anything may have happened: calls lost or refused, pages
put in the trash or deleted, the process stopped in the middle of a push. Then each item that
Notion lets through (`ItemFairness(i)`: an item sent again and again is let through again and again,
and so is its body) comes into step; nothing is assumed of the others, which may fail for ever.
Pages left in the trash are excepted, since their update is refused every time and only a
verification forgets the pointer. `IngestionProgress` is `FeedFairness => FeedsProgress`: the hourly
task fires and its steps are taken. Of the feed in question alone, `FeedAnswers(f)` says that it
answers some time and that the database takes each of its entries some time; other feeds may always
fail, before it or after. Entry by entry is needed: an entry whose creation always failed would stop
its feed at every ingestion and keep out those after it. A stop of the process may come any number
of times, but not for ever (the end of an ingestion looks like a stop, and is allowed).
Two rows
in one push, two pages (one may be lost) and three stamps let a row lose its page and get
another; two feeds and two links let one stand before the other. The two subsystems share
nothing, and `part` keeps their state spaces apart.

## 4. Proofs

`ContentSync_proofs` proves, for any number of agencies, rows, pages and concurrent
tasks:

- `TypeCorrect`, `RemoteEditsStayVisible`, `PlannedContentHasPage`, from one inductive
  invariant `IInv`. The property speaks of rows; what breaks it is an entity in memory
  that will be saved later, so `IInv` says of every entity a task holds that it agrees
  with Notion as a row would (`PushSound`, `PullSound`), or is on its way to a status that
  claims nothing. Notion's own steps are covered by one lemma: stamps only grow, and what
  agreed, or was older, still is (`Newer`, `MirrorsKept`).
- `PageHasOneRow` from `UInv`: ids are unique, and the id a pull is about to insert is
  reserved.
- `TasksApartKeepRows`, from `IInv`, `UInv` and `HInv`, whose step needs `RowsHeldApart`: no two
  tasks hold an entity of the same row. `HInv` says that what a PATCH or the queue of a
  push holds is the row as it stands, what a push has sent is the row but for the columns
  of its outcome, and what a pull is about to save has its status; and, to keep that, that a queue has
  no row twice and that a row held is in the table or was removed. A task that writes a row is then the
  one holder of it, so no other copy becomes stale.
- `PushesApartKeepEdits`: under the same condition the save of an export keeps every edit,
  which is `PushKeepsEdits`, the property `lost_edit` refutes without it.

`AgencyMembers_proofs` proves, for any number of agencies, users, invitations and requests:

- `TypeCorrect` and `AcceptedInvitationIsMember`, with any number of concurrent requests.
  `AInv` says that a request past its lookup holds a copy of an invitation that is still
  in the table, accepted or not, and that at the second save its user is a member;
  `MembersStay` says that no step takes a membership away.
- `AgencyAlwaysOwned`, which is `SerialChangesKeepOwner`, and `Refinement`, with no condition on
  what runs at once. `MInv` holds however requests overlap: an agency has no members before its
  founder, invitations exist only for agencies with members, and a role change is about a
  row that is there. `OInv` holds while `~overlapped`: agencies with members have an owner, one
  role change at most is under way, and one about to take OWNER away still has another
  owner to count on. Neither is enough alone: that a membership is inserted beside an
  owner follows from `MInv` and the owners from `OInv`. Of the steps of the registry, founding,
  joining and spending follow from `MInv`, inviting and changing a role from both, and a role change
  that begins beside another is its `Meet`.

`IdeaInbox_proofs` proves, for any number of ideas, contents, requests and generations,
`TypeCorrect`; `HistoryMatchesInbox`, from `GInv`: what a generation has saved and not yet
recorded is in the inbox and belongs to it alone (and stays without a run when the save of the run
throws); and `AcceptedIdeaHasContent`, from `CInv`: every row of an idea, in the table or held by a request, points to a content made of that idea, and in
the table to one that stands.

`IdeaSchedule_proofs` proves, for any number of requests and runs, `TypeCorrect`;
`SettingsStayOfOnePiece`, from `IInv`: every copy of the settings a task will save is of one piece,
so a stale one is too; `KnownTimezonesStart`: while only timezones the cron library knows are asked
for (`KnownAsked`), every start goes through and rebuilds the job (`StartRebuildsJob`, which the run
`start_rebuilds` refutes without that), since what is stored and what a run will save
(`KnownStored`) have a known one, whatever overlaps; `JobFollows` and `RunHolds`, from `JInv`, whose
step needs `OneAtATime`: a request about to make the job, and a run about to save, hold the settings as they are; and
`SerialRunKeeps`: under the same condition the save of a run undoes no settings request, which
is `RunKeepsSettings`, the property `settings_undone` refutes without it.

`NotionConnection_proofs` proves, for any number of users, workspaces, callbacks and resolutions,
`ConnectionTypeCorrect`; `DisconnectingForgets`, from `GInv`, which says of a resolution in
memory what the property says of the row: its token and base ids were granted to the row it
names, so that its save, which goes by id, never brings them to another row; and
`SerialSearchesKeepToken`, from `SInv`, whose step needs `~SearchMeetsCallback`: every resolution of
the standing row holds its token.

`FeedIngestion_proofs` proves, for any feeds, links, listings and tasks, `FeedsTypeCorrect`;
`RemovalIsFinal` (an id removed is neither standing nor created again); `SerialImportsAreOnce`,
from `ImportInv`, whose step needs `OneIngestion`: the entries still to create are of links without
an imported item; and `SerialIngestionsKeepFeeds`, from `HeldInv`, whose step needs
`~PatchMeetsIngestion`: a row held is the stored one, or its feed is removed.

`Settings_proofs` proves, of `AiSettings`, `AiTypeCorrect`; `ShownSettingsAreAccepted`, for every
environment: a call that goes out is shown as ready, and what is shown as ready goes out but for a
key of another secret, a blank key alone, and a provider the application does not have; and
`FittingRequestsKeepModel`, from an invariant that says that the row stored and every row held have a
model of their provider or none. Of `Accounts` it proves `AccountsTypeCorrect`; `AccountsAreFound`,
for any number of concurrent registrations; and `SessionsLastTheirTime`, for any length of a second
and any delay of an answer, from `SessionsSound`: every session, on its way or in a cookie, was
signed in the past, with the secret of its start, and its cookie is good for its time from the
signing at least. That the floored clock costs the token nothing, since `exp` itself is still
admitted, and gives it less than a second, is arithmetic on whole seconds (`WholeSeconds`,
`TokenTime`).

`PureFunctions_proofs` proves the properties of the pure functions for all their arguments:

- `AnnouncedRunIsNext` and `AnnouncedRunIsNear`, for any zone with one change of its offset, any hour,
  weekday and moment. Local times are split into days and hours (`DayAndHour`); the first local time cron
  asks for after a given one is found by `FirstOfTheDay` and `FirstOfTheWeek`; where the clock does
  not change, local times and moments differ by a constant (`SteadyClock`). Around a change, the local time a run is
  announced for is shown within the change of it, unless it is skipped (`ShownLocalTime`), and between
  now and the run the clock shows no other time the cron expression asks for, since these are a
  period apart (`CronPeriod`, `BetweenCandidates`).
- `NearestItemDecides`, for any corpus scored. That ranks are the numbers from 1 to the count of the items near
  enough (`RankIsTaken`) is a counting argument: ranks differ (`RankOrders`), so as many ranks
  are taken as there are items, and they leave no gap. No induction is needed, which a sort would.
- `PullGivesBackRow` and `PushKeepsPage`, for any row and any page, by what flattening gives for no piece,
  one piece and two (`FlattenNone`, `FlattenOne`, `FlattenTwo`).

Assumptions: the named ASSUMEs of the modules (nulls are not ids, bounds are naturals,
normalising an address twice is normalising it once, a configured model is one the provider serves).
Every invariant and every action property of a passing run is stated by a theorem, and so is
the refinement. Three properties of violated runs are proved under a condition (`PushKeepsEdits`,
`RunKeepsSettings`, `StartRebuildsJob`). Only model-checked: the other violated ones, and
`SyncProgress` and `IngestionProgress`, since liveness is out of the prover's reach. A rich text is in at most
two pieces: more would need induction over the pieces.

## 5. Plan

Done: the core (`ContentSync`, `AgencyRegistry`, `AgencyMembers`, `IdeaInbox`, `IdeaSchedule`), the
services around it (`NotionConnection`, `FeedIngestion`, `AiSettings`, `Accounts`), the pure
functions, the progress of pushes and ingestions, and proofs of every safety property that holds,
of the refinement of `AgencyRegistry`, and of the conditions under which the edits and
settings that overlaps lose are kept. Next, in order:

1. One page per content: two pushes, or a lost answer, make a second page
   (hazard of `sdk-notion-client.ts:51`).
2. `ContentSync` with `NotionConnection` in place of its fixed `Owner`: bases that change while
   a push runs.
3. An atomic abstract specification of `FeedIngestion` (a set of links that grows) and the
   refinement under `OneIngestion`.

## 6. Not modelled

HTTP, DTO validation and wording; prompts and the formats of AI providers;
cryptography (a signature, a hash or an encryption is taken to be perfect); the attributes of
cookies but for their age, and CORS; migrations beyond the constraints quoted; logging; the
generation of texts (`src/generate`), which keeps no state; the demo's ideas and texts.

Known and left out: topics of a curation item are stored comma-separated
(`curation-item.entity.ts:36`) and those of a feed as JSON, so that a topic with a comma comes
back as two; `NotionMapping` starts from the entity in memory. Notion rounds `last_edited_time` to
the minute.
