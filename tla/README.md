# Verification of the Quron Yo'li backend

TLA+ modules, TLC runs and TLAPS proofs for the NestJS backend in `src/`: a Telegram mini app's
server that keeps users, login sessions, reading history, goals and reminders in PostgreSQL
(Prisma), jobs and caches in Redis (BullMQ), and talks to Telegram and Quran.Foundation. Paths
below are under `src/src/modules/` unless they begin with `src/`.

## 1. The system

| Component | State it keeps | Operations | Hard behaviour | What makes it correct |
|---|---|---|---|---|
| Reminder preferences (`notifications/reminders.service.ts`, `settings/`) | `TelegramReminderPreference` (enabled, localTime), `UserSettings` (ayatRemindersEnabled, lastAyatReminderAt) | put and delete a reminder, get and update settings, `/stop`, the worker's stamp and disabling | two rows written in two statements, in opposite orders by the two APIs, no transaction | the two switches agree; the time is one that was asked for |
| Reminder scan and delivery (`notifications/queues/`, `notification.service.ts`) | BullMQ jobs, `NotificationDelivery`, `UserNotification` | scan each minute, enqueue, claim, reclaim, inbox, send, mark, stamp | scans that stop half-way, retries, stalled jobs, two workers on one row, time-outs of served requests, crashes between statements | a user and date get one message unless a fault makes it two; a due reminder is settled; a row's outcome is true |
| User and admin sessions (`auth/`, `admin/auth/`, `src/src/infrastructure/auth/`) | `UserSession` (hash, revokedAt, expiresAt), refresh cookies | login, refresh, logout, access check | concurrent refreshes, replays, tokens signed to the second | a token is exchanged once; reuse ends the session |
| Moderation (`admin/users`, `admin/admins`) | `User.isBanned`, `isActive`, `Admin` | ban, unban, deactivate, add and remove admins | a ban running across a login or a refresh | a banned user has no live session |
| Users (`users/`) | `User`: profile, `allowsWriteToPm` | upsert at each login and each bot command | a read, then a write of what was read | whether the bot may write is what Telegram last said |
| Inbox (`notifications/inbox.service.ts`) | `UserNotification.readAt` | list, unread count, mark one or all read | pages turned while rows come | pages do not repeat or skip |
| Reading (`reading/`) | history, progress, `ReadingVerseProgress`, `ReadingDay` | record an ayah open (one transaction), recent, streaks, coverage | concurrent opens of one user, timezone read before the transaction | counters add up; a goal's result is that of the day; the statistics are true of what was read |
| Goals (`goals/`) | `DailyGoal`, `DailyGoalResult` | create (closing the open-ended goal), update, delete, progress (which writes) | read-modify-write without a transaction, partial unique index | one open-ended goal per metric; a completion is not undone |
| Analytics (`analytics/`) | a Redis list, delayed flush jobs, `AnalyticsEvent` | track, flush, batch ingestion, statistics | take-then-insert, put back on failure, fallback insert, trimming | no event is lost without a crash or a limit; none is stored twice |
| Quran cache (`quran/cache/`) | Redis entries with freshness, the in-flight map | get or load, background refresh, invalidation | a load in flight across an invalidation | a read that follows a sync sees the sync |
| Quran.Foundation client (`quran/client/`) | cached token, in-flight fetch | request with one 401 retry, back-off | invalidating somebody else's new token | bounded retries, no retry with the token that was refused |
| Catalog sync (`quran/catalog/`) and pages sync (`quran/pages/`) | translations, tafsirs, reciters, mushaf pages | full and partial syncs; admin edits of the same rows | partial upstream answers, failure between tables | a failed fetch deactivates nothing; admin choices survive; an edition has each verse on one page |
| Quran API (`quran/quran.service.ts`, `quran/quranenc/`) | cache entries under some thirty kinds of key | the routes, the read-ahead, the merge of QuranEnc editions | routes that share entries, caches fed from caches | a request is answered with what it asked for, and not for ever |
| Local export (`src/scripts/export-quran-local.ts`) | files | pools of lanes that fetch and write, runs that are killed and repeated | a piece of a file taken for the file, steps that fail while their other lanes go on, files shared by lanes and pools | what a later run skips is whole; a run without failure has left what it did not skip |
| Bookmarks, favorites | soft-deleted rows | create, update, delete, list by keyset | partial unique index, update from a row read before | coordinates stay valid; pages do not repeat or skip |
| Telegram bot and webhook (`telegram/`) | none of its own | webhook, commands and buttons, `sendDailyReminder` | updates posted again, a time limit that does not stop the handler, restarts | an update is acknowledged when it has been served; 403 turns reminders off, a time-out does not |
| Infrastructure, health, configuration, commands | adapters | - | - | - |

Interaction. HTTP handlers and bot commands call services; services call repositories, each call
one SQL statement unless wrapped in `$transaction`. Nothing is locked between statements, so
handlers of different requests interleave at every `await`; this is the grain of all modules here:
**one action per statement or external call**. The reminder worker is a BullMQ consumer
(`concurrency` 5, any number of processes) that calls `NotificationService`, which calls the
settings service; the settings service and the reminders API write the same two rows. Admin and
user authentication share `SessionsRepository`, `TokenService` and `UsersRepository`.

PROJECT.json lists every component with its status and every hazard with its line.

## 2. The modules

| Module | Models | Composition |
|---|---|---|
| `ReminderPreferences` | the two switches, the time and the stamp, and everyone who writes them | the abstract environment of the delivery: `StampByWorker`, `DisableByWorker` stand for the worker at any moment |
| `ReminderDelivery` | scan, queue, workers, claim, Telegram, outcome | EXTENDS `ReminderPreferences`, whose statements its steps execute |
| `SessionLineage` | what a session promises: opened once, advances while live, dead for good | abstract |
| `AuthSessions` | login, refresh, logout, ban, deactivate, admin roles | implements `SessionLineage` under `phase <- Phase`, `gen <- exchanges` |
| `ReadingGoals` | `recordAyahOpen`, goals and their progress, over one user's rows | the two services meet in the goal and result rows |
| `AnalyticsBuffer` | `track`, the Redis list, the flush job and its workers | by itself |
| `ReadingStats` | totals, periods and streaks, told while opens are counted | by itself |
| `ResourceCatalog` | the catalog rows, admin edits, syncs, the cached lists and their invalidation | the cache, the sync and the admin services meet here |
| `MushafPages` | crawl and clone of page editions, their rows, what is cached of them, and readers | command, upstream and cache meet here |
| `VerseContent` | three cache entries that feed each other, their ages, and an edition being switched off | the cache and the QuranEnc import meet here |
| `QuranRoutes` | every route of the Quran API and the keys it uses | all routes meet in one cache |
| `QuranClient` | requests, retries, back-off, the token and its shared fetch | several processes meet in Redis |
| `LocalExport` | pools, lanes, files and runs of the export script | by itself |
| `UserLists` | bookmarks, favorites, notifications, recent and history: rows, their writers, and pages turned beside them | one list per behaviour |
| `TelegramBot` | webhook, dispatcher, commands and buttons, step by step | the bot and the settings API meet in the two switches |
| `WriteAccess` | the row of a user as logins and bot commands bring it up to date | login and bot meet in the row |
| `AuthSessionsProofs`, `ReadingProofs` | theorems about `AuthSessions`, about `ReadingGoals` | EXTENDS it |
| `UserDataProofs` | theorems about `ReminderPreferences` and `UserLists` | EXTENDS `MCUserData` |
| `ReminderDeliveryProofs` | theorems about `ReminderDelivery` | EXTENDS it and `UserDataProofs` |
| `ActivityProofs` | theorems about `AnalyticsBuffer` and `ReadingStats` | EXTENDS `MCActivity` and `ReadingProofs` |
| `TelegramProofs` | theorems about `WriteAccess` and `TelegramBot` | EXTENDS both |
| `QuranCatalogProofs` | theorems about `ResourceCatalog`, `MushafPages`, `LocalExport` and `QuranRoutes` | EXTENDS `MCQuranCatalog` |
| `QuranContentProofs` | theorems about `QuranClient` and `VerseContent` | EXTENDS `MCQuranContent` |
| `MC*` | symmetry sets and actors for TLC | EXTENDS the specification |

`MCUserData`, `MCActivity`, `MCAccounts`, `MCQuranCatalog` and `MCQuranContent` each check several
modules that share no state. A variable `which` says at the start which of them a behaviour is
about; the others stay in an initial state. This is a sum, not a product: every behaviour of each
part occurs, and none is mixed with steps that could not concern it.

How state and actions correspond to the code:

* `ReminderPreferences`. `settings`, `pref`, `account` are rows (a missing row reads as the values
  it would be created with); `op[a]` is a handler between two of its statements, its `step` the
  statement it runs next and its fields the values it holds from before. `PutReminder` is the
  first write of `upsertDailyReminder`, `SyncSettings` the second; `UpdateSettings` is
  `upsertDefaults`, `WriteSettings` is `upsertWithUpdate`, `ReadPref` and `WritePref` are the read
  and the upsert of `syncReminderPreferenceFromSettings`. An update that leaves the switch alone
  is `GetSettings`. `Abandon` cuts a handler short. Two history variables: `torn[u]`, the user's
  last request to end was cut short or overlapped another; and `asked[u]`, the times his row may
  show: set when a time is asked for, or the row is deleted or made anew, to that time and those
  that other handlers have read and not yet written back (`AskTime`, `InHand`).
* `ReminderDelivery`. `worker[w].pc` is the next call of `deliverDailyReminder`; `job` is BullMQ's
  job of a user and date; `due` is what a running scan has read and not yet put on the queue, with
  the instant of the scan; `delivery`, `inbox` are rows. `ScanRead` reads all who are due at once
  (the code reads them time by time, for a few candidate times), `Enqueue` is one `queue.add`, and
  `ScanStops` an add that throws or a crash, which ends the loop: the rest goes to `dropped`, a
  history variable, and only a scan in the same minute finds it again.
  `sent` counts what Telegram delivered; `faults` what struck a delivery. `ReadRow` and
  `ReclaimRow` are two actions because `claimDelivery` reads and then updates. The `try` block is
  `send`, `markSent`, `stampSent`: a statement that fails there runs the catch (`FailInTry`), one
  that fails elsewhere fails the job (`FailOutsideTry`). A worker that lost its lock goes on, and
  its result no longer moves the job (`Owns`).
* `AuthSessions`. A refresh token is the record `[user, sid, iat, admin]`, because the signed JWT
  is a function of these; `hash` holds the token itself. `Refresh` is the read of the session with
  the checks on it, `FindUser` the account, `SignRefresh` the role and the signing,
  `RotateIfHashMatches` the conditional update and `RotateRefused` its refusal. `cookies` are the
  tokens that reached a client and may be presented, spent or not. `spent`, `exchanges`,
  `replayed`, `loose` are history variables.

* `ReadingGoals`. `history`, `continue`, `readCount`, `day`, `goal`, `result` are rows;
  `handler[h].pc` is the next statement of a request and the other fields are what it has read.
  `recordAyahOpen` is a transaction: `CountOpen` takes the row lock that its first upsert takes
  (`lock`) and reads the day under it, `ReadVerseGoals` and `ReadResults` are its reads, each
  with a snapshot of its own, and `CommitOpen` makes all its writes visible at once.
  `getProgress` has no transaction: `FindActiveGoals` and `FindReadingDay` in any order (a
  `Promise.all`), then `FindGoalResults`, then `UpsertGoalResults`. A creation is `CreateGoal`,
  `ReadOpenEnded` and `CreateClosingOpenEnded`, which the migration's partial unique index
  (`IndexHolds`) may refuse. `raised` is a history variable: goals whose target was changed.
* `AnalyticsBuffer`. Events are numbered in the order their calls reach the list; `tracker[e]` is
  the next Redis or queue command of the call that tracks `e`, `flush[w]` the worker's flush with
  the batch it has taken and how much of it is inserted, `job[b]` BullMQ's job of a time bucket.
  A command that fails may have had its effect. `lost` and `stranded` are history variables:
  events given up by the trimming, the expiry or a crash, and events a flush that ended has left
  on the list.
* `ResourceCatalog`. `row` holds the catalog rows by list and external identifier, `entry` the
  cached lists, `flight` the in-flight map with where the load is, `editor[h]` an admin request or
  a sync. An edit of one row is one statement; making a translation the default is a transaction
  of two (`ClearDefaults`, `SetDefault`) whose first statement sees what was committed when it
  began; a sync writes one list per transaction in a fixed order. The other requests of
  administrators (`UpdateTranslation`, `SetTranslationActive`, `UpdateResource`,
  `SetResourceActive`, `SetPopular`, `Reorder`) are one statement on the rows as far as the model
  goes (`UpdateRow`). All end with `ScanKeys` and `DeleteKeys`, the SCAN and DEL of
  `delByPattern`. `missed`, `choice` and `contended` are history variables.
* `MushafPages`. `pageRow[m][p]` is a row, taken for its verses; `job` is a command with the page
  it is at; `cached` and `loading` are the entries and shared loads of the page's details, its
  bundle with verses and the list. The crawl fetches, writes the row and caches its details page
  by page, and the checks come at the end, as in `syncMushaf`. `whole` and `overtaken` are history
  variables.
* `VerseContent`. An entry is the ticks since it was written and, for what it holds, how old that
  was then and is now; `Missing` is content that is not there. The actions are those of
  `getOrSet`: fresh, stale with one shared load, gone.
* `QuranRoutes`. Each route is a function from its parameters to a key and to what it is loaded
  with; an ask is answered from the entries of its keys, which it loads when they are not there.
  `served` keeps what was answered beside what the route alone would have answered.
* `QuranClient`. `stored` is the token in Redis, `fetch[p]` the in-flight promise of a process,
  `req[r].pc` the next Redis command, exchange or timer of a request, `refused` the tokens it got
  a 401 with.
* `LocalExport`. `file` and `part` are a path and the path with `.part`; `lane` where each lane of
  a pool is; `phase` the pool the run waits for. A lane whose pool has failed goes on beside the
  next steps, as `Promise.all` does not stop the others. A text comes page by page (`NextPage`), is
  at an end at its last page or an empty one (`FetchedFile`), and is looked for again before it is
  written (`FileExistsNonEmpty` at `recheck`); a recording may be looked up first (`Lookup`), after
  the list of its reciter, which may not be had (`Listed`). Folders, writes and renames may fail
  (`WriteFails`), which ends the step and leaves what was written. `remote` says whether there is an
  address for the pages of the 1405 mushaf; without one, or when as many were copied as there are
  pages, their download is left out and the run is none the worse (`Skipped`). `clean` is a history
  variable: no step of this run has failed and no text was missing upstream.
* `UserLists`. `rows` is the table of the list a behaviour is about; `edit[e]` a request between its
  statements with what it has read; `page` a client that turns pages: its cursor, what it was
  shown, and in `stayed`, a history variable, the rows that were listed all along in one place.
* `ReadingStats`. `opensOf` and `versesOn` are the two tables, `ask` a request with what its
  statements have read so far, in any order (a `Promise.all`); `Answer` is what it computes.
* `TelegramBot`. `update[u]` is an update with Telegram's view of it, `request[r].pc` the next step
  of the handler of one post; a time-out answers and leaves the steps going. `effects`,
  `replies`, `losses` and `told` are history variables.
* `WriteAccess`. `FindByTelegramId` is the read and `UpsertFromInitData` the upsert of
  `upsertFromTelegram`, called by both logins and by each bot command. `lastWord` and `overtaken`
  are history variables.

## 3. What the runs check

| Run | Question | Result |
|---|---|---|
| `preferences` | do the switches agree, is the time one that was asked for? Do pages of a changing list tell all, do saved verses exist, is the continue pointer recent? | holds: after any request that ran alone the switches agree, one cut short or overlapped is mended by the next that runs alone; a time is replaced only by one that a handler had in hand when it was asked for, and a deleted one does not come back; a row that stays is shown exactly once |
| `flags_in_sync` | are they always in sync when nobody is at work, as the comment says? | **no**: two overlapping requests suffice |
| `local_time` | is the time preserved by a change of the switch, as the comment on it says? | **no**: it is read and written back in two statements, and a time asked for in between is undone |
| `delivery` | one message per date, stamps, final receipts | holds: each message beyond the first is paid for by a fault of that delivery |
| `delivery_liveness` | is what a scan found due settled? | holds under weak fairness: it is settled, or shows where it stopped: in a failed job, a claim a fault left open, a user who is gone, or a scan that did not come to its end (`dropped`) |
| `pending_reclaim` | does a PENDING claim end, as the parameter's comment says? | **no**: a retry before the row is stale completes the job and nobody looks again |
| `interval` | is a user due every second day at his minute, as the setting says? | **no**: the stamp is later than the scan, the reminder comes on the third day |
| `sessions` | rotation, reuse, bans, lineage; updates of the bot; write access | holds; an update that is acknowledged was served, a stop the user knew of comes back only if an answer was lost, and write access is as last told unless a login that left it open was under way |
| `activity` | do counts, results, goals and completions stay consistent? Is each event stored, waiting or accounted for, with a flush coming? Are the statistics true? | holds; a completion is taken back only after a change of target or by a progress request that read the day before an open was counted; events wait without a flush only after a fault, or when more than a batch was waiting; a day counted ahead of today leaves no current streak |
| `catalog` | is a cached list right, is there one default, do admin choices survive a sync? Is an edition whole, is what is served of it current? Is each request answered with what it asked for? Is an export whole? | holds, but for an overtaken load, a failed invalidation, two defaults set at once, a curated translation switched off, and, in the export, copied pages and recordings with two addresses |
| `content` | is a refused token used again, do requests and loads end, how old can an answer be? | holds; merged verses can be nearly twice the retention old, because the merge is loaded from entries that are stale themselves |
| `toggles` | are admin toggles preserved by a sync, as the comment on the curated list says? | **no**: every sync switches the curated translations on again |

Deadlock checking is off except in `toggles`: requests, commands, clock and faults are bounded, and
the system may stop when they are used up.

Every property of a passing run has a mutant: an operator beside the definition it replaces (its
comment begins "mutant:") that is a plausible bug, under which TLC finds the property violated.

### Bounds and why they suffice

* `preferences`: one user, since rows of different users share nothing; three handlers and four
  requests let two writers interleave and a third begin between them; two minutes in a day give
  two reminder times. The lists have three rows in pages of one, so that rows can come, go and
  move before, at and after the cursor; two instants give ties; three requests that write, two at
  once; a chapter of one verse and one of two, so that a chapter and a verse may not fit.
* `delivery`: one user; two workers, so that one job can be run by a worker that lost it and by
  its successor; two dates; two attempts, one stall; two faults, the fewest that combine a lost
  lock with a time-out or a crash; a row is stale one tick after its update, so that both the
  fresh and the stale case occur. `interval` has two ticks in a minute and one minute in a day,
  since only the order of scan and stamp inside a minute matters to it. `local_time` needs two
  handlers and two requests.
* `sessions`: one user, one session identifier (sessions meet only in `revokeAllForUser`, and the
  theorems hold for any number); two handlers for two requests at once; four requests are a login
  and three more; three seconds with a token life of two let tokens of the same second, later
  seconds and expired ones meet. The bot has one update, since updates share only the two
  switches, posted three times at most, and two lost answers, the fewest that repeat both a
  message and an update. Five logins and commands, three at once: one that reads, one that
  overtakes it, one that follows.
* `activity`, the goals: one user, whose rows are all that the requests share; one verse, two goals,
  two metrics, two targets; two requests at once and four in all (`GoalsBound`: no goal is
  being created that would find no identifier left); two dates, reached by the clock and by a
  timezone that is ahead of it.
* `activity`, analytics: batches of two and chunks of one, so that a batch can be half inserted;
  five events, the fewest that make the list exceed twice the batch; two calls at a time; two
  workers, so that a job can be run twice; one fault; two buckets. The statistics have two ayahs,
  two opens, two dates and a timezone a day ahead; periods of one and two days stand for those of 7
  and 30.
* `catalog`: two rows, one of them curated, for two defaults and for a list that is partly there;
  two lists, so that a sync can stop between them, of which readers ask for one (`Asked`), since
  a cached list never depends on another; two edits or syncs at once. Pages: two editions of two
  pages and three verses, one change upstream, two commands; `PagesBound` keeps the readers of a
  single page to behaviours with one command, since what two commands do to a page they do to its
  verses. Routes: all of them, with queries of up to two parameters, and two spellings where the
  code maps spellings. Export: five pools, one of each kind of fetch, with a recording that has two
  addresses and a page that is copied and then looked for by the download; two lanes, two runs, one
  retry. `ExportBound` lets one step fail in a run, as no step depends on another, and keeps the
  lanes that go on beside later steps to the first of the two runs: what they leave behind is what
  the second finds. `toggles` needs one row.
* `content`: two requests in two processes and three tokens, so that each can invalidate the
  token of the other; one retry of each kind; a retention of three ticks, in which an entry is
  fresh for one or two.

### Fairness

`ReminderDelivery` assumes weak fairness of each worker's next step, of each job being taken, of a
scan's going on or stopping (`Enqueue` or `ScanStops`: nothing says that it comes to its end), of
BullMQ's stalled-job check and of the clock: a Node process that runs executes its continuations,
BullMQ's workers poll and its stalled check is a timer.
Users, faults and eviction are not fair. `AuthSessions` assumes weak fairness of each request
handler's steps and nothing else. `QuranClient` assumes it of each request's next step (a reply,
a time-out or a timer comes) and of each fetch; `VerseContent` of each load: the HTTP client has a
time limit, so a load ends. Invalidation, retention and readers are not fair.

## 4. What is proved

The theorems hold for every set of users, rows, requests, workers and sessions and every value of
the bounds that the named assumptions allow. These ask that sets are finite or not empty where a
choice or a count needs it and that bounds are naturals, and beyond that:

* `CatalogAssumption`: translations are one of the lists (`"translations" \in List`), as the
  default is one of them;
* `PagesAssumption`: there is an edition, and what has its own layout is one;
* `RoutesAssumption`: no key of QuranEnc is a number (`quranenc/split-translation-ids.ts:24`);
* `ExportAssumption`: pools share a file only when they are of one step, with nothing of another
  step between them, for the steps write in folders of their own; a pool may name a file twice;
* `ListsAssumption`: row ids are numbers, some exist, and each chapter has a verse;
* `StatsAssumption`: a period is a day or longer, and the shorter one is no longer than the other;
* `ContentAssumption`: an entry is fresh for no longer than it is retained.

What each module proves, and the invariant it needs:

* `UserDataProofs`, the preferences: `PrefTypeCorrect`, `FlagsAgree`, `LocalTimeIsKept`. The
  inductive invariant `FlagInv` adds `CleanOps`: a handler that has been alone since it began has
  in the rows exactly what it wrote (`Achieved`), and nobody else is at work on its user (`Alone`).
  Agreement itself is not inductive, because it says nothing of handlers under way. For the time,
  `TimesInv` adds to `LocalTimeKept` that what a handler has in hand for a row that is there is
  among the times the row may show (`HandsHold`), which is what makes its write-back one of them.
* `ReminderDeliveryProofs`: `TypeCorrect`; `FlagsAgreeInDelivery`, which follows from `FlagsAgree`
  without a second induction, for the worker's statements are those that `ReminderPreferences`
  lets it execute at any moment; `ResendsBounded`.
  The bound needs an account: `Budget(k)` says that messages sent, plus workers that lost the
  job's lock but may still send or reopen the row (`Zombies`), plus one if the job's own attempts
  may still send (`Pending`), never exceed one plus the faults. Each step keeps the account, moves
  it from "may send" to "sent", or is a fault that pays for it. `SentIsAlwaysStamped` and
  `ReceiptsAreFinal` speak of deliveries that no fault struck: such a delivery is in the hands of
  one worker, and the place of that worker says which of row, inbox and stamp are written.
* `AuthSessionsProofs`: `TypeCorrect`, `SpentStaysSpent`, `TokenBuysOne`, `SessionsAreLineages`
  (the refinement of `SessionLineage`), `BansEndSessions`. The invariant ties what a request
  carries to where it stands (`HandlersSound`: presented and signed tokens belong to its session
  and are in order of time), and says that a spent token is older than the one its session holds
  (`SpentSound`), from which "never current" follows. The ban's proof has its own invariant
  `BanInv`: once the ban is through the user has no live session and no login under way.
* `ReadingProofs`: `GoalsTypeCorrect`, `RollupsAlwaysMatch`, `CompletionsStand`, `PastIsKept`.
  The counts match the history only because of the row lock: `RowLocked` says that a request past
  its first upsert is the one that holds the lock and that what it counted is one more than what
  is stored, `FreshIds` that its open is not in the history yet. For completions the invariant
  says that the day only grew since a progress request read it (`DayOnlyGrew`), that the targets
  a request has read are still those unless changed (`TargetsStand`), and that a completion was
  earned (`CompletionsEarned`).
* `UserDataProofs`, the lists: `EveryPageTellsAll`, `SavedAyahsAreReal`, `ThePointerIsRecent`,
  `ListsTypeCorrect`. `Turned(i)` places a row that stayed: before the cursor it was shown once,
  after it not at all. That a set of rows has an order to be paged in (`InOrderSorts`) and that a
  page of the rows after the cursor shows the first of them are lemmas about `Precedes`, which is a
  total order because ties are broken by the id. `EditsSound` says that a request on its way to
  write a saved row holds a verse that exists.
* `ActivityProofs`, analytics: `TypeCorrect`, `NothingEverVanishes`, `AFlushIsComing`. `Sound` says
  who owns what: a job's lock is held by the worker that runs it (`LockHeld`), and what a flush
  counts as inserted is stored (`SlotsSound`), so that what is cut off a batch was not lost. No
  flush is forgotten because the step that ends a job or takes a batch leaves nothing behind it on
  the list that is not marked as stranded, and the last bucket has no call under way (`CallsEnd`).
* `ActivityProofs`, the statistics: `StatsTypeCorrect`, `StatisticsHold`. Two halves. What the
  functions compute: a sum over a finite set does not depend on the order it is taken in
  (`SumTakesOut`), grows with the set (`SumGrows`) and by one when one more is counted
  (`SumWithOneMore`); a set of dates can be put in order (`AscendingRises`, `DescendingFalls`);
  after k of the dates, the pass of `computeStreaks` has counted the run that ends at the k-th and
  the longest so far, and its second loop has counted k days or has met a gap (`LongestRunIs`,
  `RunBackIs`, `CurrentStreakIs`). What the steps keep: `StatsInv` says that opens are counted as
  often by the ayahs as by the days (`CountsAgree`), that what a request has read is no more than
  what there is by now, and that a total it has read lags by no more than was counted meanwhile
  (`ReadSoFar`); when the last statement has been read this is `FiguresFit`.
* `QuranCatalogProofs`, the catalog: `TypeCorrect`, `CachedListsCatchUp`, `OneDefaultAtMost`,
  `ChoicesAlwaysStand`. `ListsCatchUp` is not inductive: a handler that has scanned for the keys
  before a list was cached has written it and will not drop it. `Promised` counts only the handlers
  that will (`Pending`); `WritingKeepsPromise` serves the three actions that write rows,
  `KeepingKeepsPromise` those that write none, and the rest are loads, expiry and drops.
  `EditsAreOfRows` reduces the requests of administrators to the two shapes the other lemmas treat.
  For the default, a transaction that cleared the others and was not overlapped finds none when it
  sets its own (`DefaultSound`).
* `QuranCatalogProofs`, the pages: `EditionsAreWhole`, `PagesAreServedCurrent`,
  `PagesTypeCorrect`. The crawl checks in `seen` that no verse comes twice and at its end that all
  came; `Sound` says that what a crawl has seen is the verses of the pages it fetched, none of
  them on two pages, and that a clone made while nothing else wrote the edition holds a whole one.
  `LeavesBehind` says that the pages a lone job has put in the rows are those it holds, `OnItsOwn`
  that no other job is then on its edition, and `Served` that of a whole edition each cached answer
  not overtaken is what the rows say, or a job is still to replace or drop it.
* `QuranCatalogProofs`, the export: `TheExportIsWhole`, `ExportTypeCorrect`. For a file that is
  neither copied nor named twice (`Mended`), the lanes of a pool hold different numbers
  (`LaneSound`), hence different files, and pools that run beside each other, because a step failed
  and its other lanes went on, share no file (`Apart`); so no other lane writes its `.part`, and a
  lane that renames it renames what it has written whole. `Complete` says of each pool before the
  present one that something is at the path of each of its files, if it was not skipped and no step
  has failed; what is skipped does not change under way (`SkippedKept`), and a lane that failed is
  not one that ended (`LaneSound`), so that its pool is left only by a step that fails. The pools
  before are as many as one likes: the argument takes the first of a step (`WellFoundedInduction`,
  see below).
* `TelegramProofs`, the row of a user: `WriteAccessIsAsTold`, `AccessTypeCorrect`. A login that
  leaves write access open will write back what it has read; `Held` says that this is still what the
  row says, unless something was written since.
* `TelegramProofs`, the bot: `UpdatesAreServed`, `NoToldStopReturns`, `BotTypeCorrect`. What a place
  of a handler says was brought about before it (`Reached`) may have been brought about by another
  attempt. The bound on messages needs an account, as the delivery's does: those sent, plus the
  requests that may still send one no lost answer pays for (`Unspent`), plus one if the update is
  still to be posted, are within one plus the answers lost (`WithinBudget`). `NoToldStopReturns`
  follows from the same account: a request still to turn reminders off may still send.
* `QuranContentProofs`, the client: `ClientTypeCorrect`, `DeadTokensAreDropped`. A request that was
  refused does not read Redis before what it was refused with has left it, and a token that is with
  its fetch is new to everybody (`NewToAll`).
* `QuranContentProofs`, the verses: `ContentTypeCorrect`, `AnswersDoAgeOut`. `KeptFits` gives the
  age of what an entry holds by the age of the entry; `LoadFits` bounds what a load under way holds,
  in which no tick falls.
* `QuranCatalogProofs`, the routes: `EachRequestIsAnswered`, `RoutesTypeCorrect`. `Meaning` reads
  back from a key alone what its entry holds: table, path, query, normalisation and merged
  editions. Each of the some thirty groups of routes, and each page read ahead, asks with entries
  that hold what their keys mean (`TextsKnown`, `PagesKnown`, `ResourcesKnown`, `AudioKnown`), so
  two requests that share a key share its content. Here `_enc` is needed: without it the key of a
  merge has no meaning.
* `PartsTypeCorrect`, in each of the four modules that extend a sum of several: a behaviour of the
  sum is one of every part, for a part that is not being checked stutters.

Two remarks on the arguments. The provers cannot use the library's induction theorems, which take
an operator as a parameter. But "a set of numbers that is not empty has a least member" has none,
and follows from `WFMin` and `NatLessThanWellFounded`; `LeastOf` stands for induction wherever one
is needed, and with it `AllNumbers` and `AllSubsets`, where what is shown of each number, or of each
subset of a finite set, is that it is a member of a set. By these a function that is defined from
its smaller arguments exists (`FoldIsDefined`), which is what sums and passes over a sequence are.
And a proof may only open a `CASE` whose arms it knows to exclude each other: two arms of `Follows`
in `TelegramBot` that overlapped came to light in this way and were made disjoint, with the same
values.

Every safety property that a passing run checks is stated by a theorem. Only model-checked:

* the liveness properties `DueIsSettled`, `RequestsEnd`, `LoadsEnd` and `ReuseRevokes`: fairness
  and leads-to are beyond the prover's reach;
* the five properties that are expected to fail.

Type theorems (`TypeCorrect`, `PrefTypeCorrect` and the like) are of single modules; the runs of
several modules check the same types as `PartsTypeOK`.

## 5. Abstractions

Timezones are fixed and equal to the clock's. Names, texts and other settings are left out. An
access token is taken to be issued beside each refresh token. Login signs a role only in the
admin panel. The scan's two filters (candidate minutes in SQL, exact minute in code) are the one
guard `Due`. Cookie attributes, init-data verification, logging and the admin log are not modelled.
BullMQ is modelled from the options the code gives it: job identity while the job is known, a
number of attempts, completed jobs removed, failed ones kept until a hundred others push them out,
stalled jobs put back a bounded number of times.

Reading: a goal of minutes is never counted up, as in the code; the percentages of the progress
answer are left out. PostgreSQL is taken at READ COMMITTED with its row locks; a deadlock it
resolves is a statement that fails. In the statistics one request is followed from its start to
its answer; `Lookback` stands for 400 days, and the answers for one day (`getDaily`,
`getTodayDay`) are left out.

Lists: fields other than the coordinates, the unread mark and the instant are left out, and so is
the refusal of a row that is not there, which changes nothing. The date filter's `to` is an
instant. A verse that is opened again moves in `recent`, so it is not a row that stays. An update
of a bookmark writes it even when it was deleted after it was found, as in the code.

Accounts: the profile fields are left out. `docs/rest-api.md:170` says that a login "does not clear
write access unless Telegram sends an explicit" refusal; a login that leaves it open and has read
the row before a bot command granted access does clear it. This is the exception `overtaken` of
`AccessIsAsTold`. In `TelegramBot` the accounts, the tracked events and the contents of messages are
left out, the resolution of a card is a step that may fail, and the commands that only open the
application are one kind.

Analytics: one buffer key; batches sent by clients are one insert and left out. A Lua script is
one action. The jobs of two buckets may be active at once, as the queue's concurrency allows.

Catalog: one backend process, so one in-flight map; freshness is time that the model leaves out, so
a cached list may be found stale at any moment; the language variants of a list's key are one
key. Sort order, popularity, names, soft deletion and the rows of other providers are left out.

Pages: a row is its verses; image URLs and coordinates are left out. Upstream changes between two
fetches and never within one. A sync that throws leaves a mixture of old and new pages, and two
commands on one edition at once may too: `WholeEditions` speaks of commands that were through and
alone. Verses of a clone are those of its source, and the code does not check them again.

Routes and content: payloads are what they were loaded from. `canonicalizeQuery`
(`quran/cache/quran-cache.service.ts:305`) joins names and values without escaping `&` and `=`; the
values of the run contain neither. One chapter stands for the verses of a juz or page. A load takes
seconds and a tick is hours, so no tick falls into a load. The client is one of the two scopes;
`MaxTokens` bounds the tokens issued.

Export: what is parsed of the answers is left out, and so are the retries of the requests for
catalogs, lists and single recordings: they are had or not. The folder of uploads is the same in all
runs. A recording that is looked up has the path its extension would give it, which is taken to be
known beforehand. A translation that upstream has no text of is skipped, and a text ends at an empty
page whatever is said of more: such a run is not one without a text missing (`clean`), or its text
is shorter, which no property sees. Translations of one author into one language write at the same
paths and the first of them stays. Copied page images are written in place (`copyFile`), and two
addresses of one recording share a `.part`; both are excepted in `ExportIsWhole`.

What the history variables except. A property that names a cause excuses what that cause leads to:
`torn` (overlapping or cut-off switches), `loose` (a login past its check, a failed revocation),
`overtaken` (write access, cached pages), `lost` and `stranded` (analytics), `missed` (loads and
failed invalidations), `contended` (two defaults), `choice` with the curated rows, and `dropped` (a
scan that stopped). In these cases the code does lose what the property speaks of; the hazards in
PROJECT.json say in their notes which of them are excused in this way and not caught.

### Not modelled

Init-data verification is an HMAC and an age check, a pure function. The rate limit guard is one
atomic Lua script per request. Configuration, health, commands, the dashboard and the admin log
hold no state that several actors share. Themes, fonts and default resources of the settings are
independent fields of one statement. `quranenc.client.ts` and `qf-catalog.mapper.ts` parse text.

## 6. Plan

1. An abstract specification of the goals' results and one of the cached lists (a list is one the
   catalog has had), shown to be implemented; a single abstract cache that `ResourceCatalog`,
   `MushafPages` and `VerseContent` use in the same way.
2. The order of the catalog's rows under overlapping reorders, and the batches that clients send
   to analytics.
3. Runs on statements the code does not keep beside those above: write access cleared by a login
   that leaves it open; `syncAll`, which switches a whole list off when only that list comes back
   empty.
