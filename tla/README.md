# Job Market Map: a verification development

Job Market Map (JMM) collects job postings from SEEK and LinkedIn into one
SQLite database, groups the postings of one vacancy, fetches one job
description (JD) per vacancy, retires what has closed and feeds the result to
named consumers. This directory holds TLA+ models of the parts of it that keep
state, the TLC configurations that check them on small instances, and theorems
with proofs for TLAPS, which hold for every value of the constants.

Paths below are relative to the repository's root. `PROJECT.json` lists, per
definition, the source lines it stands for, the runs with the properties they
check, the hazards the properties are about, and the disagreements found.

## The system

| Component | State | Operations | Works with |
|---|---|---|---|
| Vacancy store (`collector/schema.sql`, `db.py`) | `jobs`, `same_vacancy_links`, `job_observation_state`, `jd_fetch_registry`, `jd_enrichment_queue`, `job_tombstones` | one transaction per operation, foreign keys that null and cascade | everything |
| Card ingest (`collector/ingest.py`) | none of its own | `ingest_card`: row, family link, queue row in three transactions | store, duplicates, queue |
| Same-vacancy detection (`collector/duplicates.py`) | `primary_job_id`, links | merge two families | store |
| Terminal retirement (`collector/job_retirement.py`) | tombstones | remove a closed posting, promote an active alias, move the JD | store |
| Retention (`collector/retention.py`) | `archived`, tombstones | archive what is old, remove what is archived and unused | store |
| JD queue and batch (`collector/jd_queue.py`, `jd_batch.py`) | attempts, last_error, queued_at | enqueue, take, charge, defer | store, enrichment, runner |
| JD enrichment (`collector/jd_enrichment.py` and adapters) | `_ENRICH_LOCK` per process | `get_or_enrich_job_jd` | store, sources, API |
| Consumer feed (`collector/consumers.py`, `api/main.py`) | `consumer_checkpoints` | feed page, advance checkpoint | store |
| SEEK runner (`scripts/run_collection_cycle.py`) | run record | coverage, drains, deferral, final status | all of the above |
| SEEK coverage (`sources/seek_market_map.py`, `collector/seek_cycle.py`) | `seek_partitions`, memberships, history | split, page, resume, reset | store, ingest |
| LinkedIn campaign (`collector/campaign.py`, `cursors.py`, `source_campaign.py`) | cycle and cursor rows | chunk fetches, ingest, JD batch | store, ingest, queue |
| Scheduler, process manager, lock, run records (`collector/scheduler.py`, `service_manager.py`, `run_lock.py`, `service_state.py`) | `scheduler_state`, `market_collection_runs`, `data/collection.lock`, `_process` | tick, start, lock, record, recover | runners |
| Browser broker (`collector/browser_broker.py`) | `_pages`, `_page_targets` of each process, the tabs of one Chrome | open, navigate, read, close, recover | coverage, JD adapters, API |
| Posting dates (`collector/ingest.py`, `db.py`, `posted_at_repair.py`, `posting_date_backfill.py`) | `jobs.posted_at` and its basis, `job_field_states`, `posted_at_repair_attempts`, captures | store a card, store facts, repair, backfill, heal | store, search |
| Backup and promotion, query registry, salary, readiness and logs, settings, Job Hunter import | files, counters, settings | I/O or one statement | |

Three kinds of process write the database: the API (with a thread per request
and the scheduler thread), one collection runner at a time, and scripts started
by hand. They share nothing but the database and the lock file. The hard
behaviours follow from that:

* *interleaving*: an operation made of several transactions (ingest, enrichment,
  the feed's read and write of a checkpoint, a scheduler tick) has anything else
  between two of them;
* *partial failure and crash*: a runner can stop or die between any two
  transactions and nothing repairs the rest by itself;
* *identity*: row ids are reused by SQLite, while the feed, the queue and a JD
  fetch in progress keep them;
* *retry and deadline*: attempts, deferral and a stop flag that is read more
  than once decide what the next run will still do;
* *pointer rewriting*: merging, promotion and foreign keys rewrite
  `primary_job_id` and the audit table independently;
* *resumption*: coverage of SEEK and a LinkedIn cycle go on for several runs
  from rows the earlier run left, whatever window or key it was started with;
* *a source that changes or withholds*: SEEK's list grows and shrinks while it
  is paged, LinkedIn answers with fewer rows than it has;
* *evidence of different worth*: several writers store a date, each deciding
  from a row it read some time ago;
* *handles that outlive what they name*: page ids survive the loss of Chrome and
  are bound to tabs again, while another process drives the same Chrome.

What makes each component correct is stated as properties below.

## Modules

| Module | Models | Built on |
|---|---|---|
| `VacancyStore` | the store with ingest, merge, retirement, retention, JD storage | |
| `VacancyStoreProofs` | everything the run `store` checks; what an answer is worth while another process inserts and merges; what a checkpoint may pass, for any number of overlapping runs | `VacancyStore`, `JDEnrichment`, `ConsumerFeed` |
| `JDEnrichment` | one `get_or_enrich_job_jd`, use of the database by use of the database | `VacancyStore` as its environment |
| `ConsumerFeed` | overlapping feed runs of one consumer, request by request | `VacancyStore` as its environment |
| `JDQueue` | the SEEK queue across runs: drains, deferral, final status, removal and return of postings | |
| `JDQueueProofs` | how often a posting is charged, what COMPLETE says | `JDQueue` |
| `Scheduler` | ticks, retry rule, process manager, lock, run records, both runners | |
| `SchedulerProofs` | one run at a time, its record, and how many a slot gets | `Scheduler` |
| `SeekCoverage` | the partition tree of SEEK, passes, resumption, the reset of a cycle | |
| `SeekCoverageProofs` | what a complete partition and a run that gives up say, for any tree | `SeekCoverage` |
| `SeekLeaf` | paging through one leaf while the list changes, run after run, and its recovery by an older count | |
| `SeekLeafProofs` | no gap between runs, bounded misses | `SeekLeaf` |
| `LinkedInPaging` | what a cycle promises of every geography (abstract) | |
| `LinkedInCampaign` | cycles, cursors, concurrent fetches, ingestion, JD stage | implements `LinkedInPaging` |
| `LinkedInCampaignProofs` | the refinement, what a complete cycle has done, what short answers can hide | `LinkedInCampaign` |
| `BrowserBroker` | page ids of several processes on the tabs of one Chrome | |
| `BrowserBrokerProofs` | own tabs and true reads: the inductive invariant | `BrowserBroker` |
| `PostingDates` | every writer of one row's posting date | |
| `PostingDatesProofs` | evidence is found and kept | `PostingDates` |
| `MC*` | the symmetry sets and small definitions TLC needs | their module |

### VacancyStore

`posting[i]` is the identity a row holds, `primary` and `links` the two pointer
columns, `terminal` and `archived` what decides whether a row is active, `jd[i]`
*whose page* the stored text was read from, `queued` the queue rows, `tomb` and
`registry` identities, `ingest` the position in a running `ingest_card`. An
action is one committed transaction, together with every effect of the foreign
keys: `Delete` does for a removed row what `ON DELETE SET NULL` and `CASCADE` do
to pointers, links and queue. `IsNextId` is SQLite's choice of a row id without
`AUTOINCREMENT`.

Left to chance, because it is data: which texts match (`IngestLink`), which
active member is the freshest (`RetireTerminal`), how old a row is
(`Retention`), what a source says of a posting (`SetSourceStatus`). Reads made
before the first write of a transaction are taken as part of it. Field states,
captures, query counters and descriptive columns decide none of these branches
and are left out. `IngestAbort` is a runner that ends between two transactions.

### JDEnrichment

`call` is the call in progress: the requested posting, the root it has found,
the terminal rows still to remove, the candidates as pairs of row id and the
posting read with it. The steps follow `get_or_enrich_job_jd`: primary, family,
cleanup loop, survivor, candidates, fetch, facts, store. Between two of them
`OtherStep` commits any step of `VacancyStore`, which is what the other process
may do (`_ENRICH_LOCK` keeps calls of one process apart, not those of two). A
fetch has four outcomes: a text, a closed page, a failure, an exception. The
order in which candidates are tried is left open, `get_primary_job_id` and
`store_job_jd_once` at the end of a call are one step, and so are the candidate
list and the look at the cache. The cleanup loop
compares each row with the primary the family was listed with (`first`, the
code's `primary_id`): only its removal replaces the survivor (`root`). A member
that was promoted for it and is on the list itself is removed next and stays the
survivor all the same, so that the vacancy has none and the answer is 410. The
listed rows are all terminal and the heir of a primary is an active one, so this
takes another process that finds a listed row open again before the primary is
removed (`Reopened`). `alone` remembers whether another process removed a row,
reopened one listed for removal, or opened or closed the requested posting,
meanwhile; `moved` that the family was merged under another row between two particular uses of its
root: between the survivor and the candidates, where the query then finds the
members of an alias, and between the family list and the removal of its primary,
which then is no primary and has no replacement. The properties that hold need
both, the violated ones show why. `moved` was found by a simulation with three
rows and is what the proof needs; a call of two rows cannot meet it while the
requested posting is open.

### ConsumerFeed

Each API request runs in a thread of its own and uses the database several
times, so a run goes step by step: its first request reads the saved checkpoint
(`BeginRun`) and then the high-water id (`CaptureHighWater`), every later one
reads the checkpoint anew (`AskAgain`): `consumer_feed` takes no cursor from its
caller. Then the page is read and processed (`ReadPage`), and the cursor posted,
whose comparison and write are two steps (`PostCheckpoint`, `WriteCheckpoint`) as
in `advance_checkpoint`. Clients are runs made with one consumer key, so that
the pages of each start where the other's checkpoint was last written. A run may
fail anywhere and leaves the checkpoint (`RunFails`). `owed` remembers the rows
the consumer must not miss: those that came into the feed ahead of the
checkpoint and of every page in progress, as long as they stay in it; `steady`
those a run was started with. A row that leaves the feed is owed no more, one
that comes back behind a cursor is not owed: `ReturningJobsWereFed.cfg` is about
those. `StoreJD` is left out of the environment here: no branch of the feed
looks at a JD.

### JDQueue

Rows are postings; `live` are those with a row that counts, `dormant` those
whose row was archived or is terminal, `window` the rows with `queued_at` at or
after the run's start. One run is: coverage with bounded drains between
partitions, the deferral test, the final drain, the status. `halt` is the stop
flag or the deadline. `Pending` is the recency clause of `pending_primary_ids`.
`ids` is the list a drain works off, in any order, since the primary of a
vacancy moves when a posting returns or is promoted; `FirstOf` is the batch cut
from it.

A posting enters the queue when it is found without having a row (`Discover`):
new, or seen again after its removal (`resurrected` in `ingest_card`), in which
case its attempts start from nothing. An archived posting that is seen again
counts again, with the place it kept in the queue (`SeenAgain`). `Settle` is what
a call leaves of the queue: rows that go with their posting, or all of the vacancy
once it has its JD, and the charge of the others. A call may find some postings
closed and remove them; when the primary it was started with is one of them,
`record_pending_attempt` finds no row under that id and charges nobody, and a
second attempt ends the run with a `KeyError` (`FetchFails`, `RunDies`). With the
last row that could inherit it the text goes too, unless a posting of another
source keeps it (`MayForget`). A vacancy has finitely many postings. Which
postings belong together does not change here and there is one source.

### Scheduler

Time is the SEEK slot of now, whether its window is open, and whether the
LinkedIn cycle has the key of the current LinkedIn slot. A tick is: decide,
record the slot as attempted, start. The manager refuses when its process lives
or the lock is held. A runner takes the lock, opens its record, marks the
scheduler state, finishes the record, closes. `Raise` is an uncaught exception:
the `with` block of the lock is left *before* the failure is recorded, so the
next runner may already be at work. `Die` is the end of a process without any
record. A runner may also be refused because `lock_status`, which takes the lock
to see whether it is free, has it at that moment. The settings that switch the
scheduler off and the stop request (an ending like any other) have no action of
their own. Statuses are kept as far as some branch reads them. A run that fails
before `start_market_run` has no record: the code does not count it as an
attempt of the slot, and `SlotRunsBounded`, which counts records, does not bound
such runs either.

### SeekCoverage

`status` is the table `seek_partitions`, one row per window and partition;
`todo` is the call stack of `_process_partition`, its head the next statement, so
that a stop, a deadline or a crash (`Halt`) may cut a split between any two of
its children and a later run resumes from the rows alone. A status that is passed
upwards goes to the callers on the stack (`Callers`, the rows whose `finish`
waits). A resumed partition visits its children in the order of their row ids,
which the model leaves open (`ResumeTasks`); a split lists each refinement once,
since `seek_refinement_links` drops a link it has seen. `torn` remembers the
rows a split was cut at. `run` is the loop over the states with its budget of
one partition per state and pass. What a page reports is data: `Inspect` and
`Collect` choose, `Recover`'s test of counted memberships included. The update
that marks a partition as oversize is one step with the discovery of its
children, and the URLs of children are taken to keep the window of their parent.
What a healthy site does not do, stops and overridden windows cost one of
`MaxTrouble`; `short` remembers which rows had complete children with too few
jobs, because a later look at the same children finds no more of them.

Two settings decide about windows. A run without `--days` takes `lookback_days`
of the profile (`LookbackDays`); a blocked run archives and resets the workspace
when its window is `collection.default_freshness_days` (`DefaultDays`). As
shipped they are 2 and 1, and nothing keeps them equal. `CoverageCompletes`
therefore says that the cycle completes again and again *or* a run is blocked
whose window is not the one that rolls over (`BlockedForGood`); the run has the
two settings equal, where that cannot happen to a scheduled run, and
`ExhaustedRollsOver.cfg` has the shipped relation and finds that a workspace that
is exhausted once is never reset by the runs the scheduler starts.

### SeekLeaf

The pages of one leaf while the list changes, and what one run leaves to the
next. A posting is named by its place in the order of posting, which serves as
its date and as the time. `run` is the leaf being paged with the cutoff, the
page and the page before; `reported` is the count read before the first page,
which stays with the leaf, and `countedAt` when that was; `members` and `known`
are the leaf's memberships and the rows; `watermark` the start of the latest
complete fresh run. `Pinned` postings stand on top whatever their date,
`Undated` cards have no exact date and disable the cutoff from their page on. A
run visits an incomplete leaf once per pass (`NextPass`), and each visit first
compares the memberships with the count on record: if they cover it, the leaf is
`COMPLETE_RECOVERED` without another look at the list (`Recover`), whatever was
posted since the count was read, in a pass of the same run or in a resumed one.
`missed` and `forgone` remember what the two documented excuses cover: a list
that changed under a complete run, and a lookback shorter than the gap between
two runs.

### LinkedInCampaign and LinkedInPaging

`cycle` and `cursor` are the persisted rows, a page is ten positions of a
listing. A run works in rounds: `BeginRound` reads the cursors and starts one
fetch per pending geography; the fetches answer in any order and each attempt
may be answered short (`Short`), which costs one of `MaxShort`; a short page is
tried again and the pages behind it are probed. Then the pages are stored in the
order of the codes, each cursor in a transaction of its own behind its rows.
`WrapUp` and `EndJDs` decide the status of the cycle; what is pending at the end of
the JDs may be work of this run or what earlier ones attempted. `Stop`, `Crash` and
`IngestBreaks` end a run or a geography anywhere. At the cap nothing is asked
for or probed. `LinkedInPaging` is the promise without rounds, attempts and
runs: pages are stored in order without a gap, a cursor passes only what is
stored, and nothing moves when a geography is done. The mapping takes `next` from
the cursors of this cycle (0 where there is none) and `done` from their status.

### BrowserBroker

`tab` are Chrome's tabs in order, `link` a client's connection, `page` and
`target` its `_pages` and `_page_targets`, `cmd` the command on its browser
thread. A command finds its page stale (`LoseBrowser`), reconnects (`Recover`),
binds its ids one after the other to a tab at the target's URL or to a new one
(`Restore`), and is executed once more. Chrome or the driver may die, a
navigation time out, a connection fail and a process die at any step; each costs
one of `MaxFaults`. `wants` is what the caller of an id believes to be there,
`misread` what it accepted although it was something else. A reader of SEEK takes
a page for the one it asked for when it has the parameters asked for
(`_same_seek_page`), so that some other URLs pass as well (`Tolerated`,
`SamePage`).

### PostingDates

One row of either source, since no writer relates two. A date stands for its
kind of evidence. Every writer reads the row outside of the transaction it
writes it in, so a read and the write it decides are two steps, and four writers
interleave: the card (row first, field states in a second transaction), the
facts of a detail page, the LinkedIn repair, the backfill. The backfill is
atomic: its script demands `--acknowledge-quiescent`. `Listed` has the gate in
front of known SEEK cards, `Seen` is a card that passes for another reason. The
connections are in SQLite's deferred mode: also the states a card finds
(`ReadStates`) are read before the transaction that writes them begins
(`StoreStates`), so that an old `not_present` may be written over a `known`.

The detail page of a LinkedIn posting may have a date that does not parse: its
`datetime` attribute is stored as exact as it is (`linkedin_detail.py:86`,
`db.py:239`). `Malformed` has one shorter than a day and one longer than an
instant, because of two exact dates the longer text is taken for the more
precise (`Length`); SEEK's dates are validated when its page is read. Such a
date ranks above labels and windows and replaces them, against
`docs/DECISIONS.md:63` ("existing better evidence is not overwritten") and
`db.py:221` ("without degrading canonical evidence"). It is one of three losses
of LinkedIn rows that `EvidenceNeverDegrades` names (`LinkedInLoss`): a repair
that finds no date on the page clears what another writer stored meanwhile, a
date that does not parse, and an old state that is written back. Without any one
of the three, or without `Overtaken`, TLC finds a counterexample. `mishaps`
remembers the two that leave a row without a date after a repair counted it as
filled.

## Runs

Passing runs:

| Run | Properties | What it shows |
|---|---|---|
| `store` | `TypeOK`, `FlatFamilies`, `AuditMatchesGrouping`, `IdentityRecordedOnce`, `StoredJDIsRegistered`, `JDWriteOnce`, `RetirementKeepsJD`, `ActiveFamilyStaysTogether` | families stay one level deep and equal to their audit table; an identity is a row or a tombstone; a JD is written once, registered and inherited |
| `enrichment` | `AnswerServesRequest`, `UnavailableIsTrue` | an undisturbed call that answers serves the posting it was asked for, and answers 410 only for a closed one |
| `queue` | `AttemptsBounded`, `CompleteLeavesNothing`, `CarriedIsResolved` | attempts are bounded (by 3 for each time a posting of the vacancy was queued, not by the 2 of the query), COMPLETE is true, carried work ends |
| `feed` | `CheckpointPassesOnlyFed`, `RunCoversSnapshot` | the checkpoint that two overlapping runs share passes nothing that stayed in the feed and was handed over by neither; a run that ends leaves nothing of its snapshot |
| `scheduler` | `LiveRunIsRunning` | one runner at work holds the lock; recovery closes no record of a live run |
| `scheduler_retry` | `SlotRunsBounded`, `SlotIsTaken` | a slot gets three recorded runs at most: one, its retry, and one whose decision or record crossed a failure or a slot; a due slot is never passed over |
| `coverage` | `NothingIncompleteBelow`, `SplitIsCovered`, `BlockedMeansNothingToDo`, `WorkIsKept`, `CoverageCompletes` | COMPLETE says the truth about every level below, finished partitions are not done again, a run gives up only with nothing left, and coverage completes again and again once trouble ends, where the window of the profile is the one that rolls over |
| `campaign` | `TypeOK`, `CompleteIsExhausted`, `MissingRowsCostAttempts`, `CompleteCycleIsDone`, `ImplementsPaging`, `CycleEnds` | how many short answers it takes to end a listing early or to lose rows of a page; a complete cycle is done; the campaign implements `LinkedInPaging`; every cycle ends |
| `broker` | `OwnTabPerId`, `ReadsAreOfTheirPage`, `CommandsEnd` | recoveries never give two ids of a process one tab; an accepted page is the one asked for; a command ends after one recovery at most |
| `dates` | `TypeOK`, `SeekDatesAreFound`, `FilledIsFound`, `EvidenceNeverDegrades`, `EvidenceArrives` | evidence is kept and found, and arrives in the end, through interleaved writers, dates that do not parse, a crash and rows of earlier versions; what LinkedIn rows lose is named |
| `leaf` | `NothingFallsBetweenRuns`, `FewAreMissed`, `PostingsAreCollected` | no posting falls between two runs; a leaf complete by its count, old or new, misses no more than its excuses; stops and odd pages delay a posting and never lose it |

One run ends in a violation, of what a text of the repository says (`findings`
quotes it):

| Run | Property | Shows |
|---|---|---|
| `split_torn` | `SplitIsAlwaysCovered` | after a stop between two children of a split, the resumed partition takes the children on record for all of them and completes |

The other configurations in this directory are not runs of the project but are
kept beside them. Each ends in a counterexample; they are
named here so that a change of the code can be tried against them:

| Configuration | Module | Shows |
|---|---|---|
| `CanonicalJDIsKept.cfg` | `MCVacancyStore` | a merge under an older row without JD hides the JD of the newer (`docs/CONSUMER_CONTRACT.md:69`) |
| `MissingJDIsQueued.cfg` | `MCVacancyStore` | a stop inside `ingest_card` leaves a row nothing queues (`docs/SOURCES.md:20`) |
| `RegisteredIsNotRequeued.cfg` | `MCVacancyStore` | a rediscovered posting is queued although its fetch is registered for good (`docs/SOURCES.md:20`) |
| `TextIsOfTheVacancy.cfg` | `MCJDEnrichment` | a row id reused during a fetch takes the text of another posting |
| `UnavailableIsConfirmed.cfg` | `MCJDEnrichment` | a promotion or a merge by the other process reads as 410 for an open posting (`docs/CONSUMER_CONTRACT.md:71`) |
| `StoppedWorkIsCarried.cfg` | `MCJDQueue` | a stop after the deferral test leaves work no later run takes (`collector/jd_queue.py:133`) |
| `NewJobsAreAhead.cfg` | `MCConsumerFeed` | a reused id puts a new posting behind the checkpoint (`docs/CONSUMER_CONTRACT.md:49`) |
| `ReturningJobsWereFed.cfg` | `MCConsumerFeed` | a row that was inactive when the cursor passed returns behind it (`docs/CONSUMER_CONTRACT.md:47`) |
| `CheckpointNeverMovesBack.cfg` | `MCConsumerFeed` | two requests in flight move the checkpoint back (`collector/consumers.py:45`) |
| `NotSkippedForLinkedIn.cfg` | `MCScheduler` | a SEEK slot is used up while the LinkedIn process is still releasing the lock |
| `OverrideIsForOneRun.cfg` | `MCSeekCoverage` | the roots of an overridden window stay the newest ones and block the scheduled window (the help text of `--days`: "for this run only") |
| `ExhaustedRollsOver.cfg` | `MCSeekCoverage` | with the shipped settings (lookback 2, freshness 1) an exhausted workspace blocks every scheduled run after it (`tests/test_collection_runner.py:222`: "exhausted normal daily coverage rolls over") |
| `CompleteIsOfThisCycle.cfg` | `MCLinkedInCampaign` | two cycles of one key (a day from the command line, a slot in between): the second completes on the cursors of the first |
| `DiscoveriesAreDrained.cfg` | `MCLinkedInCampaign` | a cycle that ends at the cap or with a failure leaves its discoveries without an attempt |
| `TabIsDedicated.cfg` | `MCBrowserBroker` | a recovery binds an id to a tab another process drives |
| `UnknownMeansNoEvidence.cfg` | `MCPostingDates` | a crash between a card's row and its states leaves a dated row no search finds (`docs/DECISIONS.md:61`) |
| `WatermarkMissesNothing.cfg` | `MCSeekLeaf` | a posting that appears between the count and the first page is counted in place of the oldest one, and later runs stop before it (`collector/service_state.py:183`) |

### Bounds

* `Postings`, `MaxId`: three postings and three ids in `store`: a merge of a
  family of two with a third row, the promotion of one of two heirs, and the
  reuse of an id all need three and no more; every action and pointer operation
  concerns at most two families. `feed` and `enrichment` have two of each: a row and
  its alias, or the row behind a page and the one ahead of it, and a reuse of
  either id. Larger instances of these
  two are out of TLC's reach; their properties are proved for all.
* `Clients`, `PageLimit`: two clients, of which one moves the checkpoint between
  any two steps of the other, and pages of one row, so that a run over two rows
  has a page boundary. `FeedView` leaves out what no step of the feed reads.
* `BatchSize` 1 and the rows in `MCJDQueue`: two postings of one vacancy and one
  of another, so that charges are shared, drains are cut short and lists have an
  order. `MaxQueued` is how often postings of each vacancy are queued: twice
  where there are two postings, which is both of them or one that comes back
  after its removal, and once for the other. Attempts need no bound:
  `AttemptsBounded` says so.
* `MaxSlot` 2 and `MaxRuns` (rows of the run table, a guard of `OpenRun`): 2 for
  what concerns one run among others, 4 for `SlotRunsBounded`, one more than the
  property allows. `Runners`: 2, one at work and one late, where the lock is the
  question; 1 in `scheduler_retry`, where the scheduler and the API start one
  process at a time. `ByHand` names the kinds of runner also started from a
  shell, the only way to have two processes at once.
* `coverage`: one state split on two levels (a resume meets children, and
  children of children) and one that is not; two windows, so that roots of an
  override exist beside those of the schedule; `MaxTrouble` 2: one event tears a
  state of affairs and another hits the run that repairs it. `LookbackDays` and
  `DefaultDays` are both 2 (see above for the shipped 2 and 1).
* `campaign`: two geographies, so that one can fail, end or reach the cap while
  the other goes on, and two pages below the cap, so that a cursor has something
  behind and ahead of it. The listings hold both ways to end (exhausted, cap).
  `PageAttempts` and `ProbeAttempts` 2 and `MaxShort` 4 are one short of what
  `CompleteIsExhausted` says it takes to miss a page below the cap. `MaxSlots` 2
  for a cycle after another, `MaxStops` 1 for a stop or a crash anywhere.
* `broker`: a process with two ids and one with one that want the same page;
  `Tolerated` lets one URL pass for the other (`SamePage`: further query
  parameters do not count);
  `MaxTabs` 4, one more than the ids; `MaxFaults` 2: a loss, and another during
  the recovery. `leaf`: three postings on pages of one, two withdrawn, one
  without an exact date, one stop; `SafetyPages` 3 reaches the end of such a
  list. `dates`: one crash, four rows an earlier version may have left, and
  LinkedIn pages with an instant or with a date that does not parse and is longer
  than one.
* Symmetry is used for postings, clients and runners where only safety is
  checked. `enrichment` compares states by `CallView`, which leaves out
  tombstones, registry and history: no guard reads them and none of its
  properties is about them (`store` checks them).

Deadlock is checked in every run but `broker`, `campaign` and `dates`: there the
system comes to rest when a bound on faults, tabs, slots or crashes is used up
and nothing is asked of it any more.

### Fairness

* `SlotIsTaken`: weak fairness of the scheduler thread's step: `_loop` polls for
  ever and survives every exception of a tick. Nothing is assumed of runners:
  they may hang, fail or die.
* `CarriedIsResolved`: no fairness of steps; it is conditional on final drains
  that run to their end infinitely often, since runs that are always stopped
  early resolve nothing.
* `CoverageCompletes`: weak fairness of `Work` (a runner that is not stopped goes
  on) and of starting a run of the profile's window (the scheduler). It is
  conditional on no override having recorded newer roots.
* `CycleEnds`: weak fairness of a run's steps, and of starting a run while the
  cycle is due.
* `CommandsEnd`: weak fairness of the browser thread's steps with a command it
  has begun; recoveries have deadlines.
* `EvidenceArrives`: weak fairness of what a writer has begun, strong fairness of
  `Listed`: a posting that stays on the list is scanned by one run after another,
  although the gate or an ingest in progress may hold a card back for a while.
* `PostingsAreCollected`: weak fairness of starting runs and of a run's pages.
  Its list is quiet in the end (`MaxPosted`, `MaxWithdrawn`) and no longer than
  the pages a leaf may have.

The other runs need no fairness.

## Proofs

| Theorem | States | Module |
|---|---|---|
| `StoreInvariant` | `Spec => []StoreInv` | `VacancyStoreProofs` |
| `TypeCorrect`, `FamiliesAreFlat`, `AuditIsFaithful` | the parts of `StoreInv` | |
| `IdentitiesAreKept` | `Spec => []IdentityRecordedOnce` | |
| `TextsAreRegistered` | `Spec => []StoredJDIsRegistered` | |
| `TextsAreWrittenOnce` | `Spec => JDWriteOnce` | |
| `RemovalKeepsJD` | `Spec => RetirementKeepsJD` | |
| `FamiliesStayTogether` | `Spec => ActiveFamilyStaysTogether` | |
| `EnrichInvariant` | `EnrichSpec => []EnrichInv` | |
| `AnswersServe` | `EnrichSpec => AnswerServesRequest` | |
| `UnavailableMeansClosed` | `EnrichSpec => UnavailableIsTrue` | |
| `FeedInvariant` | `FeedSpec => []FeedInv` | |
| `CheckpointsPassFed` | `FeedSpec => []CheckpointPassesOnlyFed` | |
| `RunsCoverTheirSnapshot` | `FeedSpec => RunCoversSnapshot` | |
| `QueueInvariant` | `Spec => []QueueInv` | `JDQueueProofs` |
| `AttemptsAreBounded` | `Spec => []AttemptsBounded` | |
| `CompleteIsServed` | `Spec => []CompleteLeavesNothing` | |
| `SchedulerInvariant` | `Spec => []SchedulerInv` | `SchedulerProofs` |
| `OneRunAtATime` | one runner at work at most | |
| `LiveRunsStayRunning` | `Spec => []LiveRunIsRunning` | |
| `RetriesAreBounded` | `Spec => []SlotRunsBounded` | |
| `CoverageInvariant` | `Spec => []CoverageInv` | `SeekCoverageProofs` |
| `NoGapBelow` | `Spec => []NothingIncompleteBelow` | |
| `SplitsAreCovered` | `Spec => []SplitIsCovered` | |
| `BlockedIsExhausted` | `Spec => []BlockedMeansNothingToDo` | |
| `FinishedWorkIsKept` | `Spec => WorkIsKept` | |
| `LeafInvariant`, `LeafTypeCorrect` | `Spec => []LeafInv`, types | `SeekLeafProofs` |
| `NoGapBetweenRuns` | `Spec => []NothingFallsBetweenRuns` | |
| `CompleteMissesFew` | `Spec => FewAreMissed` | |
| `CampaignInvariant`, `CampaignTypeCorrect` | `Spec => []CampaignInv`, types | `LinkedInCampaignProofs` |
| `CompleteIsDone` | `Spec => []CompleteCycleIsDone` | |
| `CampaignImplementsPaging` | `Spec => Paging!Spec`, the refinement | |
| `ShortsInvariant` | `Spec => []ShortsInv` | |
| `MissingRowsArePaid` | `Spec => []MissingRowsCostAttempts` | |
| `ExhaustedIsPaid` | `Spec => []CompleteIsExhausted` | |
| `BrokerInvariant`, `BrokerTypeCorrect` | `Spec => []BrokerInv`, types | `BrowserBrokerProofs` |
| `IdsHaveOwnTabs` | `Spec => []OwnTabPerId` | |
| `ReadsAreTrue` | `Spec => []ReadsAreOfTheirPage` | |
| `DatesTypeCorrect` | types | `PostingDatesProofs` |
| `SeekRowsAreKnown` | `Spec => []SeekDatesAreFound` | |
| `FilledStaysFound` | `Spec => []FilledIsFound` | |
| `EvidenceIsKept` | `Spec => EvidenceNeverDegrades` | |

They hold for all values of the constants that satisfy the assumptions of the
modules (`StoreConstants`, `FeedConstants`, `QueueConstants`,
`SchedulerConstants`, `CoverageConstants`, `LeafAssumption`, `CampaignConstants`,
`BrokerConstants`, `DatesAssumption`), which only give types, exclude name
clashes, make the postings of a vacancy finitely many and the partitions of SEEK
a forest whose roots are the states. Three assumptions say more than that.
`PinnedAssumption` is one of the module `SeekLeaf`: a page that shows postings
out of order shows one in order. The theorems of the campaign that rest
on `CampaignInv` assume runs that ask for the slot of the scheduler
(`StartedWith \subseteq {"slot"}`), where cursors are of their cycle; those about
short answers (`ShortsInv`) hold for runs of any key. `CompleteIsOfThisCycle.cfg`
shows what the former would say without it. Nothing is assumed of the dates of LinkedIn's
detail pages; those of SEEK parse (`DetailDates["seek"] \subseteq Evidence`),
because its page is refused otherwise (`seek_jd.py:383`).

**The store.** Neither `FlatFamilies` nor the audit property is inductive alone:
a merge takes the roots of two rows by following one pointer, which is the root
only if families are flat already, and it moves pointers and links alike, so
that flatness of the one says something of the other only if they were equal. A
promotion rewrites both before the foreign keys rewrite them again. The
inductive invariant is therefore
`StoreInv == TypeOK /\ FlatFamilies /\ AuditMatchesGrouping`. `DeleteType` and
`DeleteFlat` say once what a removal with its foreign keys does, and are used
for retirement, promotion and retention; `TypeStep` and `FlatStep` go through
the actions. `IdentityRecordedOnce` is inductive with the types alone.
`StoredJDIsRegistered` is not: an insertion reuses an id, and only if the cells
of absent rows are empty (`EmptyRows`) has the new row no text; the fetch
registers the identity of the root it writes to because a root is a row. The
three action properties need nothing beyond `StoreInv`. `RemovalKeepsJD` is where
flatness pays: the aliases of a removed row show that it is a root, so that it is
retired by promotion, and a promotion repoints every alias to the heir that holds
the text. `FamiliesStayTogether` rests on the set of rows a merge moves: all
those whose root is one of the two (`LinkMovesTogether`, `PromoteMovesRoots`).

**A JD call.** `EnrichInv` adds to the store's invariants what a call knows while
it counts (nobody removed a row and the requested posting is open): up to the
candidates, the posting is in the vacancy of the root (`SameVacancy`) and the
root is a row, and a root where it will be removed or listed as one (`RootKept`);
after that, every candidate's id still holds the posting read with it and is in
the vacancy of the requested one (`CandidatesKept`); and as long as every
candidate was unavailable, the requested one is among those still to be tried
(`JobIsTried`), so that the last one cannot have been it. The steps of the other
process are covered by two facts of the store: a step that removes nothing keeps
rows together (`OtherKeeps`), and a retirement keeps the open members of a
vacancy together (`RetireKeepsTogether`). `SurvivorKept` is about the cleanup
loop: while the primary of the list is to be removed, every row of the list is
known to be terminal, so that what it is replaced by, an active row, is not on
the list and is not removed after it. This invariant is why `UnavailableIsTrue`
excuses `moved`: without it, `RootKept` is false.

**The feed.** That a run was fed what lies below its cursor is not inductive: its
next page starts where another run has written the checkpoint. `OwedInv` is about
the consumer as a whole: what is owed and lies up to the checkpoint was fed, and
so was what lies up to the cursor of any run, be it where its page starts or
where it ended (`FedUpTo`). A cursor starts as a checkpoint and grows by a page
whose rows are fed; a checkpoint is the cursor of a run. So the invariant
survives every order of the steps, and a checkpoint that moves back as well.
`SnapshotInv` keeps the snapshot of a run among what is owed below its high-water
id; when a page shows that there is no more, all of it was fed, by whichever run.
Of the store only types are needed.

**The scheduler.** `SchedulerInv` joins types, `LiveRunIsRunning` and
`RecordsOwned`: a record is of one runner at most, a runner has none before it
opens one and one until it has dealt with it, and the process that has the lock
is at work or closing. Recovery, which any reader of the records may run, closes
the open ones no runner has, so that ownership keeps it from a live run.

How many runs a slot gets (`RetryInv`) is a budget of records there are and runs
to come: the one the tick has decided and the one whose process has not opened
its record (`Ahead`). A slot that may still be taken up as new has two of them at
most, left over from the slot before, and any slot three (`RetryBudget`). A
retry adds one only if fewer than two of the two latest scheduled records are of
the slot, which means one record at most, because records are in the order of
their slots (`FewAttempts`, `RecordsInOrder`). A manual run can make an older slot
the last attempted one and the present slot due once more; it does so with the
lock in hand since the older slot, so that no run of the present one has a record
by then (`ManualHoldsOff`). That at most one scheduled process is alive is the
manager's doing (`ScheduledIsManaged`). Processes from a shell are allowed
throughout: the theorem is about more than the run, which has none.

**The JD queue.** Charging is per vacancy and eligibility per posting, so a row is
charged for others: `AttemptsBounded` is not inductive. `Budget` counts the times
a posting of the vacancy was queued, three for each, less three for every row in
the queue that was never tried (`Fresh`) and two for every one tried once
(`Once`). A place in the queue thus earns its vacancy one charge when it is tried
first, two more when it is used up, and all three when it is given up, by removal
or because the JD came. `WithinBudget` says that no row was charged more than
that. The removal of a posting and its return are part of it: the return is one
more place and starts with no charge. `CandidatesAfforded` keeps this for the
drain in progress: a candidate has a row to serve, or a budget for the attempts
it will still get.

**Coverage.** A call stack in the middle of a tree is what the proof has to
describe. `StackInv` says that it is a path: every statement is about the root or
about a refinement of a row whose `finish` waits behind it, and no row occurs
twice. `TaskInv` says what each kind of statement may rely on: a `finish` waits for a
row that is not complete, so that completing a child never overtakes its parent;
while a split is being recorded (`ensure`) the budget of the visit is spent, so
that no child is worked on before all are on record. From this follows that a
split not torn apart has all of its refinements on its list, or about to be, or
none (`TreeInv`), which is `SplitIsCovered`. `BlockedMeansNothingToDo` is about a
whole pass: as long as a pass has made no progress, every row another visit could
finish is still ahead of it, in a later state or below a row the stack will visit
(`PassInv`); at the end of the pass nothing is ahead. What is below a row
(`Below`) is the intersection of the sets closed under refinement, not a
recursive definition, which the provers could not unfold; its lemmas (a child is
below, what is below a row is the row or below one of its children) are proved
from the definition.

**The leaf.** `LeafInv == TypeOK /\ PagingInv /\ CountInv /\ NothingFallsBetweenRuns`.
While a leaf is paged (`PagingInv`), its cutoff is the one of the window or given
up; and as long as the cutoff is in force and nothing was withdrawn, what stands
on the pages behind the run is stored (`PagesStored`: arrivals only push postings
down). `CountInv` is about the count on record, of this run or of an earlier one:
the postings that were there when it was read and still are (`Counted`) are no
more than it says, which is what both a complete paging and a recovery rely on
(`CompleteMissesFew`). The list is a set with a rank, so the proof counts: a page cut
out of `listed` by rank and the postings before it (`RankOf`) are related by
lemmas about cardinalities. `PinnedAssumption` is needed where the paging stops at
a safe page: every posting behind that page is older than some card of it, since
the postings out of order do not fill the first page.

**The campaign.** `CampaignInv` says that the keys of slots grow and a cursor is
of this cycle, of an earlier one or new (`KeysGrow`); that what is fetched is the
page at the cursor of a geography that is not done (`FetchesPending`); that a
cursor is behind its stored pages and, if not done, below the cap
(`CursorsBehind`); and that what is over stays over until the next cycle
(`CompleteStays`). The refinement needs these: with two cycles of one key the
second inherits cursors, which `KeysGrow` excludes.

`CompleteIsExhausted` and `MissingRowsCostAttempts` compare the short answers
given so far with what the cursors show, and one count cannot be charged to two
pages. The proof gives every answer an owner: a token is a page of a geography
with the number of the attempt. Pages stored with rows missing hold all of theirs
and fetches in progress those of the page they are at; `AnswersPaid` says that
there are no more tokens than short answers. `ProbesPaid` and `ConclusionsPaid` say what
it costs that nothing was seen of the pages behind: the attempts at the page and
at every probed one within reach (`Hidden`, `Costs`), for a fetch in progress and
for a geography that was declared exhausted. A crash drops fetches, and with them
tokens, but never answers.

**The broker.** `BrokerInv` adds to types and the two properties: ids that are
bound are registered and none is without a connection (`PagesKnown`); a recovery
gives out registered ids and remembers in `used` the tabs it gave
(`RecoveryKnows`); a command is what a caller asked (`CommandsAsked`); a tab of
two processes is in `shared`, and any other open one shows what the caller of its
id expects (`TabsShow`); tabs not yet opened are closed and no recovery gave them
(`TabsKnown`).

**The dates.** `Typed` is the types and the fact that no writer has read a row
while there is none (`RowStays`). `SeekDatesAreFound` needs the card that is being
stored (`SeekKeepsKnown`: its row has a usable date from then on, and the states
it is about to write say so), and that no date of a SEEK row is malformed.
`FilledIsFound` needs the repair in progress, whose row may be replaced before its
outcome is recorded (`RepairKeepsDate`), and that a card holds an old state of the
field only when a repair has cleared the row (`Cleared`): a row is repaired once,
so that one which was filled was not cleared. `EvidenceNeverDegrades` uses both:
a state written back below what is there is either excused or excluded by them,
and an overtaken write leaves no less than the row it was decided on
(`ReplacesIsNoLess`), or changes nothing.

Every safety property of a passing run is the statement of one of these theorems
or a part of one. Only model-checked are the progress properties
(`CarriedIsResolved`, `SlotIsTaken`, `CoverageCompletes`, `CycleEnds`,
`CommandsEnd`, `EvidenceArrives`, `PostingsAreCollected`): they rest on fairness,
whose `ENABLED` is out of the prover's reach. So are the counterexamples.

## Not modelled

* *SEEK JD sweep* (`scripts` and `collector/seek_jd.py`): a backfill started by
  hand, one page after the other; each stored text is the step `StoreJD`.
* *Diagnostic LinkedIn collectors*, `focus_or_open_tab`, clicks and lists of the
  broker: used by a person, no state of the service depends on them.
* *The rebuild of all families* (`duplicates.py`, started by hand on a quiet
  database).
* *Backup and promotion*: file copies and remote commands on another machine.
* *Query registry, settings, geographies, profile*: one statement per request.
* *Readiness, statistics, logs*: read only. *Job Hunter bootstrap*: a one-off
  import.
* *Parsing* of pages, labels, salaries and dates: pure text processing; where a
  branch depends on its outcome, the outcome is nondeterministic.
* Within modelled components: what `note` says in `PROJECT.json`. A few
  simplifications bound what the models can show: which postings are of one
  vacancy does not change in `JDQueue`; a leaf is the whole state in `SeekLeaf`; LinkedIn's listings
  do not change from cycle to cycle; `open_tab` that is repeated after its id was
  registered leaves an id nobody holds, as in the code.

## What could follow

The composition of `SeekCoverage` with `SeekLeaf` (a leaf of a changing list
inside a resumed tree) and of `JDQueue` with `JDEnrichment` (what the first
attempt of a row leaves for the second) would join two pairs of models that now
meet in a nondeterministic outcome. Both are beyond TLC at useful bounds. Their
inductive invariants are those proved here for the parts, so that a proof is the
way to go about either.
