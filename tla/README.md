# A verification model of crawlerv2

crawlerv2 is a master-worker web crawler. A master (`crawlerv2 server`) keeps domains, jobs, the
queue of URLs and the results in one SQLite database and serves an HTTP API; workers (`crawlerv2
worker`) poll it for tasks, fetch the pages and post the results; cron entries and API calls trigger
jobs; a ticker takes stale tasks back; `crawlerv2 migrate` moves stored pages between stores.

This directory holds TLA+ modules of that system, TLC configurations that check them on small
instances, and TLAPS proofs of theorems about them.

    tlc -workers 2 -config MCQueue.cfg MCCrawl     # one run, see "Runs"
    tlapm CrawlMasterProofs.tla                    # one module of proofs

`PROJECT.json` lists the components, the runs, for every definition the source lines it translates
("map"), for every property a plausible bug that breaks it ("mutants"), the hazards, and the
disagreements met on the way ("findings").

## 1. Inventory

Paths are relative to `src/`. *Hard* names what is difficult to test; *correct* what must hold.

| component | state | operations | module |
|---|---|---|---|
| URL queue (`infrastructure/persistence/url_repo.go`) | table `url_records` | Enqueue, ClaimBatch, MarkDone, MarkFailed, ReclaimStale, CountInProgress | `UrlQueue` |
| Job trigger (`application/crawler/usecases.go:88-133`) | `crawl_jobs`, seed rows | FindByID, FindActive, Create, Enqueue | `TriggerJob` |
| Poll and submit (`usecases.go:135-342`) | `url_records`, `crawl_results`, `crawl_jobs.pages_crawled` | PollTasksUseCase, SubmitResultsUseCase | `CrawlMaster` |
| Stale-task ticker (`infrastructure/scheduler/scheduler.go`) | none of its own | ReclaimStale every minute | `CrawlMaster` |
| Worker loop (`infrastructure/worker/runner.go`) | batch, semaphore, WaitGroup, result slice | poll, sleep, fetch, submit, stop | `CrawlMaster`, `WorkerLoop`, `WorkerRunner` |
| Saved files (`infrastructure/worker/filestore.go`) | files named after URLs | create, copy, hash | `PageFiles` |
| Domains API (`infrastructure/http/handlers_domain.go`) | table `domains` | Create, Update, Delete | `DomainSchedule` (cron expression only) |
| Cron scheduler (`scheduler.go`) | map `entries`, the cron runner | Register, Unregister, start | `DomainSchedule` |
| Blob migration (`infrastructure/storage/migrate.go`, `cmd/app/main.go:270-360`) | two stores, `crawl_results.store_id` | copy, skip, delete, update rows | `BlobMigration` |
| Server process (`cmd/app/main.go`) | - | start, bootstrap, shutdown | `CrawlMaster`, `DomainSchedule`, `TokenAuth` |
| Tokens and authentication (`http/middleware.go`, `handlers_token.go`, `token_repo.go`) | table `tokens` | create, revoke, check, bootstrap | `TokenAuth` |
| crawlerctl (`cmd/ctl`) | `~/.crawlerv2.json` | one request; load, change, save | `Crawlerctl` |
| URL scope (`domain/crawler/valueobjects.go`) | none | RootDomain, URLInScope, NormalizeURL | `UrlScope`; NormalizeURL in the constant `Links` |
| robots.txt cache (`worker/robots.go`) | map under a mutex | IsAllowed, fetch | `WorkerRunner` (rules abstracted) |
| Page parser (`worker/parser.go`) | none | HTML to links and text | constant `Links` |
| Blob stores and registry (`infrastructure/storage`) | files, objects | Get, Put, Exists, Delete | as `BlobMigration` uses them |
| DTOs (`http/dto.go`, `helpers.go`) | none | conversion | not modelled |

**How they interact.** Workers talk to the master by HTTP and wait at most 30 s for an answer; the
handler of a request that was given up may be cut off or may run on. Everything on the server shares
one database handle with one open connection (`persistence/db.go`), so one SQL statement, or one
transaction, is atomic and nothing larger is: handlers, cron goroutines and the ticker interleave
between statements. The domains API tells the scheduler of a saved domain by the callback
`OnDomainSaved`; the scheduler calls `TriggerJobUseCase` from its own goroutines, exactly like the
API. `migrate` is a process of its own, on the stores and on `crawl_results`. Every request passes
the token middleware first, which reads the table in a statement of its own; `crawlerv2 token`
writes that table from another process. crawlerctl and the workers are clients; crawlerctl processes
share one configuration file, fetches share the directory of saved files.

**Hard.** Checks and actions in different statements (active job, global cap, page budget);
statements whose error is dropped in the middle of a submit; a task reclaimed while its worker is
only slow; answers lost after the state has changed; a shutdown that does not wait for handlers;
requests on one domain that save in one order and register in another; a copy cut off half-way and
run again; goroutines that share a slice and a cache and must all end; fetches of one URL that write
one file; a token revoked between check and handler, and plaintexts that exist in one answer only; a
configuration file truncated before it is written; a crawl delay that goroutines sleep all at once.

**Correct.** Queue: a task is in one pair of hands, a URL is discovered once, its status and its
stored result agree, nothing found is forgotten, everything settles in the end. Trigger: a job has
its seed; jobs of one domain do not share its rows. Poll: the cap. Submit: links in scope, counters
that agree with results, the page budget. Scheduler: the entries that fire are those the table asks
for. Migration: no blob is lost, no row points at a blob that is not there, a repeat finishes.
Worker: one result per task, a batch and a stop come to an end, rules are fresh, requests are paced.
Files: what a row says of its file. Tokens: revoked means refused, bootstrap is bounded, no
plaintext is lost without a cause. crawlerctl: its configuration survives.

## 2. The modules

    UrlQueue  <-  TriggerJob  <-  CrawlMaster  <-  MCCrawl   (instances, runs)  -> UrlScope
                                    ^       |  INSTANCE, refinement
                    CrawlMasterProofs    Frontier
                                    ^
                     CrawlTaskProofs
                                    ^
                     CrawlBudgetProofs  (with UrlScope)
    DomainSchedule  <-  MCSchedule, DomainScheduleProofs
    BlobMigration   <-  MCMigration, BlobMigrationProofs
    WorkerRunner    <-  WorkerPace  <-  MCRunner, WorkerRunnerProofs
          |  INSTANCE, refinement
      WorkerLoop        (the worker of CrawlMaster on its own)
    PageFiles       <-  MCFiles, PageFilesProofs
    TokenAuth       <-  Crawlerctl  <-  MCAdmin, CrawlerctlProofs
    UrlScope        <-  MCCrawl, CrawlBudgetProofs

**UrlQueue** holds the statements on `url_records` as operators on a table value. A row is named by
its unique index (domain, URL); rows are never deleted, so this key and the auto-increment id are in
bijection. `born` stands for `created_at`, by which ClaimBatch orders; rows of one insert share it,
so `Batches` allows any order among them. A URL is an atom: what NormalizeURL decides is in the
constant `Links`, what the host and path tests of URLInScope decide in `Scope` and `RootOf`.

**UrlScope** says what those two stand for: RootDomain and URLInScope on hosts that are sequences of
labels, with a scheme, a port and the verdict of the path filter. MCCrawl gives each URL of an
instance a host and computes `Scope` and `RootOf` with these operators.

**TriggerJob** is `TriggerJobUseCase.Execute`, one action per statement (`FindDomain`,
`CheckActive`, `CreateJob`, `SeedQueue`) for any number of `Caller`s, API requests and cron
goroutines alike. `AbortTrigger` is a failed statement or a request cut off. `DeleteDomain` removes
the domain's row and nothing else, as the code does.

**CrawlMaster** adds workers, poll handlers and submit handlers. A handler is a process of its own,
because it may outlive its client: `client = None` is a handler nobody waits for.

| action | code |
|---|---|
| `Poll`, `ScanJob`, `ClaimTasks`, `PollEmpty` | FindRunning; FindByID and CountInProgress per job; the claim transaction; 204 |
| `PollStatementFails`, `PollCancelled` | an error skips the job; the client's context ended |
| `Fetch` | one URL of a batch crawled, with any `Outcome` |
| `Submit`, `SubmitRejected` | the job and domain read; 404, results dropped |
| `MarkItem`, `SaveResult`, `EnqueueLinks`, `CountPages` | MarkDone/MarkFailed and Save per result, one Enqueue for the batch, IncrPagesCrawled; each with `ok = FALSE` when the statement fails, since its error is ignored |
| `SubmitCancelled` | the rest of the handler's statements fail |
| `ReclaimStale` | the ticker, for any set of rows |
| `WorkerLost` | crash, timeout, lost request or answer: results are never sent twice |
| `ServerRestart` | handlers and triggers vanish, tables survive |

Two statements are one step only where nothing in between can be told apart: for instance, ScanJob
reads the domain and counts in one step, because the domain's row can only disappear in between, and
a poll that saw it may go on anyway.

**Frontier** is the abstract specification: URLs become known along links, one hop at a time and in
scope, and are settled at most once. `CrawlMaster` maps `rec` to it (none = unknown, pending and
in_progress = open, done and failed = settled) and `FrontierSpec` is checked (MCFaults) and proved
(`ImplementsFrontier`). That settled URLs stay settled is what the code does; the eidos spec wants
failed ones retried and done ones crawled again (see Disagreements).

**DomainSchedule** is Create, Update and Delete of the domains API up to the cron expression, and
the scheduler. A handler saves first and registers then, in two steps. `Register` removes the old
entry before it knows that the new expression parses, as the code does: an invalid one leaves a dead
id in the map. A restart numbers the entries anew.

**BlobMigration** is `crawlerv2 migrate` with its flags `--skip-existing` and `--delete-after`. The
content of a blob is none, part or full. Any Get, Put, Exists, Delete or UPDATE may fail and the
process may be killed at any point; `cut` remembers the blobs whose Put was cut off and not repeated
since, `run.bad` whether a call of this run failed.

**WorkerRunner** is the inside of a worker: the loop of `Runner.Run` and one goroutine per task,
with the channel `sem`, the WaitGroup `wg`, the mutex around the result slice (read and written in
two steps, `Lock` and `AppendResult`) and the cache of robots.txt. Deferred calls are steps of their
own, in the order in which Go runs them: the slot is given back before `wg.Done`. What a robots.txt
says is a free choice; when it was read (`read`) and what the entry claims (`at`) are kept. A
goroutine sleeps `Delay` ticks after it took its slot; the clock's last tick `MaxTime` stands for
all later times, so whoever sleeps then may wake up. `Stop` is the signal that cancels the context.
**WorkerLoop** states what this is for: a worker gets tasks, finds one result each, and submits them
together. CrawlMaster has that loop in its actions `Poll`, `Fetch` and `Submit`. **WorkerPace** is
WorkerRunner with the ticks at which pages were asked for as a history.

**PageFiles** is what fetches do to files: the path is made of URL and extension, so two fetches of
one URL share it. `Open` is os.Create, which truncates whoever else has the file open; a page, held
in memory, is one write, everything else is copied chunk by chunk and cut at `Limit`. `SaveFails`
leaves the chunks that were written; a page is a good result even so.

**TokenAuth** has the table of tokens, the servers on one database, and requests. A plaintext is
named by the row that has its hash; `known` is what somebody got to see. `BootList` and `BootCreate`
are two statements, and a failed list reads as an empty table, as the code has it. `Check` (the
middleware) and `Serve` (any handler) are two steps; `LocalCreate` and `LocalRevoke` are `crawlerv2
token`. Revoked rows stay in the table, and a revocation of a row that does not exist is answered
like any other.

**Crawlerctl** makes the clients of TokenAuth invocations of crawlerctl: `Ask`, `GetAnswer`, and for
the commands that save, `LoadConfig`, `Truncate` and `Write`, which other invocations come between.
It adds no behaviour to TokenAuth (theorem `CtlIsClient`). `meant` is what the commands set; it is
given up (`spoiled`) once two saves overlapped or one was killed.

History variables (`reclaimed`, `raced`, `cut`, `run.bad`, `read`, `stale`, `booted`, `opened`,
`alone`, `meant`, `spoiled`, `sent`) influence no action; they name the cases in which a weaker
property is all the code gives. (The bound MaxReclaimed is stated with `reclaimed`.)

**External**, modelled from how the code uses it: GORM's `Save` (update, or insert if the row is
gone), SQLite's AUTOINCREMENT, the entry ids of robfig/cron, and object stores (a Put is visible as
a whole or not at all; a local store's file is visible from its creation). Go's channels, WaitGroup
and mutexes are used as the language defines them.

## 3. Runs

Every counter has a bound that is a constant; all have the same kinds: jobs, faults (a failed
statement, a cut-off handler, a server restart), losses (a worker, request or answer), rows
reclaimed, entries, restarts, runs. Behaviours end when the bounds are used up and the queue is
empty, or a second poll has nothing to do, so all runs have CHECK_DEADLOCK FALSE: this system may
stop.

| run | question | bounds |
|---|---|---|
| MCQueue | Each task in one pair of hands, each URL stored once, no link and no page count lost, status and stored result in agreement, also after a reclaim; without server faults. | 2 workers, 2 handlers of each kind, batches of 2, 4 URLs (one out of scope, one linked twice, links back), 1 loss, 1 reclaim, deletion of the domain |
| MCFaults | A task stays in one pair of hands with a fault at any point, found URLs are legitimate, and `Frontier` is implemented. | 2 workers, 2 handlers of each kind, batches of 1, a chain of 5 URLs that passes `max_depth` 2, every fetch yields a page, 1 fault, 1 loss, 1 reclaim |
| MCJobs | What overlapping triggers and polls still respect. | 2 domains of one root, 2 callers, 3 jobs, 2 polls, cap 1, one worker bound to a domain |
| MCBudget | How far `max_pages_per_run` can be exceeded. | budget 2, five URLs that several pages link to, 2 submit handlers: the bound is reached |
| MCLive | Every queued URL is settled. | 2 workers, 2 URLs, cap 1, 1 fault, 1 loss, 2 reclaims |
| MCSchedule | Table and cron entries agree, deletions last. | 2 domains, 2 requests at a time, 2 valid and 1 invalid expression and the empty one, 4 entries, 1 restart |
| MCRunner | The goroutines implement the loop, slots are respected and returned, rules are fresh, requests are paced, batches and stops end. | 3 tasks of one host, one of them not polite, 2 slots, 2 batches, delay 2, cache entries that last for the tick they are made in, clock up to 3, a stop at any time |
| MCMigration | No blob lost, moved rows readable, a clean repeat finishes. | 2 blobs, 3 rows of which two share a blob, 4 runs with any flags, 3 faults |
| MCFiles | When the file on disk is what the row says. | 3 fetches, a page and another file, bodies shorter than, as long as and longer than the limit of 2 chunks, 1 fault |
| MCAdmin | Revoked tokens, bootstrap, plaintexts, the configuration file. | 2 invocations at a time, 2 servers on one database, 3 tokens, 3 starts, 1 config command, 1 address, 1 fault |

*Why this is enough.* Every race here is between two parties over one row: two handlers and two
workers meet on it, a third would repeat a pair. One reclaim gives a task two owners, one loss makes
an answer arrive after its client left, one fault puts a cut between any two statements; the
properties are about what one of each, combined with the others, leaves behind. A domain that is
triggered twice at once and then once more needs three jobs. A migration needs one run to be cut,
one to skip what was cut, one to delete, one to finish. Two bootstraps that overlap fill two of
three rows, and the third is created by a client whose `--save` overlaps the `config` command of the
other; three starts let one server come back. Three fetches of one path are two that overlap and one
before or after them. Three tasks on two slots make the loop wait for a slot and two goroutines meet
at the cache and the mutex; the clock passes the lifetime once, and a second batch meets the cache
of the first; a window of two ticks lies across them. Two submits that overlap read one counter
before either has raised it. The theorems below lift what they can to all values. Symmetry is used
for workers, handlers, callers and valid expressions where the instance tells none of them apart,
and not with liveness.

What the properties say:

- `ExclusiveHandout`, `OneResult` - except for tasks the ticker took back while somebody had them, a
  task is held once and has one result row. The table has no unique index that would enforce it.
- `NoLinkLost`, `PagesMatchResults` - without server faults, between the many statements of a
  submit, nothing falls between "marked done" and "enqueued" or "counted". A lost client does not
  count as a fault as long as its handler runs on.
- `VerdictMatchesResults` - a URL that is done has its result or is being saved, and one that has
  a result is done, or failed if it was reclaimed: a late or repeated result, a reclaim or a
  re-discovery never leaves a stored page with a row that is handed out again. Without server
  faults, because an error of the Save is dropped.
- `FirstDiscoveryWins`, `ReachedByLinks`, `FrontierSpec` - depth, job and age of a row are those of
  its first discovery, and that discovery was legitimate.
- `JobsSeeded`, `ActiveJobsBounded`, `OneJobOwnsRows` - a job that exists is seeded unless a fault
  hit; overlapping triggers may create several jobs of a domain, at most one per caller, and all
  rows still belong to one of them.
- `CapOverrunBounded`, `BudgetBoundsQueue` - the cap and the budget are exceeded by overlapping
  requests, by a known amount. The budget counts pages, not queued links, so even one submit handler
  may list N, then N - 1, ... links as the counted pages grow; the bound adds these up per handler.
- `QueueDrains` - liveness, see below.
- `NoLostEntry`, `ScheduleFollowsTable`, `DeletedForGood` - for domains on which no two requests
  overlapped since the start (for NoLostEntry: always).
- `SavedFileWhole`, `SameBodyAgrees` - size and hash in a row describe the file as long as no other
  fetch of the URL has it open or creates it since; if all of them got the same body, in the end
  whatever their order. Otherwise a row may describe a file that is mixed or another one.
- `RevokedRefused` - a request that arrives after the revocation reaches no handler. One checked
  before is still served.
- `BootstrapBounded`, `PlaintextsKept` - at most one bootstrap token per process and per fault; a
  row whose plaintext nobody has is owed to a fault or still under way.
- `ConfigKept` - unless saves overlapped or one was killed, the file has both fields as last set.
- `BlobSafe`, `MovedRowsReadable`, `SkippingRunCompletes` - the second is about blobs that are not
  `cut` or being written. For those there is no such promise: a partial file counts as existing and
  as skipped (`migrate.go:41-51`), so its row is moved.
- `SlotsBound`, `LoopSpec`, `RulesFresh`, `NeverStuck`, `BatchEnds`, `StopEnds` - `RulesFresh` holds
  although the last of several overlapping requests overwrites newer entries with older ones,
  because `fetchedAt` is taken before the request is sent.
- `PacedBySlots` (of WorkerPace) - within one crawl delay a worker sends at most one request per
  slot, across batches. More is not given: the goroutines sleep at the same time.

**Fairness** (`FairSpec`, run MCLive). Goroutines keep running: weak fairness of each step of a
trigger, of each handler and of each worker; failing, losing and restarting are not fair.
`wait_time` and the back-off only delay a poll. A row that stays in progress is older than the
threshold at some tick of the minute ticker: weak fairness of its reclaim, for each row. `Poll` and
`Submit` need a free handler; handlers end, so it comes. Faults and losses are bounded, and
MaxReclaimed is the number of rows, so that the bound never keeps a row from coming back; without
that every URL could be lost over and over and nothing would be promised. Deletions are excluded:
the rows of a deleted domain stay as they are for ever, and no document says otherwise. In MCRunner
(`Fairness` of WorkerRunner) the loop and each goroutine keep running, and every request ends
because the HTTP client has a timeout of 30 s; the clock is fair, so that a sleep ends; polls and
the signal are not. VRuns uses `FairSpec` of CrawlMaster, with nothing that fails.

### Disagreements

Two runs end in a violation: a document says one thing, the code does another. VRuns has two
findings, since one promise or the other would satisfy it.

| run | the document | the code |
|---|---|---|
| VOneJob, `OneActiveJobPerDomain` | `README.md:300`: "Only one active job per domain runs at a time." | FindActive and Create are two statements (`usecases.go:100, 115`) and no index forbids the second |
| VRuns, `RunsEnd` | eidos spec, lines 27 and 31: a job is one crawl run, with a status that becomes completed or failed and an end time | UpdateStatus and SetEnded (`job_repo.go:26, 36`) are called nowhere: every URL is settled, the job runs on, and every later trigger of the domain is refused |
| VRuns, `RunsEnd` | eidos spec, line 136: "failed → pending (retry up to max_retries)"; line 138: "done (re-crawl TTL elapsed) → pending"; line 39: done URLs are "re-queued after configurable TTL for re-crawl in subsequent job runs" | `retry_count` and `last_crawled` are written (`url_repo.go:91, 81`) and copied, and no code acts on them; a claim takes pending rows, the ticker rows in progress, and the insert of a known URL does nothing (`url_repo.go:49, 99, 36`) |

The second finding limits what the properties about settled rows mean. That no step takes a row that
is done or failed back to pending is proved (lemma `VerdictStays`), and `FrontierSpec`, `OneResult`
and `VerdictMatchesResults` build on it: they describe the code as it is. A code with the retries
and the re-crawl of the document would need other ones, with a result for each crawl and a way from
settled back to open. As it stands, a URL whose fetch failed once, for whatever reason, stays
failed, and a second job of a domain, if the first one ended, would find its seed row settled and do
nothing.

Others need no run of their own. Some are the reason why a property above is as weak as it is:

- the cap `max_concurrency_global` is a "hard cap" in the eidos spec (line 70), but polls that
  overlap see the same room (`CapOverrunBounded` has the amount);
- "done" only goes back to pending in the eidos state machine (line 135), but after a reclaim a late
  error makes it failed (`url_repo.go:87`; `VerdictMatchesResults` excepts it);
- links of a page that is done may be lost when their insert fails or a shutdown cuts the handler
  off (`usecases.go:334`; eidos spec, line 208; `NoLinkLost` is about runs without faults);
- "Minimum ms between requests per worker" (`README.md:294`) is what `PacedBySlots` leaves of it;
- "MD5 hex of file content" (`entities.go:51`) holds as far as `SavedFileWhole` says;
- "Revoked token → 401 immediately" (eidos spec, line 216): a request checked before is still
  served, so `RevokedRefused` is about requests that arrive later;
- a trigger reads the domain, then creates the job: a domain deleted in between gets a job.

And some have nothing in the code to model:

- `max_concurrency_per_worker` (`README.md:295`) is sent with every task (`handlers_worker.go:73`)
  and read nowhere.
- `crawlerctl domains get` and `domains update` begin with `GET /api/domains/{id}`
  (`cmd/ctl/main.go:236`), a route the server does not have (`router.go:29-33`): 405, and nothing is
  written.
- The worker never sends a `store_id` (`runner.go:30-66`), so `migrate` finds no rows of the worker
  in this repository; `BlobMigration` is about those of clients that send one.
- The value of `--bootstrap-token` is only tested for being there: the token made is random and
  printed (`cmd/app/main.go:82-93`). Revoked rows count as existing, so a table of revoked tokens is
  never bootstrapped again.
- `GET /worker/tasks/next` is documented with `job_id` (`README.md:253`); the handler reads
  `domain_id`.
- RootDomain's "registrable root domain" (`valueobjects.go:50`) is the last two labels, so all of
  `co.uk` is one root. A crawl domain given with a port has no link in scope but those of its
  subdomains.

## 4. Proofs

Each module of proofs follows one pattern: a strengthened invariant, the fact that Init implies it,
one lemma per action (or group of actions) that the step keeps it, and a temporal step. Nothing is
assumed but the ASSUMEs of the modules (`UrlQueueAssumption`, `TriggerAssumption`,
`CrawlAssumption`, `ScheduleAssumption`, `MigrationAssumption`, `RunnerAssumption`,
`FilesAssumption`, `AuthAssumption`, `CtlAssumption`): finite sets where something is counted,
ranges of the constants, and reserved values that are no members. TLC evaluates all of them in the
passing runs.

**CrawlMasterProofs**, for any domains, URLs, page graphs, workers, handlers, callers and bounds:

- `TypeCorrect` (`TypeOK`). Not inductive alone: a handler's statement indexes `jobs` with the job
  it remembers, so `Refs` (the jobs that triggers, polls, submits and workers remember exist) is
  added; `TypeInv == TypeOK /\ Refs`.
- `FirstDiscovery` (`FirstDiscoveryWins`). From `RecSteps`: every step leaves `rec` alone or applies
  one of five statements, and each of them only grows the table.
- `Reached` (`ReachedByLinks`) and `OneJobOwns` (`OneJobOwnsRows`). Links sit in a handler between
  the step that finds them and the one that inserts them, and the depth they carry is that of a task
  a worker brought back. `Hands` says that what workers and submit handlers hold are rows of the job
  they name; `Listings` that every link a handler has listed comes from a queued page of its job's
  domain at that depth, and that this job owns the seed row; `Rows` that a row's job is one of its
  domain and owns the seed row. Since only one job can own the seed row, a second job of a domain
  never gets rows. `Origin == Rows /\ Listings /\ ReachedByLinks` is inductive with `TypeInv` and
  `Hands`.

**CrawlTaskProofs** builds on these for what happens to one task from poll to submit:

- `Exclusive` (`ExclusiveHandout`) and `ResultOnce` (`OneResult`). `Custody(k)`, for a task that was
  never reclaimed: it is at one place at most (to be fetched, brought back, posted, being saved),
  its row is in progress until its result is handed in, and crawl_results has no row of it until it
  is saved. A settled row can then only be met by results of a reclaimed task.
- `VerdictMatches` (`VerdictMatchesResults`). A handler that is about to save has just marked the
  row, so `Verdicts` also says what the status of a row is whose result is in hand. The status
  then stays (`VerdictStays`): settled rows remain settled, and only results of a reclaimed task
  change done to failed or back.
- `LinksKept` (`NoLinkLost`). `Listing` says that a handler with links in hand knows that its list
  is not empty, so it does not pass over the insert; `ResultsQueued` that a result belongs to a
  queued row. With them, a link of a stored page is in the table, or in the hands of a handler that
  is going to insert it.
- `Seeded` (`JobsSeeded`): a trigger that created a job and has not yet seeded it is still there,
  unless there was a fault. `ActiveBounded` (`ActiveJobsBounded`): the active jobs of a domain and
  the callers about to create one are together no more than the callers (`JobsAndCreators`), since
  whoever creates looked when there was none.
- `CapOverrun` (`CapOverrunBounded`), for domains of one root and one cap C. A sum over handlers is
  avoided: either the tasks in progress are at most C for each handler that is not claiming, or some
  claiming handler read a count so low that its room makes up for the difference (`CapInv`).
- `ImplementsFrontier` (`FrontierSpec`): each change of `rec` is a discovery, a settlement or a
  stutter of Frontier; that discoveries are legitimate is `Origin` of CrawlMasterProofs.

**CrawlBudgetProofs** has what a crawl counts. `Total(f)`, the sum of the values of f, is the size
of the disjoint union of the intervals 1..f[x]; `TotalUpdate` says what changing one value does to
it, and `CountingStep` what a step does to two sums at once.

- `PagesAgree` (`PagesMatchResults`): what is stored of a job is what its counter says plus what its
  handlers have stored and not yet counted. Saving raises both sides by one, `CountPages` moves a
  handler's part into the counter, and no other step changes either sum.
- `BudgetBounds` (`BudgetBoundsQueue`). The number of rows alone proves nothing: a handler with a
  fresh look at the counter may list all that is left of the budget again. `Budgets` says of each
  submit that what it has listed fits the counter it read (`base`), which only grows. `Spent(j)`
  adds to the rows found so far what each handler may still list in the submit it serves (`Share`),
  and for all the counters still to be read what they leave (`Later`, a triangular number per
  handler). This sum never grows: inserting links lowers a share by as much as it adds rows; whoever
  raises the counter to p gives every handler a new share of at most n - 1 - p, which `Later` has
  lost by then. It starts at the bound.
- `PagesBounded`: from these two and `OneResult`, a job counts no more pages than it has URLs, and
  so no more than the budget lets into its queue. It needs that no task of the job was taken back:
  then a page may be stored and counted twice.
- `ScopeSharesRoot`, `SubdomainsAre`, about UrlScope, for any labels and a crawl domain of at least
  two of them: every URL in scope has the domain's root, by which the global cap counts; with
  `include_subdomains` the hosts in scope are the domain's own and those below its root, without the
  bare root itself.

**DomainScheduleProofs**: `ScheduleTyped`, `EntriesNotLost`, `CronFollowsRows`, `DeletionFinal`. The
invariant says that live ids are distinct, below the runner's counter, and known to the map
(`EntriesDistinct`); that a domain not in `raced` has one request at most (`OneRequest`); and that
the table is followed where no request is about to register (`RowsFollowed`). `BootIds` shows that a
restart numbers distinct domains distinctly, which needs the cardinality of initial segments.

**BlobMigrationProofs**: `MigrationTyped`, `NoBlobLost`, `MovedReadable`, `RepeatCompletes`
(`SkippingRunCompletes`). The source is complete or
empty, and empty only once the destination is complete (`SourceInv`); a run is about to update rows
only if each of its rows was copied or skipped (`MovedInv`, with `Handled` for the rows a run is
through with); a run that skips and meets no error copies only what is still at the source, so no
row counts as failed and all are updated (`CleanInv`).

**WorkerRunnerProofs**, for any tasks, hosts, slots, lifetime and delay: `RunnerTyped`, `SlotsKept`,
`LoopImplemented`, `RulesKept`, `NobodyStuck` (`NeverStuck`), `BatchDescends`, `PaceKept`
(`PacedBySlots`). `Counted` says that `sem` and `wg` are the numbers of goroutines that hold a slot
and that run, and that these belong to the batch in hand; so when `Wait` passes, none is left.
`Appended` says that whoever is about to write the slice holds the mutex and has read it as it is,
and that a task has a result exactly when its goroutine is past the append. From both, every step is
a step of WorkerLoop or a stutter. `Dated` relates the age of an entry to when its rules were read,
in the cache and in a goroutine's hands. `Paced` is about each window of one delay: every request in
it is one of a goroutine that took its slot before the window, since it slept the delay with the
slot in hand; so the requests made and the goroutines that took their slot before and still may ask
are together no more than the slots. `NobodyStuck` adds that a mutex that is taken is in the hands
of a goroutine about to give it back (`MutexHeld`), and `BatchDescends` is about a measure, nine
steps for each task. Together they are what `BatchEnds` rests on, for any number of tasks and slots:
some step is possible until the batch is over, and there are finitely many.

**PageFilesProofs**: `FilesTyped`, `SavedWhole` (`SavedFileWhole`), `SamePageAgrees`
(`SameBodyAgrees`). `AloneInv` says how much of the file a fetch that has it alone has written;
`SameInv` that where all fetches have one body, each place of the file either has its chunk or one
of them has yet to write it. Each truncation and each write, in whatever order, keeps the latter.

**CrawlerctlProofs**: `AdminTyped`, `RevokedStaysOut` (`RevokedRefused`), `BootstrapLimited`
(`BootstrapBounded`), `NoPlaintextLost` (`PlaintextsKept`), `ConfigNotLost` (`ConfigKept`), and
`CtlIsClient` (Crawlerctl implements TokenAuth). `RequestInv` says that a stale request is not past
the check, and that the plaintext of an answer is new to everybody and in that answer only;
`BootInv` counts the tokens made together with the servers about to make one; `SaveInv` that the one
invocation that saves holds what is meant.

**Only model-checked**: the liveness properties `QueueDrains`, `BatchEnds` and `StopEnds`. They are
out of the prover's reach: it has no rules for liveness under fairness or ENABLED. All other
properties of the passing runs are theorems. No module has a recursive
definition, by induction over which something would have to be proved: sums are sizes of sets
(`Total`).

## 5. What is left out, and why

- The scope and politeness of a domain are constants: an update of them while a job runs changes
  what later statements see, and no property here is about it.
- Strings: normalization, paths, robots rules and HTML are the constants `Links` and `Outcome`, the
  field `matched` and free choices. NormalizeURL and parseRobots have no state; what they do with
  odd inputs is a matter of the text alone (parseRobots loses the group after two User-agent lines
  in a row and knows no Allow or wildcards, `robots.go:67-104`).
- The page parser and the DTOs convert values one by one and have neither state nor failures of
  their own.
- `--dry-run` writes nothing. `--from` and `--to` naming one store: the first Put truncates the file
  that is being read, without any interleaving, so there is nothing for a model to find.
- WriteURL, BlobPath and CopyBlob are called nowhere; nor are FindByHash, CountDone, UpdateStatus
  and SetEnded. Of the last two, VRuns and `ActiveJobsBounded` show what it means.
- Three outcomes of a failure: a Put that finishes and then returns an error, an HTML page of which
  a part is written, and a configuration file to which three or more clients write at once. No
  property is about them.
- The domain and job commands of crawlerctl are one request and a print; their effect is that of the
  handlers in `DomainSchedule` and `TriggerJob`. `config show` fails on a token shorter than four
  bytes (`cmd/ctl/main.go:115`), and no state depends on it.
- The firing of a deleted domain's entry, and the rows of a deleted domain: no document says what
  should become of them.

## 6. Plan

Done, in this order:

1. `UrlQueue`, `TriggerJob`, `CrawlMaster`, `Frontier`, with proofs of types, first discovery,
   reachability and ownership; then custody of tasks, links, jobs and the refinement of `Frontier`.
2. `DomainSchedule` and `BlobMigration` with proofs.
3. `WorkerRunner` with the crawl delay, its refinement of `WorkerLoop`, with proofs.
4. `TokenAuth` and `Crawlerctl` with proofs; `PageFiles` with proofs; `UrlScope`, which gives the
   instances of the crawl their scope, with proofs.
5. `WorkerPace`; proofs of the pace, the page counters and the page budget.

Open:

1. `RobotsRules`: parseRobots and the prefix test, against a reference definition.
2. NormalizeURL over small structured URLs: idempotence, and which URLs become one row.
3. An update of scope and politeness while a job runs.
