---------------------------- MODULE CrawlMaster -----------------------------
(***************************************************************************)
(* The crawl: workers that poll the master, fetch and submit               *)
(* (infrastructure/worker/runner.go), the poll and submit handlers that    *)
(* serve them (PollTasksUseCase and SubmitResultsUseCase), the stale-task  *)
(* ticker, and the job triggers of TriggerJob, over one database.          *)
(*                                                                         *)
(* A handler is a goroutine of the HTTP server.  It may outlive its client *)
(* (the worker's 30 s timeout, a crash), so it is a process of its own and *)
(* "client" is the worker still waiting for its answer.  Statements are    *)
(* the atomic steps; two statements are one step only where nothing that   *)
(* runs between them reads or writes what the second one uses.             *)
(***************************************************************************)
EXTENDS TriggerJob

CONSTANTS
  Worker,       \* worker processes
  Handler,      \* bound: requests of one kind served at a time
  Outcome,      \* what fetching a URL may yield: "err", "empty" (a result
                \* without links) and "page" (HTML with the page's links)
  Batch,        \* batch size the workers ask for
  OnlyDomain,   \* OnlyDomain[w]: --domain-id of worker w, None = any domain
  GlobalCap,    \* GlobalCap[d]: politeness.max_concurrency_global, 0 = none
  MaxPages,     \* MaxPages[d]: scope.max_pages_per_run, 0 = unlimited
  MaxLosses,    \* bound: requests, answers or workers lost
  MaxReclaimed  \* bound: rows the ticker ever takes back

ASSUME CrawlAssumption ==
  /\ IsFiniteSet(Worker) /\ IsFiniteSet(Handler)
  /\ None \notin Worker
  /\ Outcome \subseteq {"err", "empty", "page"}
  /\ Batch \in Nat \ {0}
  /\ OnlyDomain \in [Worker -> Domain \cup {None}]
  /\ GlobalCap \in [Domain -> Nat] /\ MaxPages \in [Domain -> Nat]
  /\ MaxLosses \in Nat /\ MaxReclaimed \in Nat

VARIABLES
  results,    \* table crawl_results: how many rows of each kind a URL has
  reclaimed,  \* history: the rows the ticker ever took back
  poll,       \* poll[h]: progress of poll handler h
  sub,        \* sub[h]: progress of submit handler h
  wk,         \* wk[w]: the worker's loop
  losses      \* requests, answers and workers lost so far

crawlVars == <<results, reclaimed, poll, sub, wk, losses>>
vars == <<domains, jobs, rec, tr, faults,
          results, reclaimed, poll, sub, wk, losses>>

JobId == 1..MaxJobs
Item == [key : Key, out : Outcome]
NoOut == [u \in Url |-> 0]

IdleWorker == [pc |-> "idle", job |-> 0, todo |-> {}, got |-> {}]
IdlePoll == [pc |-> "idle", client |-> None, jobs |-> {}, job |-> 0, cap |-> 0]
IdleSubmit == [pc |-> "idle", client |-> None, job |-> 0, items |-> {},
               cur |-> {}, out |-> NoOut, len |-> 0, done |-> 0, base |-> 0]

ResultCount == [empty : Nat, page : Nat]

WorkerState == [pc : {"idle", "polling", "crawling", "submitting"},
                job : 0..MaxJobs, todo : SUBSET Key, got : SUBSET Item]

PollState == [pc : {"idle", "scan", "claim"}, client : Worker \cup {None},
              jobs : SUBSET JobId, job : 0..MaxJobs, cap : Nat]

SubmitState == [pc : {"idle", "item", "save", "enqueue", "count"},
                client : Worker \cup {None}, job : 0..MaxJobs,
                items : SUBSET Item,  \* results not yet looked at
                cur : SUBSET Item,    \* the result being saved
                out : [Url -> Nat],   \* toEnqueue: depth, 0 = absent
                len : Nat,            \* len(toEnqueue)
                done : Nat,           \* doneCount
                base : Nat]           \* job.PagesCrawled as read

TypeOK ==
  /\ TrTypeOK
  /\ results \in [Key -> ResultCount]
  /\ reclaimed \subseteq Key
  /\ poll \in [Handler -> PollState]
  /\ sub \in [Handler -> SubmitState]
  /\ wk \in [Worker -> WorkerState]
  /\ losses \in 0..MaxLosses

Init ==
  /\ TrInit
  /\ results = [k \in Key |-> [empty |-> 0, page |-> 0]]
  /\ reclaimed = {}
  /\ poll = [h \in Handler |-> IdlePoll]
  /\ sub = [h \in Handler |-> IdleSubmit]
  /\ wk = [w \in Worker |-> IdleWorker]
  /\ losses = 0

-----------------------------------------------------------------------------
(* PollTasksUseCase.Execute: GET /worker/tasks/next.                        *)

(* FindRunning: the ids of the running jobs, of domain d if a filter is set *)
RunningJobs(d) ==
  {j \in DOMAIN jobs : jobs[j].status = "running" /\ (d = None \/ jobs[j].dom = d)}

Poll(w, h) ==
  /\ wk[w].pc = "idle" /\ poll[h].pc = "idle"
  /\ poll' = [poll EXCEPT ![h] = [IdlePoll EXCEPT !.pc = "scan", !.client = w,
                                  !.jobs = RunningJobs(OnlyDomain[w])]]
  /\ wk' = [wk EXCEPT ![w].pc = "polling"]
  /\ UNCHANGED <<trVars, results, reclaimed, sub, losses>>

MutRoom_NoClip(d) ==
  LET used == Cardinality(InProgressUnder(rec, RootOf[Seed[d]]))
  IN  IF GlobalCap[d] = 0 \/ used < GlobalCap[d] THEN Batch ELSE 0

MutRoom_OffByOne(d) ==
  LET used == Cardinality(InProgressUnder(rec, RootOf[Seed[d]]))
  IN  IF GlobalCap[d] = 0 THEN Batch
      ELSE IF GlobalCap[d] <= used + 1 THEN 0
      ELSE IF GlobalCap[d] - used < Batch THEN GlobalCap[d] - used ELSE Batch

(* How many tasks of domain d a poll may hand out: cap, then available.     *)
Room(d) ==
  LET used == Cardinality(InProgressUnder(rec, RootOf[Seed[d]]))
  IN  IF GlobalCap[d] = 0 THEN Batch
      ELSE IF GlobalCap[d] <= used THEN 0
      ELSE IF GlobalCap[d] - used < Batch THEN GlobalCap[d] - used ELSE Batch

Skipping(p, j) == [p EXCEPT !.jobs = @ \ {j}]
Claiming(p, j, n) == [p EXCEPT !.pc = "claim", !.jobs = @ \ {j}, !.job = j, !.cap = n]

(* FindByID and CountInProgress for the oldest job not tried yet.           *)
ScanJob(h) ==
  /\ poll[h].pc = "scan"
  /\ \E j \in poll[h].jobs :
       /\ \A i \in poll[h].jobs : j <= i
       /\ poll' = [poll EXCEPT ![h] =
            IF jobs[j].dom \in domains /\ Room(jobs[j].dom) > 0
            THEN Claiming(poll[h], j, Room(jobs[j].dom))
            ELSE Skipping(poll[h], j)]
  /\ UNCHANGED <<trVars, results, reclaimed, sub, wk, losses>>

(* No job is left to try: 204 and the worker backs off.                     *)
PollEmpty(h) ==
  /\ poll[h].pc = "scan" /\ poll[h].jobs = {}
  /\ poll' = [poll EXCEPT ![h] = IdlePoll]
  /\ wk' = [w \in Worker |-> IF poll[h].client = w THEN IdleWorker ELSE wk[w]]
  /\ UNCHANGED <<trVars, results, reclaimed, sub, losses>>

(* ClaimBatch; with no rows the next job is tried, otherwise the tasks are
   the answer.  If the client is gone nobody receives them. *)
ClaimTasks(h) ==
  /\ poll[h].pc = "claim"
  /\ \E S \in Batches(rec, poll[h].job, poll[h].cap) :
       /\ rec' = Claim(rec, S)
       /\ IF S = {}
          THEN /\ poll' = [poll EXCEPT ![h].pc = "scan"]
               /\ UNCHANGED wk
          ELSE /\ poll' = [poll EXCEPT ![h] = IdlePoll]
               /\ wk' = [w \in Worker |->
                    IF poll[h].client = w
                    THEN [pc |-> "crawling", job |-> poll[h].job,
                          todo |-> S, got |-> {}]
                    ELSE wk[w]]
  /\ UNCHANGED <<domains, jobs, tr, faults, results, reclaimed, sub, losses>>

(* FindByID, CountInProgress or ClaimBatch fails: the job is skipped.  (A
   FindRunning that fails is an empty poll.) *)
PollStatementFails(h) ==
  /\ poll[h].pc = "claim" /\ faults < MaxFaults
  /\ poll' = [poll EXCEPT ![h].pc = "scan"]
  /\ faults' = faults + 1
  /\ UNCHANGED <<domains, jobs, rec, tr, results, reclaimed, sub, wk, losses>>

-----------------------------------------------------------------------------
(* The worker between its requests: Runner.Run and crawl.                   *)

Fetch(w, k, o) ==
  /\ wk[w].pc = "crawling" /\ k \in wk[w].todo
  /\ wk' = [wk EXCEPT ![w].todo = @ \ {k},
                      ![w].got = @ \cup {[key |-> k, out |-> o]}]
  /\ UNCHANGED <<trVars, results, reclaimed, poll, sub, losses>>

(* SubmitResultsUseCase.Execute reads the job and the domain: 404 if the
   domain is gone, and the worker drops its results (runner.go:149).  The
   same answer to a failed statement is WorkerLost below. *)
Submit(w, h) ==
  /\ wk[w].pc = "crawling" /\ wk[w].todo = {}
  /\ sub[h].pc = "idle"
  /\ jobs[wk[w].job].dom \in domains
  /\ sub' = [sub EXCEPT ![h] = [IdleSubmit EXCEPT
                 !.pc = "item", !.client = w, !.job = wk[w].job,
                 !.items = wk[w].got, !.base = jobs[wk[w].job].pages]]
  /\ wk' = [wk EXCEPT ![w].pc = "submitting", ![w].got = {}]
  /\ UNCHANGED <<trVars, results, reclaimed, poll, losses>>

SubmitRejected(w) ==
  /\ wk[w].pc = "crawling" /\ wk[w].todo = {}
  /\ jobs[wk[w].job].dom \notin domains
  /\ wk' = [wk EXCEPT ![w] = IdleWorker]
  /\ UNCHANGED <<trVars, results, reclaimed, poll, sub, losses>>

-----------------------------------------------------------------------------
(* SubmitResultsUseCase.Execute: POST /worker/jobs/{id}/results.  The error
   of every statement is ignored: with ok = FALSE it changes nothing. *)

MayFail(ok) == ok \/ faults < MaxFaults
CountFault(ok) == faults' = IF ok THEN faults ELSE faults + 1

(* Where the handler stands when the result in hand is dealt with.          *)
AfterItem(s) == IF s.items # {} THEN "item"
                ELSE IF s.len > 0 THEN "enqueue"
                ELSE IF s.done > 0 THEN "count" ELSE "idle"

(* The handler goes on as s, or answers if that is the end.                 *)
Proceed(h, s) ==
  /\ sub' = [sub EXCEPT ![h] = IF s.pc = "idle" THEN IdleSubmit ELSE s]
  /\ wk' = [w \in Worker |->
              IF s.pc = "idle" /\ s.client = w THEN IdleWorker ELSE wk[w]]

MutSettled_Raw(o) == o
Settled(o) == IF o = "err" THEN "failed" ELSE "done"

MarkItem(h, i, ok) ==
  /\ sub[h].pc = "item" /\ i \in sub[h].items
  /\ MayFail(ok) /\ CountFault(ok)
  /\ rec' = IF ok THEN Mark(rec, i.key, Settled(i.out)) ELSE rec
  /\ LET rest == [sub[h] EXCEPT !.items = @ \ {i}]
     IN  IF i.out = "err"
         THEN Proceed(h, [rest EXCEPT !.pc = AfterItem(rest)])
         ELSE Proceed(h, [rest EXCEPT !.pc = "save", !.cur = {i}, !.done = @ + 1])
  /\ UNCHANGED <<domains, jobs, tr, results, reclaimed, poll, losses>>

(* The positions of the page's links that are appended to toEnqueue: those
   in scope, up to the first one at which the page budget is used up. *)
MutAdmitted_NoBreak(s, d, i, n) ==
  {x \in DOMAIN Links[i.key[2]] : InScope(d, Links[i.key[2]][x], n)}

MutAdmitted_StopsOutOfScope(s, d, i, n) ==
  {x \in DOMAIN Links[i.key[2]] : \A y \in 1..x : InScope(d, Links[i.key[2]][y], n)}

Admitted(s, d, i, n) ==
  LET links == Links[i.key[2]]
      inScope == {x \in DOMAIN links : InScope(d, links[x], n)}
      before(x) == Cardinality({y \in inScope : y < x})
  IN  {x \in inScope : MaxPages[d] = 0
                       \/ s.base + s.done + s.len + before(x) < MaxPages[d]}

(* toEnqueue with the links at positions xs of page u, found at hop n: the
   first mention of a URL is the one the statement inserts. *)
Listed(out, u, xs, n) ==
  [v \in Url |-> IF out[v] = 0 /\ (\E x \in xs : Links[u][x] = v)
                 THEN n ELSE out[v]]

SaveResult(h, i, ok) ==
  /\ sub[h].pc = "save" /\ i \in sub[h].cur
  /\ MayFail(ok) /\ CountFault(ok)
  /\ results' = IF ok THEN [results EXCEPT ![i.key][i.out] = @ + 1] ELSE results
  /\ LET n == rec[i.key].depth + 1       \* the worker echoes the task's depth
         d == jobs[sub[h].job].dom
         xs == IF i.out = "page" THEN Admitted(sub[h], d, i, n) ELSE {}
         saved == [sub[h] EXCEPT !.cur = {}, !.len = @ + Cardinality(xs),
                                 !.out = Listed(@, i.key[2], xs, n)]
     IN  Proceed(h, [saved EXCEPT !.pc = AfterItem(saved)])
  /\ UNCHANGED <<domains, jobs, rec, tr, reclaimed, poll, losses>>

EnqueueLinks(h, ok) ==
  /\ sub[h].pc = "enqueue"
  /\ MayFail(ok) /\ CountFault(ok)
  /\ rec' = IF ok THEN Enqueue(rec, jobs[sub[h].job].dom, sub[h].job,
                               {u \in Url : sub[h].out[u] > 0}, sub[h].out)
            ELSE rec
  /\ Proceed(h, [sub[h] EXCEPT !.pc = IF sub[h].done > 0 THEN "count" ELSE "idle"])
  /\ UNCHANGED <<domains, jobs, tr, results, reclaimed, poll, losses>>

MutPagesAfter_One(n, s) == n + 1
PagesAfter(n, s) == n + s.done

CountPages(h, ok) ==
  /\ sub[h].pc = "count"
  /\ MayFail(ok) /\ CountFault(ok)
  /\ jobs' = IF ok THEN [jobs EXCEPT ![sub[h].job].pages = PagesAfter(@, sub[h])]
             ELSE jobs
  /\ Proceed(h, [sub[h] EXCEPT !.pc = "idle"])
  /\ UNCHANGED <<domains, rec, tr, results, reclaimed, poll, losses>>

-----------------------------------------------------------------------------
(* The ticker and what may go wrong.                                        *)

(* ReclaimStaleTasksUseCase: the rows "old" were last updated before the
   cutoff.  Nothing ties the threshold to the time a worker needs. *)
ReclaimStale(old) ==
  /\ Reclaim(rec, old) # rec
  /\ rec' = Reclaim(rec, old)
  /\ reclaimed' = reclaimed \cup {k \in old : rec[k].st = "in_progress"}
  /\ Cardinality(reclaimed') <= MaxReclaimed
  /\ UNCHANGED <<domains, jobs, tr, faults, results, poll, sub, wk, losses>>

(* The worker crashes, or gives up a request after 30 s, or its request or
   the answer is lost; results are never sent twice (runner.go:149). *)
WorkerLost(w) ==
  /\ wk[w].pc # "idle" /\ losses < MaxLosses
  /\ losses' = losses + 1
  /\ wk' = [wk EXCEPT ![w] = IdleWorker]
  /\ poll' = [h \in Handler |-> IF poll[h].client = w
                                THEN [poll[h] EXCEPT !.client = None] ELSE poll[h]]
  /\ sub' = [h \in Handler |-> IF sub[h].client = w
                               THEN [sub[h] EXCEPT !.client = None] ELSE sub[h]]
  /\ UNCHANGED <<trVars, results, reclaimed>>

(* The request context ends with its client: every later statement fails.   *)
PollCancelled(h) ==
  /\ poll[h].pc # "idle" /\ poll[h].client = None
  /\ poll' = [poll EXCEPT ![h] = IdlePoll]
  /\ UNCHANGED <<trVars, results, reclaimed, sub, wk, losses>>

SubmitCancelled(h) ==
  /\ sub[h].pc # "idle" /\ sub[h].client = None /\ faults < MaxFaults
  /\ sub' = [sub EXCEPT ![h] = IdleSubmit]
  /\ faults' = faults + 1
  /\ UNCHANGED <<domains, jobs, rec, tr, results, reclaimed, poll, wk, losses>>

(* The master stops, even gracefully: ListenAndServe returns as soon as
   Shutdown begins and the process ends with its handlers (main.go:157-170).
   Tables survive; workers that wait for an answer get an error. *)
ServerRestart ==
  /\ faults < MaxFaults
  /\ faults' = faults + 1
  /\ tr' = [c \in Caller |-> NoTrigger]
  /\ poll' = [h \in Handler |-> IdlePoll]
  /\ sub' = [h \in Handler |-> IdleSubmit]
  /\ wk' = [w \in Worker |-> IF wk[w].pc \in {"polling", "submitting"}
                             THEN IdleWorker ELSE wk[w]]
  /\ UNCHANGED <<domains, jobs, rec, results, reclaimed, losses>>

-----------------------------------------------------------------------------
PollStep(h) == ScanJob(h) \/ PollEmpty(h) \/ ClaimTasks(h)

SubmitStep(h) ==
  \E ok \in BOOLEAN : \/ \E i \in sub[h].items : MarkItem(h, i, ok)
                      \/ \E i \in sub[h].cur : SaveResult(h, i, ok)
                      \/ EnqueueLinks(h, ok)
                      \/ CountPages(h, ok)

WorkerStep(w) ==
  \/ \E h \in Handler : Poll(w, h)
  \/ \E k \in wk[w].todo, o \in Outcome : Fetch(w, k, o)
  \/ \E h \in Handler : Submit(w, h)
  \/ SubmitRejected(w)

Next ==
  \/ Trigger /\ UNCHANGED crawlVars
  \/ \E d \in Removable : DeleteDomain(d) /\ UNCHANGED crawlVars
  \/ \E h \in Handler : \/ PollStep(h) \/ SubmitStep(h)
                        \/ PollStatementFails(h)
                        \/ PollCancelled(h) \/ SubmitCancelled(h)
  \/ \E w \in Worker : WorkerStep(w) \/ WorkerLost(w)
  \/ \E old \in SUBSET Present(rec) : ReclaimStale(old)
  \/ ServerRestart

Spec == Init /\ [][Next]_vars

(* Goroutines and the worker's loop keep running, and a row that stays in
   progress is old at some tick. *)
Fairness ==
  /\ \A c \in Caller : WF_vars(TriggerStep(c) /\ UNCHANGED crawlVars)
  /\ \A h \in Handler : WF_vars(PollStep(h)) /\ WF_vars(SubmitStep(h))
  /\ \A w \in Worker : WF_vars(WorkerStep(w))
  /\ \A k \in Key :
       WF_vars(\E old \in SUBSET Present(rec) : k \in old /\ ReclaimStale(old))

FairSpec == Spec /\ Fairness

-----------------------------------------------------------------------------
(* The tasks whose result worker w, or submit handler h, still has to give.  *)
WorkerKeys(w) == wk[w].todo \cup {i.key : i \in wk[w].got}
SubmitKeys(h) == {i.key : i \in sub[h].items}

(* A task is in one pair of hands: no two workers, no two submit handlers and
   no worker and handler have it, however polls, lost answers and restarts
   interleave -- unless the ticker took it back while somebody had it
   (url_repo.go:44-74, the claim transaction). *)
ExclusiveHandout ==
  \A k \in Key \ reclaimed :
    /\ \A v, w \in Worker :
         k \in WorkerKeys(v) /\ k \in WorkerKeys(w) => v = w
    /\ \A g, h \in Handler :
         k \in SubmitKeys(g) /\ k \in SubmitKeys(h) => g = h
    /\ \A w \in Worker, h \in Handler :
         ~(k \in WorkerKeys(w) /\ k \in SubmitKeys(h))

(* A URL is crawled once: crawl_results has no unique index, so only the queue
   keeps it from holding two rows for a URL (usecases.go:288-307). *)
OneResult ==
  \A k \in Key \ reclaimed : results[k].page + results[k].empty <= 1

(* Every queued URL was reached from the seed by following links of queued
   pages of its own domain, one hop each, all in scope (usecases.go:310-330). *)
ReachedByLinks ==
  \A k \in Present(rec) :
    \/ k = SeedKey(k[1]) /\ rec[k].depth = 0
    \/ /\ k[2] \in Scope[k[1]]
       /\ MaxDepth[k[1]] > 0 => rec[k].depth <= MaxDepth[k[1]]
       /\ \E p \in Present(rec) :
            /\ p[1] = k[1] /\ rec[k].depth = rec[p].depth + 1
            /\ \E x \in DOMAIN Links[p[2]] : Links[p[2]][x] = k[2]

(* Jobs do not mix: the rows of a domain all belong to one job, a job of that
   domain, even if overlapping triggers created several (usecases.go:124,
   url_repo.go:36-41). *)
OneJobOwnsRows ==
  \A k \in Present(rec) :
    /\ rec[k].job \in DOMAIN jobs /\ jobs[rec[k].job].dom = k[1]
    /\ \A q \in Present(rec) : k[1] = q[1] => rec[k].job = rec[q].job

(* No link is forgotten: unless a statement failed or a handler was cut off,
   every link in scope of a page whose result is stored is in the queue, or
   its handler is about to insert it (usecases.go:310-335). *)
NoLinkLost ==
  faults = 0 =>
    \A k \in Key : results[k].page > 0 /\ MaxPages[k[1]] = 0 =>
      \A x \in DOMAIN Links[k[2]] :
        LET u == Links[k[2]][x] IN
        InScope(k[1], u, rec[k].depth + 1) =>
          \/ <<k[1], u>> \in Present(rec)
          \/ \E h \in Handler : /\ sub[h].pc \in {"item", "save", "enqueue"}
                                /\ sub[h].out[u] > 0
                                /\ jobs[sub[h].job].dom = k[1]

(* Polls that overlap can exceed the cap, because CountInProgress and
   ClaimBatch are two statements, but only by one cap per poll
   (usecases.go:193-206).  For domains with one root and one cap. *)
CapOverrunBounded ==
  \A d \in Domain :
    GlobalCap[d] > 0 =>
      Cardinality(InProgressUnder(rec, RootOf[Seed[d]]))
        <= Cardinality(Handler) * GlobalCap[d]

(* max_pages_per_run = N looks at a snapshot of the pages counted and not at
   the queue, so more than N URLs are queued: every number of counted pages
   below N lets each overlapping submit list what is left of the budget.  It
   never lets more than that (usecases.go:320-322). *)
BudgetBoundsQueue ==
  faults = 0 =>
    \A j \in DOMAIN jobs :
      LET n == MaxPages[jobs[j].dom] IN
      n > 0 => Cardinality({k \in Present(rec) : rec[k].job = j})
                 <= 1 + Cardinality(Handler) * ((n * (n - 1)) \div 2)

(* The sum of the values of f, as the size of a set. *)
Total(f) == Cardinality(UNION {{x} \X (1..f[x]) : x \in DOMAIN f})

(* What is stored of job j, and what handler h has stored for it and not counted
   yet: doneCount runs ahead by the result being saved. *)
StoredOf(j) == [k \in Key |-> IF rec[k].job = j
                              THEN results[k].page + results[k].empty ELSE 0]
UncountedOf(j) ==
  [h \in Handler |-> IF sub[h].job # j THEN 0
                     ELSE IF sub[h].pc = "save" THEN sub[h].done - 1
                     ELSE sub[h].done]

(* The counter of a job and the result rows agree: every stored result is
   counted, or its handler still has it to count (usecases.go:289, 336). *)
PagesMatchResults ==
  faults = 0 =>
    \A j \in DOMAIN jobs :
      Total(StoredOf(j)) = jobs[j].pages + Total(UncountedOf(j))

(* crawl_results has how many rows of URL k, and submit handlers may be about
   to write the next: it was marked and not yet saved. *)
Stored(k) == results[k].page + results[k].empty
BeingSaved(k) ==
  \E h \in Handler : sub[h].pc = "save" /\ {i.key : i \in sub[h].cur} = {k}

(* The status of a URL and its result agree, also for tasks that were taken back
   and whose results come late, twice or in any order: "done" has its result,
   and a URL with a result is done, or failed if its task was taken back.  That
   it is not pending either is what this code does: the specification document
   wants done URLs crawled again after a while, see RunsEnd below
   (usecases.go:279-307, url_repo.go:76-105). *)
VerdictMatchesResults ==
  faults = 0 =>
    \A k \in Key :
      /\ rec[k].st = "done" => Stored(k) > 0 \/ BeingSaved(k)
      /\ Stored(k) > 0 =>
           \/ rec[k].st = "done"
           \/ rec[k].st = "failed" /\ k \in reclaimed

(* The first discovery of a URL fixes its job, its depth and its place in the
   queue, whoever finds it again (url_repo.go:36-41). *)
FirstDiscoveryWins ==
  [][\A k \in Present(rec) :
       /\ rec'[k].job = rec[k].job /\ rec'[k].depth = rec[k].depth
       /\ rec'[k].born = rec[k].born]_vars

(* Every URL put in the queue is eventually settled, whatever was lost on the
   way: stale tasks come back and somebody crawls them. *)
QueueDrains ==
  \A k \in Key : rec[k].st = "pending" ~> rec[k].st \in {"done", "failed"}

(* Refinement: whatever workers, handlers, triggers, the ticker and faults do, the
   queue of a crawl is the abstract frontier (usecases.go:85-340). *)
KnownAs(r) == [st  |-> IF r.st = "none" THEN "unknown"
                       ELSE IF r.st \in {"done", "failed"} THEN "settled" ELSE "open",
               hop |-> r.depth]

F == INSTANCE Frontier WITH front <- [k \in Key |-> KnownAs(rec[k])]

FrontierSpec == F!Spec

-----------------------------------------------------------------------------
(* What the documents promise and the code does not keep.                   *)

(* eidos: "Job = one crawl run over a domain", "Job tracks: status (pending /
   running / completed / failed)", and of URLs "failed -> pending (retry up to
   max_retries)", "done (re-crawl TTL elapsed) -> pending": once all URLs of a
   domain are settled, its run ends, or one of them is queued again.

   Neither happens.  UpdateStatus and SetEnded are called nowhere, so the job stays
   active and every later trigger, by cron or by hand, is refused.  MarkFailed adds
   one to retry_count and MarkDone stores last_crawled (url_repo.go:91, 81); nothing
   acts on them, and no statement takes up a row that is failed or done. *)
RunsEnd ==
  \A d \in Domain :
    (/\ \E k \in Present(rec) : k[1] = d
     /\ \A k \in Present(rec) : k[1] = d => rec[k].st \in {"done", "failed"})
    ~> \/ ActiveJobs(jobs, d) = {}
       \/ \E k \in Key : k[1] = d /\ rec[k].st = "pending"
=============================================================================
