----------------------------- MODULE TriggerJob -----------------------------
(***************************************************************************)
(* TriggerJobUseCase.Execute (application/crawler/usecases.go), called by  *)
(* the API handler and by the cron goroutines of the scheduler.  The       *)
(* database has one connection, so each SQL statement is one step and the  *)
(* calls of several callers interleave between statements.                 *)
(***************************************************************************)
EXTENDS UrlQueue

CONSTANTS
  Caller,     \* API requests and cron goroutines that may trigger a job
  None,       \* "no value"
  Removable,  \* bound: the domains an administrator may delete
  MaxFaults   \* bound: server restarts, cancelled handlers, failed statements

ASSUME TriggerAssumption ==
  /\ IsFiniteSet(Caller)
  /\ None \notin Domain /\ Removable \subseteq Domain /\ MaxFaults \in Nat

VARIABLES
  domains,    \* ids present in table domains
  jobs,       \* table crawl_jobs; the id of a job is its index
  rec,        \* table url_records
  tr,         \* tr[c]: progress of caller c through Execute
  faults      \* server-side faults so far

trVars == <<domains, jobs, rec, tr, faults>>

JobRow == [dom    : Domain,
           status : {"pending", "running", "completed", "failed"},
           pages  : Nat]

NoTrigger == [pc |-> "idle", dom |-> None, job |-> 0]

TriggerState == [pc : {"idle", "check", "create", "seed"},
                 dom : Domain \cup {None}, job : 0..MaxJobs]

TrTypeOK ==
  /\ domains \subseteq Domain
  /\ jobs \in Seq(JobRow) /\ Len(jobs) <= MaxJobs
  /\ rec \in [Key -> Row]
  /\ tr \in [Caller -> TriggerState]
  /\ faults \in 0..MaxFaults

TrInit ==
  /\ domains = Domain
  /\ jobs = <<>>
  /\ rec = [k \in Key |-> NoRow]
  /\ tr = [c \in Caller |-> NoTrigger]
  /\ faults = 0

(* FindActive: the jobs of d whose status is pending or running. *)
MutActiveJobs_OnlyPending(js, d) ==
  {j \in DOMAIN js : js[j].dom = d /\ js[j].status = "pending"}

ActiveJobs(js, d) ==
  {j \in DOMAIN js : js[j].dom = d /\ js[j].status \in {"pending", "running"}}

SeedKey(d) == <<d, Seed[d]>>

(***************************************************************************)
(* The statements of Execute.  An unknown domain (404) changes nothing.    *)
(***************************************************************************)
FindDomain(c, d) ==
  /\ tr[c].pc = "idle" /\ d \in domains
  /\ tr' = [tr EXCEPT ![c] = [pc |-> "check", dom |-> d, job |-> 0]]
  /\ UNCHANGED <<domains, jobs, rec, faults>>

CheckActive(c) ==
  /\ tr[c].pc = "check"
  /\ tr' = [tr EXCEPT ![c] = IF ActiveJobs(jobs, tr[c].dom) = {}
                             THEN [@ EXCEPT !.pc = "create"]
                             ELSE NoTrigger]      \* ErrJobAlreadyRunning
  /\ UNCHANGED <<domains, jobs, rec, faults>>

CreateJob(c) ==
  /\ tr[c].pc = "create" /\ Len(jobs) < MaxJobs
  /\ jobs' = Append(jobs, [dom |-> tr[c].dom, status |-> "running", pages |-> 0])
  /\ tr' = [tr EXCEPT ![c].pc = "seed", ![c].job = Len(jobs) + 1]
  /\ UNCHANGED <<domains, rec, faults>>

MutSeedRow_NotQueued(t, d, j) == t

SeedRow(t, d, j) == Enqueue(t, d, j, {Seed[d]}, [u \in Url |-> 0])

SeedQueue(c) ==
  /\ tr[c].pc = "seed"
  /\ rec' = SeedRow(rec, tr[c].dom, tr[c].job)
  /\ tr' = [tr EXCEPT ![c] = NoTrigger]
  /\ UNCHANGED <<domains, jobs, faults>>

(* The statement fails, the request is cancelled or the server stops.  The
   error of the last statement is ignored, so a job may stay without seed. *)
AbortTrigger(c) ==
  /\ tr[c].pc # "idle" /\ faults < MaxFaults
  /\ tr' = [tr EXCEPT ![c] = NoTrigger]
  /\ faults' = faults + 1
  /\ UNCHANGED <<domains, jobs, rec>>

(* DELETE /api/domains/{id}: only the row of table domains goes. *)
DeleteDomain(d) ==
  /\ d \in domains
  /\ domains' = domains \ {d}
  /\ UNCHANGED <<jobs, rec, tr, faults>>

TriggerStep(c) == CheckActive(c) \/ CreateJob(c) \/ SeedQueue(c)

Trigger ==
  \E c \in Caller : \/ \E d \in Domain : FindDomain(c, d)
                    \/ TriggerStep(c)
                    \/ AbortTrigger(c)

-----------------------------------------------------------------------------
(* Unless the server failed on the way, a job that exists has its seed URL in
   the queue, or the request that created it is about to insert it.  A job
   without one would block its domain for ever: it stays active, so every
   later trigger is refused (usecases.go:104, 119). *)
JobsSeeded ==
  faults = 0 =>
    \A j \in DOMAIN jobs :
      \/ SeedKey(jobs[j].dom) \in Present(rec)
      \/ \E c \in Caller : /\ tr[c].pc = "seed" /\ tr[c].job = j
                           /\ tr[c].dom = jobs[j].dom

Unfinished(d) ==
  {j \in DOMAIN jobs : jobs[j].dom = d /\ jobs[j].status \notin {"completed", "failed"}}

(* FindActive and Create are two statements, so callers that overlap can each
   create a job; but there are never more than callers, because whoever looks
   after the first Create is refused for good (usecases.go:100-106). *)
ActiveJobsBounded ==
  \A d \in Domain : Cardinality(Unfinished(d)) <= Cardinality(Caller)

(* README.md: "Only one active job per domain runs at a time." *)
OneActiveJobPerDomain ==
  \A d \in Domain : Cardinality(Unfinished(d)) <= 1
=============================================================================
