------------------------- MODULE CrawlMasterProofs --------------------------
(***************************************************************************)
(* Proofs about CrawlMaster for every value of its constants.              *)
(***************************************************************************)
EXTENDS CrawlMaster, FiniteSetTheorems, TLAPS

(* The job ids and domains that processes remember exist in the tables.     *)
TriggerRefs ==
  \A c \in Caller :
    /\ tr[c].pc # "idle" => tr[c].dom \in Domain
    /\ tr[c].pc = "seed" => /\ tr[c].job \in DOMAIN jobs
                            /\ jobs[tr[c].job].dom = tr[c].dom

PollRefs ==
  \A h \in Handler :
    /\ poll[h].jobs \subseteq DOMAIN jobs
    /\ poll[h].pc = "claim" => poll[h].job \in DOMAIN jobs

SubmitRefs ==
  \A h \in Handler : sub[h].pc # "idle" => sub[h].job \in DOMAIN jobs

WorkerRefs ==
  \A w \in Worker : wk[w].pc = "crawling" => wk[w].job \in DOMAIN jobs

Refs == TriggerRefs /\ PollRefs /\ SubmitRefs /\ WorkerRefs

TypeInv == TypeOK /\ Refs

-----------------------------------------------------------------------------
(* Facts about the operators of UrlQueue.                                   *)

(* Sets of rows are finite.                                                 *)
LEMMA KeysFinite ==
  ASSUME NEW S \in SUBSET Key
  PROVE  IsFiniteSet(S) /\ Cardinality(S) \in Nat
  <1>1. IsFiniteSet(Key)
    BY UrlQueueAssumption, FS_Product DEF Key
  <1> QED
    BY <1>1, FS_Subset, FS_CardinalityType

(* Every statement maps tables to tables.                                   *)
LEMMA StatementTypes ==
  ASSUME NEW t \in [Key -> Row]
  PROVE  /\ \A d, us : \A j \in 0..MaxJobs, depth \in [Url -> Nat] :
              Enqueue(t, d, j, us, depth) \in [Key -> Row]
         /\ \A S : Claim(t, S) \in [Key -> Row]
         /\ \A k \in Key, s \in {"done", "failed"} : Mark(t, k, s) \in [Key -> Row]
         /\ \A old : Reclaim(t, old) \in [Key -> Row]
  <1>1. Cardinality(Present(t)) \in Nat
    BY KeysFinite DEF Present
  <1>2. ASSUME NEW d, NEW us, NEW j \in 0..MaxJobs, NEW depth \in [Url -> Nat]
        PROVE  Enqueue(t, d, j, us, depth) \in [Key -> Row]
    <2>1. ASSUME NEW k \in Key
          PROVE  [st |-> "pending", job |-> j, depth |-> depth[k[2]],
                  born |-> Cardinality(Present(t))] \in Row
      BY <1>1, <1>2 DEF Row, Key
    <2> QED
      BY <2>1 DEF Enqueue
  <1>3. ASSUME NEW S PROVE Claim(t, S) \in [Key -> Row]
    BY DEF Claim, Row
  <1>4. ASSUME NEW k \in Key, NEW s \in {"done", "failed"}
        PROVE  Mark(t, k, s) \in [Key -> Row]
    BY DEF Mark, Row
  <1>5. ASSUME NEW old PROVE Reclaim(t, old) \in [Key -> Row]
    BY DEF Reclaim, Row
  <1> QED
    BY <1>2, <1>3, <1>4, <1>5

(* A new job extends the table and leaves the others as they are.           *)
LEMMA AppendJob ==
  ASSUME NEW js \in Seq(JobRow), NEW e \in JobRow
  PROVE  /\ Append(js, e) \in Seq(JobRow)
         /\ Len(Append(js, e)) = Len(js) + 1
         /\ DOMAIN js \subseteq DOMAIN Append(js, e)
         /\ Len(js) + 1 \in DOMAIN Append(js, e)
         /\ Append(js, e)[Len(js) + 1] = e
         /\ \A j \in DOMAIN js : Append(js, e)[j] = js[j]
  OBVIOUS

(* The idle states are states.                                              *)
LEMMA IdleStates ==
  /\ NoTrigger \in TriggerState /\ NoTrigger.pc = "idle"
  /\ IdlePoll \in PollState /\ IdlePoll.pc = "idle" /\ IdlePoll.jobs = {}
  /\ IdleSubmit \in SubmitState /\ IdleSubmit.pc = "idle"
  /\ IdleWorker \in WorkerState /\ IdleWorker.pc = "idle"
  <1>1. 0 \in 0..MaxJobs
    BY UrlQueueAssumption
  <1> QED
    BY <1>1 DEF NoTrigger, TriggerState, IdlePoll, PollState, IdleSubmit,
       SubmitState, NoOut, IdleWorker, WorkerState

(* The rows of crawl_jobs.                                                  *)
LEMMA JobTable ==
  ASSUME TypeInv
  PROVE  /\ DOMAIN jobs \subseteq JobId /\ DOMAIN jobs \subseteq 0..MaxJobs
         /\ \A j \in DOMAIN jobs : /\ jobs[j] \in JobRow
                                   /\ jobs[j].dom \in Domain /\ jobs[j].pages \in Nat
  <1>1. jobs \in Seq(JobRow) /\ Len(jobs) <= MaxJobs
    BY DEF TypeInv, TypeOK, TrTypeOK
  <1>2. \A j \in DOMAIN jobs : jobs[j] \in JobRow
    BY <1>1
  <1> QED
    BY <1>1, <1>2, UrlQueueAssumption DEF JobId, JobRow

-----------------------------------------------------------------------------
(* TypeInv is inductive.                                                    *)

LEMMA TypeInit == Init => TypeInv
  <1> SUFFICES ASSUME Init PROVE TypeInv
    OBVIOUS
  <1>1. TrTypeOK
    <2>1. rec \in [Key -> Row]
      BY UrlQueueAssumption DEF Init, TrInit, NoRow, Row
    <2>2. jobs \in Seq(JobRow) /\ Len(jobs) <= MaxJobs
      BY UrlQueueAssumption DEF Init, TrInit
    <2>3. tr \in [Caller -> TriggerState]
      BY IdleStates DEF Init, TrInit
    <2> QED
      BY <2>1, <2>2, <2>3, TriggerAssumption DEF Init, TrInit, TrTypeOK
  <1>2. TypeOK
    BY <1>1, IdleStates, CrawlAssumption DEF Init, TypeOK, ResultCount
  <1>3. Refs
    BY IdleStates DEF Init, TrInit, Refs, TriggerRefs, PollRefs, SubmitRefs, WorkerRefs
  <1> QED
    BY <1>2, <1>3 DEF TypeInv

LEMMA TypeTrigger ==
  ASSUME TypeInv, Trigger, UNCHANGED crawlVars
  PROVE  TypeInv'
  <1> USE DEF TypeInv, TypeOK, crawlVars
  <1>1. ASSUME NEW c \in Caller, NEW d \in Domain, FindDomain(c, d)
        PROVE  TypeInv'
    <2>1. tr' \in [Caller -> TriggerState]
      <3>1. 0 \in 0..MaxJobs
        BY UrlQueueAssumption
      <3>2. [pc |-> "check", dom |-> d, job |-> 0] \in TriggerState
        BY <3>1 DEF TriggerState
      <3> QED
        BY <1>1, <3>2 DEF FindDomain, TrTypeOK
    <2>2. TriggerRefs'
      BY <1>1 DEF FindDomain, TrTypeOK, Refs, TriggerRefs
    <2> QED
      BY <1>1, <2>1, <2>2 DEF FindDomain, TrTypeOK, Refs, PollRefs, SubmitRefs,
         WorkerRefs
  <1>2. ASSUME NEW c \in Caller, CheckActive(c)
        PROVE  TypeInv'
    BY <1>2, IdleStates DEF CheckActive, TrTypeOK, TriggerState, Refs,
       TriggerRefs, PollRefs, SubmitRefs, WorkerRefs
  <1>3. ASSUME NEW c \in Caller, CreateJob(c)
        PROVE  TypeInv'
    <2> DEFINE row == [dom |-> tr[c].dom, status |-> "running", pages |-> 0]
    <2>1. row \in JobRow
      BY <1>3 DEF CreateJob, JobRow, Refs, TriggerRefs
    <2>2. /\ jobs' \in Seq(JobRow) /\ Len(jobs') <= MaxJobs
          /\ DOMAIN jobs \subseteq DOMAIN jobs'
          /\ Len(jobs) + 1 \in DOMAIN jobs' /\ jobs'[Len(jobs) + 1] = row
          /\ \A j \in DOMAIN jobs : jobs'[j] = jobs[j]
      BY <1>3, <2>1, AppendJob, UrlQueueAssumption DEF CreateJob, TrTypeOK
    <2>3. tr' \in [Caller -> TriggerState]
      <3>1. Len(jobs) + 1 \in 0..MaxJobs
        BY <1>3, UrlQueueAssumption DEF CreateJob, TrTypeOK
      <3>2. [tr[c] EXCEPT !.pc = "seed", !.job = Len(jobs) + 1] \in TriggerState
        BY <3>1 DEF TrTypeOK, TriggerState
      <3>3. tr' = [tr EXCEPT ![c] = [tr[c] EXCEPT !.pc = "seed", !.job = Len(jobs) + 1]]
        BY <1>3 DEF CreateJob
      <3> QED
        BY <3>2, <3>3 DEF TrTypeOK
    <2>4. TriggerRefs'
      BY <1>3, <2>2 DEF CreateJob, TrTypeOK, TriggerState, Refs, TriggerRefs
    <2>5. PollRefs' /\ SubmitRefs' /\ WorkerRefs'
      BY <1>3, <2>2 DEF CreateJob, Refs, PollRefs, SubmitRefs, WorkerRefs
    <2> QED
      BY <1>3, <2>2, <2>3, <2>4, <2>5 DEF CreateJob, TrTypeOK, Refs
  <1>4. ASSUME NEW c \in Caller, SeedQueue(c)
        PROVE  TypeInv'
    <2>1. tr[c].job \in 0..MaxJobs
      BY <1>4 DEF TrTypeOK, TriggerState
    <2>2. rec' \in [Key -> Row]
      BY <1>4, <2>1, StatementTypes DEF SeedQueue, SeedRow, TrTypeOK
    <2> QED
      BY <1>4, <2>2, IdleStates DEF SeedQueue, TrTypeOK, Refs, TriggerRefs,
         PollRefs, SubmitRefs, WorkerRefs
  <1>5. ASSUME NEW c \in Caller, AbortTrigger(c)
        PROVE  TypeInv'
    BY <1>5, IdleStates, TriggerAssumption DEF AbortTrigger, TrTypeOK, Refs,
       TriggerRefs, PollRefs, SubmitRefs, WorkerRefs
  <1> QED
    BY <1>1, <1>2, <1>3, <1>4, <1>5 DEF Trigger, TriggerStep

LEMMA TypePoll ==
  ASSUME TypeInv, NEW h \in Handler,
         \/ PollStep(h) \/ PollStatementFails(h) \/ PollCancelled(h)
         \/ \E w \in Worker : Poll(w, h)
  PROVE  TypeInv'
  <1> USE DEF TypeInv, TypeOK, trVars
  <1>1. ASSUME NEW w \in Worker, Poll(w, h)
        PROVE  TypeInv'
    <2>1. RunningJobs(OnlyDomain[w]) \subseteq DOMAIN jobs /\ DOMAIN jobs \subseteq JobId
      BY UrlQueueAssumption DEF RunningJobs, TrTypeOK, JobId
    <2>2. poll' \in [Handler -> PollState]
      BY <1>1, <2>1, IdleStates DEF Poll, PollState, IdlePoll
    <2>3. wk' \in [Worker -> WorkerState]
      <3>1. [wk[w] EXCEPT !.pc = "polling"] \in WorkerState
        BY DEF WorkerState
      <3> QED
        BY <1>1, <3>1 DEF Poll
    <2>4. PollRefs'
      BY <1>1, <2>1 DEF Poll, IdlePoll, Refs, PollRefs
    <2>5. WorkerRefs'
      <3>1. wk'[w].pc = "polling"
        BY <1>1 DEF Poll, WorkerState
      <3> QED
        BY <1>1, <3>1 DEF Poll, Refs, WorkerRefs
    <2> QED
      BY <1>1, <2>2, <2>3, <2>4, <2>5 DEF Poll, TrTypeOK, Refs,
         TriggerRefs, SubmitRefs
  <1>2. CASE ScanJob(h)
    <2>1. PICK j \in poll[h].jobs :
            poll' = [poll EXCEPT ![h] =
              IF jobs[j].dom \in domains /\ Room(jobs[j].dom) > 0
              THEN Claiming(poll[h], j, Room(jobs[j].dom))
              ELSE Skipping(poll[h], j)]
      BY <1>2 DEF ScanJob
    <2>2. j \in DOMAIN jobs /\ j \in 0..MaxJobs /\ jobs[j].dom \in Domain
      <3>1. poll[h].jobs \subseteq DOMAIN jobs
        BY DEF Refs, PollRefs
      <3> QED
        BY <2>1, <3>1, JobTable
    <2>3. Room(jobs[j].dom) \in Nat
      <3>1. InProgressUnder(rec, RootOf[Seed[jobs[j].dom]]) \in SUBSET Key
        BY DEF InProgressUnder, WithStatus
      <3> QED
        BY <2>2, <3>1, KeysFinite, CrawlAssumption DEF Room
    <2> DEFINE skip == Skipping(poll[h], j)
               take == Claiming(poll[h], j, Room(jobs[j].dom))
    <2>4. skip \in PollState /\ take \in PollState
      BY <2>2, <2>3 DEF PollState, Skipping, Claiming
    <2>5. /\ skip.jobs \subseteq DOMAIN jobs /\ skip.pc = "scan"
          /\ take.jobs \subseteq DOMAIN jobs /\ take.job \in DOMAIN jobs
      BY <1>2, <2>2 DEF ScanJob, Refs, PollRefs, PollState, Skipping, Claiming
    <2>6. \/ poll' = [poll EXCEPT ![h] = skip]
          \/ poll' = [poll EXCEPT ![h] = take]
      BY <2>1
    <2> HIDE DEF skip, take
    <2>7. poll' \in [Handler -> PollState]
      BY <2>4, <2>6
    <2>8. /\ poll'[h].jobs \subseteq DOMAIN jobs
          /\ poll'[h].pc = "claim" => poll'[h].job \in DOMAIN jobs
      BY <2>5, <2>6
    <2>9. PollRefs'
      BY <1>2, <2>1, <2>8 DEF ScanJob, Refs, PollRefs
    <2> QED
      BY <1>2, <2>7, <2>9 DEF ScanJob, TrTypeOK, Refs, TriggerRefs, SubmitRefs, WorkerRefs
  <1>3. CASE PollEmpty(h)
    BY <1>3, IdleStates DEF PollEmpty, TrTypeOK, Refs, TriggerRefs, PollRefs,
       SubmitRefs, WorkerRefs
  <1>4. CASE ClaimTasks(h)
    <2>1. PICK S \in Batches(rec, poll[h].job, poll[h].cap) :
            /\ rec' = Claim(rec, S)
            /\ IF S = {}
               THEN poll' = [poll EXCEPT ![h].pc = "scan"] /\ UNCHANGED wk
               ELSE /\ poll' = [poll EXCEPT ![h] = IdlePoll]
                    /\ wk' = [w \in Worker |->
                         IF poll[h].client = w
                         THEN [pc |-> "crawling", job |-> poll[h].job,
                               todo |-> S, got |-> {}]
                         ELSE wk[w]]
      BY <1>4 DEF ClaimTasks
    <2>2. S \subseteq Key
      BY DEF Batches, PendingOf, WithStatus
    <2>3. rec' \in [Key -> Row]
      BY <2>1, StatementTypes DEF TrTypeOK
    <2>4. /\ poll[h].job \in 0..MaxJobs /\ poll[h].pc = "claim"
          /\ poll[h].job \in DOMAIN jobs
      BY <1>4 DEF ClaimTasks, PollState, Refs, PollRefs
    <2>5. poll' \in [Handler -> PollState] /\ PollRefs'
      BY <1>4, <2>1, IdleStates DEF ClaimTasks, PollState, Refs, PollRefs
    <2>6. wk' \in [Worker -> WorkerState] /\ WorkerRefs'
      BY <1>4, <2>1, <2>2, <2>4 DEF ClaimTasks, WorkerState, Refs, WorkerRefs
    <2> QED
      BY <1>4, <2>3, <2>5, <2>6 DEF ClaimTasks, TrTypeOK, Refs, TriggerRefs, SubmitRefs
  <1>5. CASE PollStatementFails(h)
    <2>1. [poll[h] EXCEPT !.pc = "scan"] \in PollState
      BY DEF PollState
    <2>2. poll' \in [Handler -> PollState] /\ faults' \in 0..MaxFaults
      BY <1>5, <2>1, TriggerAssumption DEF PollStatementFails, TrTypeOK
    <2>3. PollRefs'
      BY <1>5 DEF PollStatementFails, PollState, Refs, PollRefs
    <2> QED
      BY <1>5, <2>2, <2>3 DEF PollStatementFails, TrTypeOK, Refs, TriggerRefs,
         SubmitRefs, WorkerRefs
  <1>6. CASE PollCancelled(h)
    BY <1>6, IdleStates DEF PollCancelled, TrTypeOK, Refs,
       TriggerRefs, PollRefs, SubmitRefs, WorkerRefs
  <1> QED
    BY <1>1, <1>2, <1>3, <1>4, <1>5, <1>6 DEF PollStep

LEMMA TypeWorker ==
  ASSUME TypeInv, NEW w \in Worker,
         \/ \E k \in wk[w].todo, o \in Outcome : Fetch(w, k, o)
         \/ \E h \in Handler : Submit(w, h)
         \/ SubmitRejected(w) \/ WorkerLost(w)
  PROVE  TypeInv'
  <1> USE DEF TypeInv, TypeOK, trVars
  <1>0. wk[w] \in WorkerState
    OBVIOUS
  <1>1. ASSUME NEW k \in wk[w].todo, NEW o \in Outcome, Fetch(w, k, o)
        PROVE  TypeInv'
    <2> DEFINE new == [wk[w] EXCEPT !.todo = @ \ {k},
                                    !.got = @ \cup {[key |-> k, out |-> o]}]
    <2>1. new \in WorkerState /\ new.pc = "crawling" /\ new.job = wk[w].job
      <3>1. [key |-> k, out |-> o] \in Item
        BY <1>0 DEF WorkerState, Item
      <3>2. wk[w].got \cup {[key |-> k, out |-> o]} \in SUBSET Item
        BY <1>0, <3>1 DEF WorkerState
      <3>3. wk[w].todo \ {k} \in SUBSET Key
        BY <1>0 DEF WorkerState
      <3> QED
        BY <1>0, <1>1, <3>2, <3>3 DEF Fetch, WorkerState
    <2>2. wk' = [wk EXCEPT ![w] = new]
      BY <1>1 DEF Fetch
    <2> HIDE DEF new
    <2>3. wk' \in [Worker -> WorkerState] /\ WorkerRefs'
      BY <1>1, <2>1, <2>2 DEF Fetch, Refs, WorkerRefs
    <2> QED
      BY <1>1, <2>3 DEF Fetch, TrTypeOK, Refs, TriggerRefs, PollRefs, SubmitRefs
  <1>2. ASSUME NEW h \in Handler, Submit(w, h)
        PROVE  TypeInv'
    <2> DEFINE new == [IdleSubmit EXCEPT
                 !.pc = "item", !.client = w, !.job = wk[w].job,
                 !.items = wk[w].got, !.base = jobs[wk[w].job].pages]
               off == [wk[w] EXCEPT !.pc = "submitting", !.got = {}]
    <2>1. wk[w].job \in DOMAIN jobs /\ wk[w].job \in 0..MaxJobs
          /\ jobs[wk[w].job].pages \in Nat
      BY <1>2, JobTable DEF Submit, Refs, WorkerRefs
    <2>2. new \in SubmitState /\ new.job = wk[w].job
      BY <1>0, <2>1, IdleStates DEF WorkerState, SubmitState, IdleSubmit, NoOut
    <2>3. off \in WorkerState /\ off.pc = "submitting"
      BY <1>0 DEF WorkerState
    <2>4. sub' = [sub EXCEPT ![h] = new] /\ wk' = [wk EXCEPT ![w] = off]
      BY <1>2 DEF Submit
    <2> HIDE DEF new, off
    <2>5. /\ sub' \in [Handler -> SubmitState] /\ wk' \in [Worker -> WorkerState]
          /\ SubmitRefs' /\ WorkerRefs'
      <3>1. sub' \in [Handler -> SubmitState] /\ wk' \in [Worker -> WorkerState]
        BY <2>2, <2>3, <2>4
      <3>2. jobs' = jobs /\ sub'[h] = new /\ wk'[w] = off
        BY <1>2, <2>4 DEF Submit
      <3>3. SubmitRefs'
        BY <2>1, <2>2, <2>4, <3>2 DEF Refs, SubmitRefs
      <3>4. WorkerRefs'
        BY <2>3, <2>4, <3>2 DEF Refs, WorkerRefs
      <3> QED
        BY <3>1, <3>3, <3>4
    <2> QED
      BY <1>2, <2>5 DEF Submit, TrTypeOK, Refs, TriggerRefs, PollRefs
  <1>3. CASE SubmitRejected(w)
    BY <1>3, IdleStates DEF SubmitRejected, TrTypeOK, Refs, TriggerRefs, PollRefs,
       SubmitRefs, WorkerRefs
  <1>4. CASE WorkerLost(w)
    <2>1. \A h \in Handler : /\ [poll[h] EXCEPT !.client = None] \in PollState
                             /\ [sub[h] EXCEPT !.client = None] \in SubmitState
      <3>1. ASSUME NEW h \in Handler PROVE [poll[h] EXCEPT !.client = None] \in PollState
        BY DEF PollState
      <3>2. ASSUME NEW h \in Handler PROVE [sub[h] EXCEPT !.client = None] \in SubmitState
        BY DEF SubmitState
      <3> QED
        BY <3>1, <3>2
    <2>2. poll' \in [Handler -> PollState] /\ sub' \in [Handler -> SubmitState]
      BY <1>4, <2>1 DEF WorkerLost
    <2>3. \A h \in Handler : /\ poll'[h].jobs = poll[h].jobs
                             /\ poll'[h].pc = poll[h].pc /\ poll'[h].job = poll[h].job
                             /\ sub'[h].pc = sub[h].pc /\ sub'[h].job = sub[h].job
      <3> SUFFICES ASSUME NEW h \in Handler
                   PROVE  /\ poll'[h].jobs = poll[h].jobs
                          /\ poll'[h].pc = poll[h].pc /\ poll'[h].job = poll[h].job
                          /\ sub'[h].pc = sub[h].pc /\ sub'[h].job = sub[h].job
        OBVIOUS
      <3>1. /\ poll'[h].jobs = poll[h].jobs
            /\ poll'[h].pc = poll[h].pc /\ poll'[h].job = poll[h].job
        <4>1. \/ poll'[h] = poll[h]
              \/ poll'[h] = [poll[h] EXCEPT !.client = None]
          BY <1>4 DEF WorkerLost
        <4> QED
          BY <4>1 DEF PollState
      <3>2. sub'[h].pc = sub[h].pc /\ sub'[h].job = sub[h].job
        <4>1. \/ sub'[h] = sub[h]
              \/ sub'[h] = [sub[h] EXCEPT !.client = None]
          BY <1>4 DEF WorkerLost
        <4> QED
          BY <4>1 DEF SubmitState
      <3> QED
        BY <3>1, <3>2
    <2>4. wk' \in [Worker -> WorkerState] /\ WorkerRefs'
      BY <1>4, IdleStates DEF WorkerLost, Refs, WorkerRefs
    <2>5. PollRefs' /\ SubmitRefs'
      BY <1>4, <2>3 DEF WorkerLost, Refs, PollRefs, SubmitRefs
    <2>6. losses' \in 0..MaxLosses
      BY <1>4, CrawlAssumption DEF WorkerLost
    <2> QED
      BY <1>4, <2>2, <2>4, <2>5, <2>6 DEF WorkerLost, TrTypeOK, Refs, TriggerRefs
  <1> QED
    BY <1>1, <1>2, <1>3, <1>4

(* A submit handler goes on as s.                                           *)
LEMMA TypeProceed ==
  ASSUME TypeInv, NEW h \in Handler, NEW s \in SubmitState, Proceed(h, s),
         s.job \in DOMAIN jobs, DOMAIN jobs \subseteq DOMAIN jobs'
  PROVE  /\ sub' \in [Handler -> SubmitState] /\ wk' \in [Worker -> WorkerState]
         /\ SubmitRefs' /\ WorkerRefs'
  <1> USE DEF TypeInv, TypeOK
  <1>1. sub' \in [Handler -> SubmitState] /\ wk' \in [Worker -> WorkerState]
    BY IdleStates DEF Proceed
  <1>2. SubmitRefs'
    BY IdleStates DEF Proceed, Refs, SubmitRefs
  <1>3. WorkerRefs'
    BY IdleStates DEF Proceed, Refs, WorkerRefs
  <1> QED
    BY <1>1, <1>2, <1>3

LEMMA TypeFault ==
  ASSUME TypeInv, NEW ok \in BOOLEAN, MayFail(ok), CountFault(ok)
  PROVE  faults' \in 0..MaxFaults
  BY TriggerAssumption DEF TypeInv, TypeOK, TrTypeOK, MayFail, CountFault

(* The positions of the links that a submit lists.                          *)
LEMMA AdmittedType ==
  ASSUME NEW s, NEW d, NEW i \in Item, NEW n
  PROVE  /\ Admitted(s, d, i, n) \subseteq DOMAIN Links[i.key[2]]
         /\ Cardinality(Admitted(s, d, i, n)) \in Nat
  <1>1. Links[i.key[2]] \in Seq(Url)
    BY UrlQueueAssumption DEF Item, Key
  <1>2. Admitted(s, d, i, n) \subseteq 1..Len(Links[i.key[2]])
    BY <1>1 DEF Admitted
  <1>3. IsFiniteSet(1..Len(Links[i.key[2]]))
    BY <1>1, FS_Interval
  <1> QED
    BY <1>1, <1>2, <1>3, FS_Subset, FS_CardinalityType

LEMMA TypeSubmit ==
  ASSUME TypeInv, NEW h \in Handler, SubmitStep(h)
  PROVE  TypeInv'
  <1> USE DEF TypeInv, TypeOK
  <1>0. PICK ok \in BOOLEAN : \/ \E i \in sub[h].items : MarkItem(h, i, ok)
                              \/ \E i \in sub[h].cur : SaveResult(h, i, ok)
                              \/ EnqueueLinks(h, ok)
                              \/ CountPages(h, ok)
    BY DEF SubmitStep
  <1>s. /\ sub[h] \in SubmitState /\ sub[h].items \subseteq Item /\ sub[h].cur \subseteq Item
        /\ sub[h].out \in [Url -> Nat] /\ sub[h].job \in 0..MaxJobs
        /\ sub[h].len \in Nat /\ sub[h].done \in Nat /\ sub[h].base \in Nat
    BY DEF SubmitState
  <1>1. ASSUME NEW i \in sub[h].items, MarkItem(h, i, ok)
        PROVE  TypeInv'
    <2> DEFINE rest == [sub[h] EXCEPT !.items = @ \ {i}]
               skip == [rest EXCEPT !.pc = AfterItem(rest)]
               save == [rest EXCEPT !.pc = "save", !.cur = {i}, !.done = @ + 1]
    <2>1. i \in Item /\ i.key \in Key
      BY <1>s DEF Item
    <2>2. rest \in SubmitState /\ rest.job = sub[h].job
      BY <1>s DEF SubmitState
    <2>3. AfterItem(rest) \in {"item", "enqueue", "count", "idle"}
      BY DEF AfterItem
    <2>4. skip \in SubmitState /\ skip.job = sub[h].job
      BY <2>2, <2>3 DEF SubmitState
    <2>5. save \in SubmitState /\ save.job = sub[h].job
      <3>1. rest.done + 1 \in Nat /\ {i} \in SUBSET Item
        BY <2>1, <2>2 DEF SubmitState
      <3> HIDE DEF rest
      <3> QED
        BY <2>2, <3>1 DEF SubmitState
    <2>6. Proceed(h, skip) \/ Proceed(h, save)
      BY <1>1 DEF MarkItem
    <2> HIDE DEF rest, skip, save
    <2>7. sub[h].job \in DOMAIN jobs
      BY <1>1 DEF MarkItem, Refs, SubmitRefs
    <2>8. UNCHANGED <<domains, jobs, tr, results, reclaimed, poll, losses>>
      BY <1>1 DEF MarkItem
    <2>9. /\ sub' \in [Handler -> SubmitState] /\ wk' \in [Worker -> WorkerState]
          /\ SubmitRefs' /\ WorkerRefs'
      BY <2>4, <2>5, <2>6, <2>7, <2>8, TypeProceed
    <2>10. rec' \in [Key -> Row]
      BY <1>1, <2>1, StatementTypes DEF MarkItem, Settled, TrTypeOK
    <2>11. faults' \in 0..MaxFaults
      BY <1>1, TypeFault DEF MarkItem
    <2> QED
      BY <2>8, <2>9, <2>10, <2>11 DEF TrTypeOK, Refs, TriggerRefs, PollRefs
  <1>2. ASSUME NEW i \in sub[h].cur, SaveResult(h, i, ok)
        PROVE  TypeInv'
    <2> DEFINE n == rec[i.key].depth + 1
               d == jobs[sub[h].job].dom
               xs == IF i.out = "page" THEN Admitted(sub[h], d, i, n) ELSE {}
               s == [sub[h] EXCEPT !.cur = {}, !.len = @ + Cardinality(xs),
                                   !.out = Listed(@, i.key[2], xs, n)]
               next == [s EXCEPT !.pc = AfterItem(s)]
    <2>1. i \in Item /\ i.key \in Key /\ i.out \in Outcome
      BY <1>s DEF Item
    <2>2. n \in Nat
      BY <2>1 DEF TrTypeOK, Row
    <2>3. Cardinality(xs) \in Nat
      BY <2>1, AdmittedType, FS_EmptySet
    <2>4. Listed(sub[h].out, i.key[2], xs, n) \in [Url -> Nat]
      BY <1>s, <2>2 DEF Listed
    <2>5. s \in SubmitState /\ s.job = sub[h].job
      <3>1. sub[h].len + Cardinality(xs) \in Nat
        BY <1>s, <2>3
      <3> HIDE DEF n, d, xs
      <3> QED
        BY <1>s, <2>4, <3>1 DEF SubmitState
    <2>6. Proceed(h, next)
      BY <1>2 DEF SaveResult
    <2> HIDE DEF n, d, xs, s
    <2>7. AfterItem(s) \in {"item", "enqueue", "count", "idle"}
      BY DEF AfterItem
    <2>8. next \in SubmitState /\ next.job = sub[h].job
      BY <2>5, <2>7 DEF SubmitState
    <2> HIDE DEF next
    <2>9. sub[h].job \in DOMAIN jobs
      BY <1>2 DEF SaveResult, Refs, SubmitRefs
    <2>10. UNCHANGED <<domains, jobs, rec, tr, reclaimed, poll, losses>>
      BY <1>2 DEF SaveResult
    <2>11. /\ sub' \in [Handler -> SubmitState] /\ wk' \in [Worker -> WorkerState]
           /\ SubmitRefs' /\ WorkerRefs'
      BY <2>6, <2>8, <2>9, <2>10, TypeProceed
    <2>12. results' \in [Key -> ResultCount]
      <3>1. [results[i.key] EXCEPT ![i.out] = @ + 1] \in ResultCount
        BY <2>1 DEF ResultCount
      <3>2. \/ results' = results
            \/ results' = [results EXCEPT ![i.key] = [results[i.key] EXCEPT ![i.out] = @ + 1]]
        BY <1>2 DEF SaveResult
      <3> QED
        BY <3>1, <3>2
    <2>13. faults' \in 0..MaxFaults
      BY <1>2, TypeFault DEF SaveResult
    <2> QED
      BY <2>10, <2>11, <2>12, <2>13 DEF TrTypeOK, Refs, TriggerRefs, PollRefs
  <1>3. CASE EnqueueLinks(h, ok)
    <2> DEFINE next == [sub[h] EXCEPT !.pc = IF sub[h].done > 0 THEN "count" ELSE "idle"]
    <2>1. next \in SubmitState /\ next.job = sub[h].job
      BY <1>s DEF SubmitState
    <2>2. Proceed(h, next)
      BY <1>3 DEF EnqueueLinks
    <2> HIDE DEF next
    <2>3. sub[h].job \in DOMAIN jobs
      BY <1>3 DEF EnqueueLinks, Refs, SubmitRefs
    <2>4. UNCHANGED <<domains, jobs, tr, results, reclaimed, poll, losses>>
      BY <1>3 DEF EnqueueLinks
    <2>5. /\ sub' \in [Handler -> SubmitState] /\ wk' \in [Worker -> WorkerState]
          /\ SubmitRefs' /\ WorkerRefs'
      BY <2>1, <2>2, <2>3, <2>4, TypeProceed
    <2>6. rec' \in [Key -> Row]
      BY <1>3, <1>s, StatementTypes DEF EnqueueLinks, TrTypeOK
    <2>7. faults' \in 0..MaxFaults
      BY <1>3, TypeFault DEF EnqueueLinks
    <2> QED
      BY <2>4, <2>5, <2>6, <2>7 DEF TrTypeOK, Refs, TriggerRefs, PollRefs
  <1>4. CASE CountPages(h, ok)
    <2> DEFINE next == [sub[h] EXCEPT !.pc = "idle"]
               j == sub[h].job
               row == [jobs[j] EXCEPT !.pages = PagesAfter(@, sub[h])]
    <2>1. next \in SubmitState /\ next.job = j
      BY <1>s DEF SubmitState
    <2>2. Proceed(h, next)
      BY <1>4 DEF CountPages
    <2>3. j \in DOMAIN jobs
      BY <1>4 DEF CountPages, Refs, SubmitRefs
    <2>4. row \in JobRow /\ row.dom = jobs[j].dom
      BY <1>s, <2>3, JobTable DEF JobRow, PagesAfter
    <2>5. jobs' = jobs \/ jobs' = [jobs EXCEPT ![j] = row]
      BY <1>4 DEF CountPages
    <2> HIDE DEF next, j, row
    <2>6. jobs \in Seq(JobRow) /\ Len(jobs) <= MaxJobs
      BY DEF TrTypeOK
    <2>7. /\ jobs' \in Seq(JobRow) /\ Len(jobs') = Len(jobs)
          /\ DOMAIN jobs' = DOMAIN jobs
          /\ \A q \in DOMAIN jobs : jobs'[q].dom = jobs[q].dom
      BY <2>3, <2>4, <2>5, <2>6
    <2>8. UNCHANGED <<domains, rec, tr, results, reclaimed, poll, losses>>
      BY <1>4 DEF CountPages
    <2>9. /\ sub' \in [Handler -> SubmitState] /\ wk' \in [Worker -> WorkerState]
          /\ SubmitRefs' /\ WorkerRefs'
      BY <2>1, <2>2, <2>3, <2>7, TypeProceed
    <2>10. faults' \in 0..MaxFaults
      BY <1>4, TypeFault DEF CountPages
    <2>11. TriggerRefs' /\ PollRefs'
      BY <2>7, <2>8 DEF Refs, TriggerRefs, PollRefs
    <2> QED
      BY <2>6, <2>7, <2>8, <2>9, <2>10, <2>11 DEF TrTypeOK, Refs
  <1> QED
    BY <1>0, <1>1, <1>2, <1>3, <1>4

LEMMA TypeOther ==
  ASSUME TypeInv,
         \/ \E d \in Removable : DeleteDomain(d) /\ UNCHANGED crawlVars
         \/ \E h \in Handler : SubmitCancelled(h)
         \/ \E old \in SUBSET Present(rec) : ReclaimStale(old)
         \/ ServerRestart
         \/ UNCHANGED vars
  PROVE  TypeInv'
  <1> USE DEF TypeInv, TypeOK
  <1>1. ASSUME NEW d \in Removable, DeleteDomain(d), UNCHANGED crawlVars
        PROVE  TypeInv'
    BY <1>1 DEF DeleteDomain, crawlVars, TrTypeOK, Refs, TriggerRefs, PollRefs,
       SubmitRefs, WorkerRefs
  <1>2. ASSUME NEW h \in Handler, SubmitCancelled(h)
        PROVE  TypeInv'
    BY <1>2, IdleStates, TriggerAssumption DEF SubmitCancelled, TrTypeOK, Refs,
       TriggerRefs, PollRefs, SubmitRefs, WorkerRefs
  <1>3. ASSUME NEW old \in SUBSET Present(rec), ReclaimStale(old)
        PROVE  TypeInv'
    <2>1. rec' \in [Key -> Row]
      BY <1>3, StatementTypes DEF ReclaimStale, TrTypeOK
    <2>2. reclaimed' \subseteq Key
      BY <1>3 DEF ReclaimStale, Present
    <2> QED
      BY <1>3, <2>1, <2>2 DEF ReclaimStale, TrTypeOK, Refs, TriggerRefs, PollRefs,
         SubmitRefs, WorkerRefs
  <1>4. CASE ServerRestart
    <2>1. TriggerRefs' /\ PollRefs' /\ SubmitRefs' /\ WorkerRefs'
      BY <1>4, IdleStates DEF ServerRestart, Refs, TriggerRefs, PollRefs,
         SubmitRefs, WorkerRefs
    <2> QED
      BY <1>4, <2>1, IdleStates, TriggerAssumption DEF ServerRestart, TrTypeOK, Refs
  <1>5. CASE UNCHANGED vars
    BY <1>5 DEF vars, TrTypeOK, Refs, TriggerRefs, PollRefs, SubmitRefs, WorkerRefs
  <1> QED
    BY <1>1, <1>2, <1>3, <1>4, <1>5

LEMMA TypeStep == TypeInv /\ [Next]_vars => TypeInv'
  <1> SUFFICES ASSUME TypeInv, [Next]_vars PROVE TypeInv'
    OBVIOUS
  <1> QED
    BY TypeTrigger, TypePoll, TypeWorker, TypeSubmit, TypeOther DEF Next, WorkerStep

LEMMA TypeInvariant == Spec => []TypeInv
  BY TypeInit, TypeStep, PTL DEF Spec

(* Every variable keeps its type, whatever the interleaving: in particular no
   process ever looks up a job that is not in crawl_jobs (usecases.go:270). *)
THEOREM TypeCorrect == Spec => []TypeOK
  <1>1. TypeInv => TypeOK
    BY DEF TypeInv
  <1> QED
    BY TypeInvariant, <1>1, PTL

-----------------------------------------------------------------------------
(* The first discovery wins.                                                *)

(* Table v has the rows of table t, first discovered in the same way.       *)
Grows(t, v) ==
  /\ Present(t) \subseteq Present(v)
  /\ \A k \in Present(t) : /\ v[k].job = t[k].job /\ v[k].depth = t[k].depth
                           /\ v[k].born = t[k].born

LEMMA StatementsGrow ==
  ASSUME NEW t \in [Key -> Row]
  PROVE  /\ Grows(t, t)
         /\ \A d, us, j, depth : Grows(t, Enqueue(t, d, j, us, depth))
         /\ \A S : Grows(t, Claim(t, S))
         /\ \A k \in Key, s \in {"done", "failed"} : Grows(t, Mark(t, k, s))
         /\ \A old : Grows(t, Reclaim(t, old))
  <1>1. Grows(t, t)
    BY DEF Grows
  <1>2. ASSUME NEW d, NEW us, NEW j, NEW depth
        PROVE  Grows(t, Enqueue(t, d, j, us, depth))
    BY DEF Grows, Present, Enqueue
  <1>3. ASSUME NEW S PROVE Grows(t, Claim(t, S))
    BY DEF Grows, Present, Claim, Row
  <1>4. ASSUME NEW k \in Key, NEW s \in {"done", "failed"}
        PROVE  Grows(t, Mark(t, k, s))
    BY DEF Grows, Present, Mark, Row
  <1>5. ASSUME NEW old PROVE Grows(t, Reclaim(t, old))
    BY DEF Grows, Present, Reclaim, Row
  <1> QED
    BY <1>1, <1>2, <1>3, <1>4, <1>5

(* Which statement a step runs on url_records.                              *)
LEMMA RecSteps ==
  ASSUME TypeInv, [Next]_vars
  PROVE  \/ rec' = rec
         \/ \E c \in Caller : SeedQueue(c)
         \/ \E h \in Handler : ClaimTasks(h)
         \/ \E h \in Handler, ok \in BOOLEAN :
              \/ \E i \in sub[h].items : MarkItem(h, i, ok)
              \/ EnqueueLinks(h, ok)
         \/ \E old \in SUBSET Present(rec) : ReclaimStale(old)
  <1>1. CASE Trigger /\ UNCHANGED crawlVars
    BY <1>1 DEF Trigger, TriggerStep, FindDomain, CheckActive, CreateJob, AbortTrigger
  <1>2. ASSUME NEW d \in Removable, DeleteDomain(d) PROVE rec' = rec
    BY <1>2 DEF DeleteDomain
  <1>3. ASSUME NEW h \in Handler, PollStep(h) PROVE rec' = rec \/ ClaimTasks(h)
    BY <1>3 DEF PollStep, ScanJob, PollEmpty, trVars
  <1>4. ASSUME NEW h \in Handler, SubmitStep(h)
        PROVE  rec' = rec \/ \E ok \in BOOLEAN : \/ \E i \in sub[h].items : MarkItem(h, i, ok)
                                                 \/ EnqueueLinks(h, ok)
    BY <1>4 DEF SubmitStep, SaveResult, CountPages
  <1>5. ASSUME NEW h \in Handler,
               PollStatementFails(h) \/ PollCancelled(h) \/ SubmitCancelled(h)
        PROVE  rec' = rec
    BY <1>5 DEF PollStatementFails, PollCancelled, SubmitCancelled, trVars
  <1>6. ASSUME NEW w \in Worker, WorkerStep(w) \/ WorkerLost(w) PROVE rec' = rec
    BY <1>6 DEF WorkerStep, Poll, Fetch, Submit, SubmitRejected, WorkerLost, trVars
  <1>7. ServerRestart => rec' = rec
    BY DEF ServerRestart
  <1>8. UNCHANGED vars => rec' = rec
    BY DEF vars
  <1> QED
    BY <1>1, <1>2, <1>3, <1>4, <1>5, <1>6, <1>7, <1>8 DEF Next

LEMMA GrowthStep ==
  ASSUME TypeInv, [Next]_vars
  PROVE  Grows(rec, rec')
  <1>1. rec \in [Key -> Row]
    BY DEF TypeInv, TypeOK, TrTypeOK
  <1>2. ASSUME NEW h \in Handler, NEW ok \in BOOLEAN, NEW i \in sub[h].items,
               MarkItem(h, i, ok)
        PROVE  Grows(rec, rec')
    <2>1. i.key \in Key
      BY DEF TypeInv, TypeOK, SubmitState, Item
    <2> QED
      BY <1>1, <1>2, <2>1, StatementsGrow DEF MarkItem, Settled
  <1>3. ASSUME NEW c \in Caller, SeedQueue(c) PROVE Grows(rec, rec')
    BY <1>1, <1>3, StatementsGrow DEF SeedQueue, SeedRow
  <1>4. ASSUME NEW h \in Handler, ClaimTasks(h) PROVE Grows(rec, rec')
    BY <1>1, <1>4, StatementsGrow DEF ClaimTasks
  <1>5. ASSUME NEW h \in Handler, NEW ok \in BOOLEAN, EnqueueLinks(h, ok)
        PROVE  Grows(rec, rec')
    BY <1>1, <1>5, StatementsGrow DEF EnqueueLinks
  <1>6. ASSUME NEW old \in SUBSET Present(rec), ReclaimStale(old)
        PROVE  Grows(rec, rec')
    BY <1>1, <1>6, StatementsGrow DEF ReclaimStale
  <1>7. rec' = rec => Grows(rec, rec')
    BY <1>1, StatementsGrow
  <1> QED
    BY <1>2, <1>3, <1>4, <1>5, <1>6, <1>7, RecSteps

(* FirstDiscoveryWins: INSERT ... ON CONFLICT DO NOTHING and updates that name
   only the status keep a row's job, depth and age (url_repo.go:27-105). *)
THEOREM FirstDiscovery == Spec => FirstDiscoveryWins
  <1>1. TypeInv /\ [Next]_vars =>
          [\A k \in Present(rec) :
             /\ rec'[k].job = rec[k].job /\ rec'[k].depth = rec[k].depth
             /\ rec'[k].born = rec[k].born]_vars
    BY GrowthStep DEF Grows
  <1> QED
    BY TypeInvariant, <1>1, PTL DEF Spec, FirstDiscoveryWins

-----------------------------------------------------------------------------
(* What the steps of a submit handler make of its state.                    *)

Standing(s) ==
  \/ s.pc = "item" /\ s.items # {}
  \/ s.pc = "enqueue" /\ s.items = {} /\ s.len > 0
  \/ /\ s.pc \in {"count", "idle"} /\ s.items = {} /\ s.len = 0
     /\ s.pc = "count" <=> s.done > 0

LEMMA MarkMove ==
  ASSUME TypeInv, NEW h \in Handler, NEW i \in sub[h].items, NEW ok \in BOOLEAN,
         MarkItem(h, i, ok)
  PROVE  \E s \in SubmitState :
           /\ Proceed(h, s)
           /\ s.job = sub[h].job /\ s.items = sub[h].items \ {i}
           /\ s.out = sub[h].out /\ s.len = sub[h].len /\ s.base = sub[h].base
           /\ \/ i.out = "err" /\ s.cur = sub[h].cur /\ s.done = sub[h].done /\ Standing(s)
              \/ i.out # "err" /\ s.cur = {i} /\ s.done = sub[h].done + 1 /\ s.pc = "save"
  <1>s. sub[h] \in SubmitState
    BY DEF TypeInv, TypeOK
  <1> DEFINE rest == [sub[h] EXCEPT !.items = @ \ {i}]
             skip == [rest EXCEPT !.pc = AfterItem(rest)]
             save == [rest EXCEPT !.pc = "save", !.cur = {i}, !.done = @ + 1]
  <1>1. i \in Item
    BY <1>s DEF SubmitState
  <1>2. /\ rest \in SubmitState /\ rest.job = sub[h].job
        /\ rest.items = sub[h].items \ {i} /\ rest.cur = sub[h].cur
        /\ rest.out = sub[h].out /\ rest.len = sub[h].len
        /\ rest.done = sub[h].done /\ rest.base = sub[h].base
    BY <1>s DEF SubmitState
  <1> HIDE DEF rest
  <1>3. CASE i.out = "err"
    <2>1. Proceed(h, skip)
      BY <1>3 DEF MarkItem, rest
    <2>2. AfterItem(rest) \in {"item", "enqueue", "count", "idle"}
      BY DEF AfterItem
    <2>3. /\ skip \in SubmitState /\ skip.job = rest.job /\ skip.items = rest.items
          /\ skip.cur = rest.cur /\ skip.out = rest.out /\ skip.len = rest.len
          /\ skip.done = rest.done /\ skip.base = rest.base
          /\ skip.pc = AfterItem(rest)
      BY <1>2, <2>2 DEF SubmitState
    <2>4. rest.len \in Nat
      BY <1>2 DEF SubmitState
    <2> HIDE DEF skip
    <2>5. Standing(skip)
      BY <2>3, <2>4 DEF Standing, AfterItem
    <2> QED
      BY <1>2, <1>3, <2>1, <2>3, <2>5
  <1>4. CASE i.out # "err"
    <2>1. Proceed(h, save)
      BY <1>4 DEF MarkItem, rest
    <2>2. rest.done + 1 \in Nat /\ {i} \in SUBSET Item
      BY <1>1, <1>2 DEF SubmitState
    <2>3. /\ save \in SubmitState /\ save.job = rest.job /\ save.items = rest.items
          /\ save.cur = {i} /\ save.out = rest.out /\ save.len = rest.len
          /\ save.done = rest.done + 1 /\ save.base = rest.base /\ save.pc = "save"
      BY <1>2, <2>2 DEF SubmitState
    <2> HIDE DEF save
    <2> QED
      BY <1>2, <1>4, <2>1, <2>3
  <1> QED
    BY <1>3, <1>4

(* The links a submit lists for result i.                                   *)
ListedFor(h, i) ==
  IF i.out = "page"
  THEN Admitted(sub[h], jobs[sub[h].job].dom, i, rec[i.key].depth + 1) ELSE {}

LEMMA SaveMove ==
  ASSUME TypeInv, NEW h \in Handler, NEW i \in sub[h].cur, NEW ok \in BOOLEAN,
         SaveResult(h, i, ok)
  PROVE  \E s \in SubmitState :
           /\ Proceed(h, s)
           /\ s.job = sub[h].job /\ s.items = sub[h].items /\ s.cur = {}
           /\ s.out = Listed(sub[h].out, i.key[2], ListedFor(h, i), rec[i.key].depth + 1)
           /\ s.len = sub[h].len + Cardinality(ListedFor(h, i))
           /\ s.done = sub[h].done /\ s.base = sub[h].base
           /\ Standing(s)
  <1>s. sub[h] \in SubmitState
    BY DEF TypeInv, TypeOK
  <1> DEFINE n == rec[i.key].depth + 1
             xs == ListedFor(h, i)
             s == [sub[h] EXCEPT !.cur = {}, !.len = @ + Cardinality(xs),
                                 !.out = Listed(@, i.key[2], xs, n)]
             next == [s EXCEPT !.pc = AfterItem(s)]
  <1>1. i \in Item /\ i.key \in Key
    BY <1>s DEF SubmitState, Item
  <1>2. n \in Nat
    BY <1>1 DEF TypeInv, TypeOK, TrTypeOK, Row
  <1>3. sub[h].len + Cardinality(xs) \in Nat
    <2>1. Cardinality(xs) \in Nat
      BY <1>1, AdmittedType, FS_EmptySet DEF ListedFor
    <2>2. sub[h].len \in Nat
      BY <1>s DEF SubmitState
    <2> QED
      BY <2>1, <2>2
  <1>4. Listed(sub[h].out, i.key[2], xs, n) \in [Url -> Nat]
    BY <1>s, <1>2 DEF Listed, SubmitState
  <1>5. Proceed(h, next)
    BY DEF SaveResult, ListedFor
  <1> HIDE DEF n, xs
  <1>6. /\ s \in SubmitState /\ s.job = sub[h].job /\ s.items = sub[h].items
        /\ s.cur = {} /\ s.out = Listed(sub[h].out, i.key[2], xs, n)
        /\ s.len = sub[h].len + Cardinality(xs)
        /\ s.done = sub[h].done /\ s.base = sub[h].base
    BY <1>s, <1>3, <1>4 DEF SubmitState
  <1> HIDE DEF s
  <1>7. AfterItem(s) \in {"item", "enqueue", "count", "idle"}
    BY DEF AfterItem
  <1>8. /\ next \in SubmitState /\ next.job = s.job /\ next.items = s.items
        /\ next.cur = s.cur /\ next.out = s.out /\ next.len = s.len
        /\ next.done = s.done /\ next.base = s.base /\ next.pc = AfterItem(s)
    BY <1>6, <1>7 DEF SubmitState
  <1> HIDE DEF next
  <1>9. Standing(next)
    BY <1>3, <1>6, <1>8 DEF Standing, AfterItem
  <1> QED
    BY <1>5, <1>6, <1>8, <1>9 DEF n, xs

LEMMA LastMoves ==
  ASSUME TypeInv, NEW h \in Handler, NEW ok \in BOOLEAN,
         EnqueueLinks(h, ok) \/ CountPages(h, ok)
  PROVE  \E s \in SubmitState :
           /\ Proceed(h, s)
           /\ s.pc = IF EnqueueLinks(h, ok) /\ s.done > 0 THEN "count" ELSE "idle"
           /\ s.job = sub[h].job /\ s.items = sub[h].items /\ s.cur = sub[h].cur
           /\ s.out = sub[h].out /\ s.len = sub[h].len
           /\ s.done = sub[h].done /\ s.base = sub[h].base
  <1>s. sub[h] \in SubmitState
    BY DEF TypeInv, TypeOK
  <1> DEFINE next(p) == [sub[h] EXCEPT !.pc = p]
  <1>1. ASSUME NEW p \in {"count", "idle"}
        PROVE  /\ next(p) \in SubmitState /\ next(p).pc = p
               /\ next(p).job = sub[h].job /\ next(p).items = sub[h].items
               /\ next(p).cur = sub[h].cur /\ next(p).out = sub[h].out
               /\ next(p).len = sub[h].len /\ next(p).done = sub[h].done
               /\ next(p).base = sub[h].base
    BY <1>s DEF SubmitState
  <1>2. Proceed(h, next(IF EnqueueLinks(h, ok) /\ sub[h].done > 0 THEN "count" ELSE "idle"))
    BY DEF EnqueueLinks, CountPages
  <1> HIDE DEF next
  <1> QED
    BY <1>1, <1>2

-----------------------------------------------------------------------------
(* What workers and submit handlers have in hand are tasks of their job.    *)

TaskOf(k, j) == k \in Present(rec) /\ rec[k].job = j

WorkerHands ==
  \A w \in Worker :
    /\ wk[w].pc # "crawling" => wk[w].todo = {} /\ wk[w].got = {}
    /\ \A k \in wk[w].todo : TaskOf(k, wk[w].job)
    /\ \A i \in wk[w].got : TaskOf(i.key, wk[w].job)

SubmitHands ==
  \A h \in Handler :
    /\ sub[h].pc = "idle" => sub[h] = IdleSubmit
    /\ sub[h].pc # "save" => sub[h].cur = {}
    /\ \A i \in sub[h].items \cup sub[h].cur : TaskOf(i.key, sub[h].job)

Hands == WorkerHands /\ SubmitHands

LEMMA TaskStays ==
  ASSUME TypeInv, [Next]_vars, NEW k, NEW j, TaskOf(k, j)
  PROVE  TaskOf(k, j)'
  BY GrowthStep DEF TaskOf, Grows

LEMMA HandsInit == Init => Hands
  BY IdleStates DEF Init, Hands, WorkerHands, SubmitHands, IdleWorker, IdleSubmit

LEMMA HandsWorker ==
  ASSUME TypeInv, Hands, [Next]_vars, NEW w \in Worker, WorkerStep(w)
  PROVE  Hands'
  <1> USE DEF Hands
  <1>1. ASSUME NEW k, NEW j, TaskOf(k, j) PROVE TaskOf(k, j)'
    BY <1>1, TaskStays
  <1>t. wk \in [Worker -> WorkerState] /\ sub \in [Handler -> SubmitState]
    BY DEF TypeInv, TypeOK
  <1>2. ASSUME NEW h \in Handler, Poll(w, h)
        PROVE  Hands'
    <2>1. wk' = [wk EXCEPT ![w] = [wk[w] EXCEPT !.pc = "polling"]] /\ sub' = sub
      BY <1>2 DEF Poll
    <2>2. wk[w].todo = {} /\ wk[w].got = {}
      BY <1>2 DEF Poll, WorkerHands
    <2>3. LET n == [wk[w] EXCEPT !.pc = "polling"]
          IN  n.todo = {} /\ n.got = {}
      BY <1>t, <2>2 DEF WorkerState
    <2>4. WorkerHands'
      BY <1>1, <1>t, <2>1, <2>3 DEF WorkerHands
    <2>5. SubmitHands'
      BY <1>1, <2>1 DEF SubmitHands
    <2> QED
      BY <2>4, <2>5
  <1>3. ASSUME NEW k \in wk[w].todo, NEW o \in Outcome, Fetch(w, k, o)
        PROVE  Hands'
    <2> DEFINE n == [wk[w] EXCEPT !.todo = @ \ {k},
                                  !.got = @ \cup {[key |-> k, out |-> o]}]
    <2>1. wk' = [wk EXCEPT ![w] = n] /\ sub' = sub
      BY <1>3 DEF Fetch
    <2>2. /\ n.pc = "crawling" /\ n.job = wk[w].job /\ n.todo = wk[w].todo \ {k}
          /\ n.got = wk[w].got \cup {[key |-> k, out |-> o]}
      BY <1>3, <1>t DEF Fetch, WorkerState
    <2>3. [key |-> k, out |-> o].key = k
      OBVIOUS
    <2> HIDE DEF n
    <2>4. WorkerHands'
      BY <1>1, <1>t, <2>1, <2>2, <2>3 DEF WorkerHands
    <2>5. SubmitHands'
      BY <1>1, <2>1 DEF SubmitHands
    <2> QED
      BY <2>4, <2>5
  <1>4. ASSUME NEW h \in Handler, Submit(w, h)
        PROVE  Hands'
    <2> DEFINE n == [IdleSubmit EXCEPT
                 !.pc = "item", !.client = w, !.job = wk[w].job,
                 !.items = wk[w].got, !.base = jobs[wk[w].job].pages]
               off == [wk[w] EXCEPT !.pc = "submitting", !.got = {}]
    <2>1. sub' = [sub EXCEPT ![h] = n] /\ wk' = [wk EXCEPT ![w] = off]
      BY <1>4 DEF Submit
    <2>2. /\ n.pc = "item" /\ n.job = wk[w].job /\ n.items = wk[w].got /\ n.cur = {}
      BY DEF IdleSubmit
    <2>3. off.pc = "submitting" /\ off.todo = {} /\ off.got = {}
      BY <1>t, <1>4 DEF Submit, WorkerState
    <2> HIDE DEF n, off
    <2>4. WorkerHands'
      BY <1>1, <1>t, <2>1, <2>3 DEF WorkerHands
    <2>5. SubmitHands'
      BY <1>1, <1>t, <2>1, <2>2 DEF SubmitHands, WorkerHands
    <2> QED
      BY <2>4, <2>5
  <1>5. CASE SubmitRejected(w)
    <2>1. wk' = [wk EXCEPT ![w] = IdleWorker] /\ sub' = sub
      BY <1>5 DEF SubmitRejected
    <2>2. WorkerHands'
      BY <1>1, <1>t, <2>1 DEF WorkerHands, IdleWorker
    <2>3. SubmitHands'
      BY <1>1, <2>1 DEF SubmitHands
    <2> QED
      BY <2>2, <2>3
  <1> QED
    BY <1>2, <1>3, <1>4, <1>5 DEF WorkerStep

(* A submit handler goes on as s with results it already had.               *)
LEMMA HandsProceed ==
  ASSUME TypeInv, Hands, [Next]_vars, NEW h \in Handler,
         NEW s \in SubmitState, Proceed(h, s),
         s.job = sub[h].job, s.pc # "save" => s.cur = {},
         s.items \cup s.cur \subseteq sub[h].items \cup sub[h].cur
  PROVE  Hands'
  <1> USE DEF Hands
  <1>1. ASSUME NEW k, NEW j, TaskOf(k, j) PROVE TaskOf(k, j)'
    BY <1>1, TaskStays
  <1>t. wk \in [Worker -> WorkerState] /\ sub \in [Handler -> SubmitState]
    BY DEF TypeInv, TypeOK
  <1>2. WorkerHands'
    BY <1>1, <1>t DEF Proceed, WorkerHands, IdleWorker
  <1>3. \/ sub' = [sub EXCEPT ![h] = IdleSubmit]
        \/ sub' = [sub EXCEPT ![h] = s] /\ s.pc # "idle"
    BY DEF Proceed
  <1>4. SubmitHands'
    <2>1. CASE sub' = [sub EXCEPT ![h] = IdleSubmit]
      BY <1>1, <1>t, <2>1 DEF SubmitHands, IdleSubmit
    <2>2. CASE sub' = [sub EXCEPT ![h] = s] /\ s.pc # "idle"
      BY <1>1, <1>t, <2>2 DEF SubmitHands
    <2> QED
      BY <1>3, <2>1, <2>2
  <1> QED
    BY <1>2, <1>4

LEMMA HandsSubmit ==
  ASSUME TypeInv, Hands, [Next]_vars, NEW h \in Handler, SubmitStep(h)
  PROVE  Hands'
  <1>1. ASSUME NEW i \in sub[h].items, NEW ok \in BOOLEAN, MarkItem(h, i, ok)
        PROVE  Hands'
    <2>1. sub[h].cur = {}
      BY <1>1 DEF MarkItem, Hands, SubmitHands
    <2> QED
      BY <1>1, <2>1, MarkMove, HandsProceed DEF Standing
  <1>2. ASSUME NEW i \in sub[h].cur, NEW ok \in BOOLEAN, SaveResult(h, i, ok)
        PROVE  Hands'
    BY <1>2, SaveMove, HandsProceed
  <1>3. ASSUME NEW ok \in BOOLEAN, EnqueueLinks(h, ok) \/ CountPages(h, ok)
        PROVE  Hands'
    <2>1. sub[h].cur = {}
      BY <1>3 DEF EnqueueLinks, CountPages, Hands, SubmitHands
    <2> QED
      BY <1>3, <2>1, LastMoves, HandsProceed
  <1> QED
    BY <1>1, <1>2, <1>3 DEF SubmitStep

LEMMA HandsClaim ==
  ASSUME TypeInv, Hands, [Next]_vars, NEW h \in Handler, ClaimTasks(h)
  PROVE  Hands'
  <1> USE DEF Hands
  <1>1. ASSUME NEW k, NEW j, TaskOf(k, j) PROVE TaskOf(k, j)'
    BY <1>1, TaskStays
  <1>t. wk \in [Worker -> WorkerState]
    BY DEF TypeInv, TypeOK
  <1>2. PICK S \in Batches(rec, poll[h].job, poll[h].cap) :
          \/ wk' = wk
          \/ wk' = [w \in Worker |->
                      IF poll[h].client = w
                      THEN [pc |-> "crawling", job |-> poll[h].job,
                            todo |-> S, got |-> {}]
                      ELSE wk[w]]
    BY DEF ClaimTasks
  <1>3. \A k \in S : TaskOf(k, poll[h].job)
    BY DEF Batches, PendingOf, WithStatus, TaskOf, Present
  <1>4. WorkerHands'
    BY <1>1, <1>2, <1>3, <1>t DEF WorkerHands
  <1>5. SubmitHands'
    BY <1>1 DEF ClaimTasks, SubmitHands
  <1> QED
    BY <1>4, <1>5

(* Steps that take nothing in hand.                                         *)
LEMMA HandsFrame ==
  ASSUME TypeInv, Hands, [Next]_vars,
         \A w \in Worker : \/ wk'[w] = wk[w]
                           \/ wk'[w] = IdleWorker,
         \A h \in Handler : \/ sub'[h] = sub[h]
                            \/ sub'[h] = IdleSubmit
                            \/ /\ sub[h].pc # "idle"
                               /\ sub'[h] = [sub[h] EXCEPT !.client = None]
  PROVE  Hands'
  <1> USE DEF Hands
  <1>1. ASSUME NEW k, NEW j, TaskOf(k, j) PROVE TaskOf(k, j)'
    BY <1>1, TaskStays
  <1>2. WorkerHands'
    BY <1>1 DEF WorkerHands, IdleWorker
  <1>3. ASSUME NEW h \in Handler, sub[h].pc # "idle",
               sub'[h] = [sub[h] EXCEPT !.client = None]
        PROVE  /\ sub'[h].pc = sub[h].pc /\ sub'[h].cur = sub[h].cur
               /\ sub'[h].items = sub[h].items /\ sub'[h].job = sub[h].job
    BY <1>3 DEF TypeInv, TypeOK, SubmitState
  <1>4. SubmitHands'
    <2> SUFFICES ASSUME NEW h \in Handler
                 PROVE  /\ sub'[h].pc = "idle" => sub'[h] = IdleSubmit
                        /\ sub'[h].pc # "save" => sub'[h].cur = {}
                        /\ \A i \in sub'[h].items \cup sub'[h].cur :
                              TaskOf(i.key, sub[h].job)'
      BY DEF SubmitHands
    <2>1. CASE sub'[h] = sub[h]
      BY <1>1, <2>1 DEF SubmitHands
    <2>2. CASE sub'[h] = IdleSubmit
      BY <2>2 DEF IdleSubmit
    <2>3. CASE sub[h].pc # "idle" /\ sub'[h] = [sub[h] EXCEPT !.client = None]
      BY <1>1, <1>3, <2>3 DEF SubmitHands
    <2> QED
      BY <2>1, <2>2, <2>3
  <1> QED
    BY <1>2, <1>4

LEMMA HandsStep == TypeInv /\ Hands /\ [Next]_vars => Hands'
  <1> SUFFICES ASSUME TypeInv, Hands, [Next]_vars PROVE Hands'
    OBVIOUS
  <1>t. wk \in [Worker -> WorkerState] /\ sub \in [Handler -> SubmitState]
    BY DEF TypeInv, TypeOK
  <1>1. wk' = wk /\ sub' = sub => Hands'
    BY HandsFrame
  <1>2. ASSUME Trigger /\ UNCHANGED crawlVars PROVE Hands'
    BY <1>1, <1>2 DEF crawlVars
  <1>3. ASSUME NEW d \in Removable, DeleteDomain(d) /\ UNCHANGED crawlVars
        PROVE  Hands'
    BY <1>1, <1>3 DEF crawlVars
  <1>4. ASSUME NEW h \in Handler, PollStep(h) PROVE Hands'
    <2>1. ScanJob(h) => Hands'
      BY <1>1 DEF ScanJob
    <2>2. PollEmpty(h) => Hands'
      BY HandsFrame DEF PollEmpty
    <2> QED
      BY <1>4, <2>1, <2>2, HandsClaim DEF PollStep
  <1>5. ASSUME NEW h \in Handler, PollStatementFails(h) \/ PollCancelled(h)
        PROVE  Hands'
    BY <1>1, <1>5 DEF PollStatementFails, PollCancelled
  <1>6. ASSUME NEW h \in Handler, SubmitCancelled(h) PROVE Hands'
    BY <1>t, <1>6, HandsFrame DEF SubmitCancelled
  <1>7. ASSUME NEW w \in Worker, WorkerLost(w) PROVE Hands'
    <2>1. ASSUME NEW h \in Handler, sub[h].client = w
          PROVE  sub[h].pc # "idle"
      BY <2>1, CrawlAssumption DEF Hands, SubmitHands, IdleSubmit
    <2>2. \A h \in Handler : \/ sub'[h] = sub[h]
                             \/ /\ sub[h].pc # "idle"
                                /\ sub'[h] = [sub[h] EXCEPT !.client = None]
      BY <1>7, <2>1 DEF WorkerLost
    <2>3. \A v \in Worker : wk'[v] = wk[v] \/ wk'[v] = IdleWorker
      BY <1>7, <1>t DEF WorkerLost
    <2> QED
      BY <2>2, <2>3, HandsFrame
  <1>8. ASSUME NEW old \in SUBSET Present(rec), ReclaimStale(old) PROVE Hands'
    BY <1>1, <1>8 DEF ReclaimStale
  <1>9. ASSUME ServerRestart PROVE Hands'
    BY <1>9, HandsFrame DEF ServerRestart
  <1>10. ASSUME UNCHANGED vars PROVE Hands'
    BY <1>1, <1>10 DEF vars
  <1> QED
    BY <1>2, <1>3, <1>4, <1>5, <1>6, <1>7, <1>8, <1>9, <1>10, HandsWorker,
       HandsSubmit DEF Next

LEMMA HandsInvariant == Spec => []Hands
  BY TypeInvariant, HandsInit, HandsStep, PTL DEF Spec

-----------------------------------------------------------------------------
(* Where rows come from.                                                    *)

(* A step adds no rows but the seed of a trigger or the links of a submit.  *)
LEMMA NewRows ==
  ASSUME TypeInv, Hands, [Next]_vars, NEW k \in Present(rec') \ Present(rec)
  PROVE  \/ \E c \in Caller :
              /\ tr[c].pc = "seed" /\ k = SeedKey(tr[c].dom)
              /\ rec'[k].job = tr[c].job /\ rec'[k].depth = 0
         \/ \E h \in Handler :
              /\ sub[h].pc = "enqueue" /\ \E ok \in BOOLEAN : EnqueueLinks(h, ok)
              /\ k[1] = jobs[sub[h].job].dom /\ sub[h].out[k[2]] > 0
              /\ rec'[k].job = sub[h].job /\ rec'[k].depth = sub[h].out[k[2]]
  <1>1. rec \in [Key -> Row] /\ k \in Key /\ rec[k].st = "none" /\ rec'[k].st # "none"
    BY DEF TypeInv, TypeOK, TrTypeOK, Present
  <1>2. ASSUME NEW d, NEW j, NEW us, NEW depth, rec' = Enqueue(rec, d, j, us, depth)
        PROVE  /\ k[1] = d /\ k[2] \in us
               /\ rec'[k].job = j /\ rec'[k].depth = depth[k[2]]
    BY <1>1, <1>2 DEF Enqueue
  <1>3. ASSUME NEW c \in Caller, SeedQueue(c)
        PROVE  /\ tr[c].pc = "seed" /\ k = SeedKey(tr[c].dom)
               /\ rec'[k].job = tr[c].job /\ rec'[k].depth = 0
    <2>1. rec' = Enqueue(rec, tr[c].dom, tr[c].job, {Seed[tr[c].dom]}, [u \in Url |-> 0])
      BY <1>3 DEF SeedQueue, SeedRow
    <2>2. /\ k[1] = tr[c].dom /\ k[2] = Seed[tr[c].dom] /\ rec'[k].job = tr[c].job
          /\ rec'[k].depth = [u \in Url |-> 0][k[2]]
      BY <1>2, <2>1
    <2>3. k = SeedKey(tr[c].dom) /\ k[2] \in Url
      BY <1>1, <2>2 DEF Key, SeedKey
    <2> QED
      BY <1>3, <2>2, <2>3 DEF SeedQueue
  <1>4. ASSUME NEW h \in Handler, ClaimTasks(h) PROVE FALSE
    BY <1>1, <1>4 DEF ClaimTasks, Claim, Batches, PendingOf, WithStatus
  <1>5. ASSUME NEW h \in Handler, NEW ok \in BOOLEAN, NEW i \in sub[h].items,
               MarkItem(h, i, ok)
        PROVE  FALSE
    <2>1. i.key \in Present(rec)
      BY DEF Hands, SubmitHands, TaskOf
    <2> QED
      BY <1>1, <1>5, <2>1 DEF MarkItem, Mark, Present
  <1>6. ASSUME NEW h \in Handler, NEW ok \in BOOLEAN, EnqueueLinks(h, ok)
        PROVE  /\ sub[h].pc = "enqueue"
               /\ k[1] = jobs[sub[h].job].dom /\ sub[h].out[k[2]] > 0
               /\ rec'[k].job = sub[h].job /\ rec'[k].depth = sub[h].out[k[2]]
    <2>1. rec' = Enqueue(rec, jobs[sub[h].job].dom, sub[h].job,
                         {u \in Url : sub[h].out[u] > 0}, sub[h].out)
      BY <1>1, <1>6 DEF EnqueueLinks
    <2> QED
      BY <1>2, <1>6, <2>1 DEF EnqueueLinks
  <1>7. ASSUME NEW old \in SUBSET Present(rec), ReclaimStale(old) PROVE FALSE
    BY <1>1, <1>7 DEF ReclaimStale, Reclaim
  <1>8. rec' # rec
    BY <1>1
  <1> QED
    BY <1>3, <1>4, <1>5, <1>6, <1>7, <1>8, RecSteps

(* A job keeps its id and its domain.                                       *)
LEMMA JobsGrow ==
  ASSUME TypeInv, [Next]_vars
  PROVE  \A j \in DOMAIN jobs : j \in DOMAIN jobs' /\ jobs'[j].dom = jobs[j].dom
  <1>1. jobs \in Seq(JobRow)
    BY DEF TypeInv, TypeOK, TrTypeOK
  <1>2. ASSUME Trigger
        PROVE  \A j \in DOMAIN jobs : j \in DOMAIN jobs' /\ jobs'[j].dom = jobs[j].dom
    <2>1. ASSUME NEW c \in Caller, CreateJob(c)
          PROVE  \A j \in DOMAIN jobs : j \in DOMAIN jobs' /\ jobs'[j] = jobs[j]
      <3>1. [dom |-> tr[c].dom, status |-> "running", pages |-> 0] \in JobRow
        BY <2>1 DEF CreateJob, TypeInv, Refs, TriggerRefs, JobRow
      <3> QED
        BY <1>1, <2>1, <3>1, AppendJob DEF CreateJob
    <2> QED
      BY <1>2, <2>1 DEF Trigger, TriggerStep, FindDomain, CheckActive, SeedQueue,
         AbortTrigger
  <1>3. ASSUME NEW h \in Handler, SubmitStep(h)
        PROVE  \A j \in DOMAIN jobs : j \in DOMAIN jobs' /\ jobs'[j].dom = jobs[j].dom
    <2>1. ASSUME NEW ok \in BOOLEAN, CountPages(h, ok)
          PROVE  \A j \in DOMAIN jobs : j \in DOMAIN jobs' /\ jobs'[j].dom = jobs[j].dom
      <3>1. \A j \in DOMAIN jobs : jobs[j] \in JobRow
        BY JobTable
      <3>2. ASSUME NEW j \in DOMAIN jobs, NEW n
            PROVE  [jobs[j] EXCEPT !.pages = n].dom = jobs[j].dom
        BY <3>1 DEF JobRow
      <3>3. \/ jobs' = jobs
            \/ jobs' = [jobs EXCEPT ![sub[h].job] =
                          [jobs[sub[h].job] EXCEPT !.pages =
                             PagesAfter(jobs[sub[h].job].pages, sub[h])]]
        BY <2>1 DEF CountPages
      <3> SUFFICES ASSUME NEW j \in DOMAIN jobs
                   PROVE  j \in DOMAIN jobs' /\ jobs'[j].dom = jobs[j].dom
        OBVIOUS
      <3>4. DOMAIN jobs' = DOMAIN jobs
        BY <3>3
      <3>5. \/ jobs'[j] = jobs[j]
            \/ \E n : jobs'[j] = [jobs[j] EXCEPT !.pages = n]
        BY <3>3
      <3> QED
        BY <3>2, <3>4, <3>5
    <2> QED
      BY <1>3, <2>1 DEF SubmitStep, MarkItem, SaveResult, EnqueueLinks
  <1>4. ASSUME NEW h \in Handler,
               PollStep(h) \/ PollStatementFails(h) \/ PollCancelled(h) \/ SubmitCancelled(h)
        PROVE  jobs' = jobs
    BY <1>4 DEF PollStep, ScanJob, PollEmpty, ClaimTasks, PollStatementFails,
       PollCancelled, SubmitCancelled, trVars
  <1>5. ASSUME NEW w \in Worker, WorkerStep(w) \/ WorkerLost(w) PROVE jobs' = jobs
    BY <1>5 DEF WorkerStep, Poll, Fetch, Submit, SubmitRejected, WorkerLost, trVars
  <1>6. \/ (\E d \in Removable : DeleteDomain(d)) \/ ServerRestart \/ UNCHANGED vars
        \/ \E old \in SUBSET Present(rec) : ReclaimStale(old)
        => jobs' = jobs
    BY DEF DeleteDomain, ServerRestart, vars, ReclaimStale
  <1> QED
    BY <1>2, <1>3, <1>4, <1>5, <1>6 DEF Next

(* What a step does to one submit handler.                                  *)
LEMMA SubSteps ==
  ASSUME TypeInv, Hands, [Next]_vars, NEW h \in Handler
  PROVE  \/ sub'[h] = sub[h]
         \/ sub'[h] = IdleSubmit
         \/ sub[h].pc # "idle" /\ sub'[h] = [sub[h] EXCEPT !.client = None]
         \/ \E w \in Worker : Submit(w, h)
         \/ SubmitStep(h)
  <1>t. sub \in [Handler -> SubmitState]
    BY DEF TypeInv, TypeOK
  <1>1. ASSUME NEW g \in Handler, g # h, SubmitStep(g) PROVE sub'[h] = sub[h]
    <2>1. ASSUME NEW s, Proceed(g, s) PROVE sub'[h] = sub[h]
      BY <1>t, <1>1, <2>1 DEF Proceed
    <2> QED
      BY <1>1, <2>1, MarkMove, SaveMove, LastMoves DEF SubmitStep
  <1>2. ASSUME NEW w \in Worker, WorkerStep(w)
        PROVE  sub'[h] = sub[h] \/ Submit(w, h)
    BY <1>t, <1>2 DEF WorkerStep, Poll, Fetch, Submit, SubmitRejected
  <1>3. ASSUME NEW w \in Worker, WorkerLost(w)
        PROVE  \/ sub'[h] = sub[h]
               \/ sub[h].pc # "idle" /\ sub'[h] = [sub[h] EXCEPT !.client = None]
    <2>1. sub[h].client = w => sub[h].pc # "idle"
      BY CrawlAssumption DEF Hands, SubmitHands, IdleSubmit
    <2> QED
      BY <1>3, <2>1 DEF WorkerLost
  <1>4. ASSUME NEW g \in Handler,
               PollStep(g) \/ PollStatementFails(g) \/ PollCancelled(g)
        PROVE  sub' = sub
    BY <1>4 DEF PollStep, ScanJob, PollEmpty, ClaimTasks, PollStatementFails, PollCancelled
  <1>5. ASSUME NEW g \in Handler, SubmitCancelled(g)
        PROVE  sub'[h] = sub[h] \/ sub'[h] = IdleSubmit
    BY <1>t, <1>5 DEF SubmitCancelled
  <1>6. ServerRestart => sub'[h] = IdleSubmit
    BY DEF ServerRestart
  <1>7. \/ UNCHANGED crawlVars \/ UNCHANGED vars
        \/ \E old \in SUBSET Present(rec) : ReclaimStale(old)
        => sub' = sub
    BY DEF crawlVars, vars, ReclaimStale
  <1> QED
    BY <1>1, <1>2, <1>3, <1>4, <1>5, <1>6, <1>7 DEF Next

(* What a submit handler lists it listed before, or it lists it now.        *)
LEMMA OutSteps ==
  ASSUME TypeInv, Hands, [Next]_vars, NEW h \in Handler, NEW u \in Url,
         sub'[h].out[u] > 0
  PROVE  /\ sub'[h].job = sub[h].job /\ sub[h].pc # "idle"
         /\ \/ sub'[h].out[u] = sub[h].out[u]
            \/ \E i \in sub[h].cur : /\ sub'[h].out[u] = rec[i.key].depth + 1
                                     /\ \E x \in ListedFor(h, i) : Links[i.key[2]][x] = u
  <1>t. sub[h] \in SubmitState
    BY DEF TypeInv, TypeOK
  <1>0. sub[h].out[u] > 0 => sub[h].pc # "idle"
    BY DEF Hands, SubmitHands, IdleSubmit, NoOut
  <1>1. CASE sub'[h] = sub[h]
    BY <1>0, <1>1
  <1>2. IdleSubmit.out[u] = 0
    BY DEF IdleSubmit, NoOut
  <1>3. CASE sub[h].pc # "idle" /\ sub'[h] = [sub[h] EXCEPT !.client = None]
    BY <1>t, <1>3 DEF SubmitState
  <1>4. ASSUME NEW w \in Worker, Submit(w, h) PROVE sub'[h].out[u] = 0
    BY <1>4 DEF Submit, IdleSubmit, NoOut, TypeInv, TypeOK
  <1>5. ASSUME NEW s, Proceed(h, s) PROVE sub'[h] = IdleSubmit \/ sub'[h] = s
    BY <1>5 DEF Proceed, TypeInv, TypeOK
  <1>6. ASSUME NEW i \in sub[h].items, NEW ok \in BOOLEAN, MarkItem(h, i, ok)
        PROVE  sub'[h].job = sub[h].job /\ sub'[h].out[u] = sub[h].out[u] /\ sub[h].pc # "idle"
    <2>1. PICK s : Proceed(h, s) /\ s.job = sub[h].job /\ s.out = sub[h].out
      BY <1>6, MarkMove
    <2>2. sub'[h] = s
      BY <1>2, <1>5, <2>1
    <2> QED
      BY <1>6, <2>1, <2>2 DEF MarkItem
  <1>7. ASSUME NEW ok \in BOOLEAN, EnqueueLinks(h, ok) \/ CountPages(h, ok)
        PROVE  sub'[h].job = sub[h].job /\ sub'[h].out[u] = sub[h].out[u] /\ sub[h].pc # "idle"
    <2>1. PICK s : Proceed(h, s) /\ s.job = sub[h].job /\ s.out = sub[h].out
      BY <1>7, LastMoves
    <2>2. sub'[h] = s
      BY <1>2, <1>5, <2>1
    <2> QED
      BY <1>7, <2>1, <2>2 DEF EnqueueLinks, CountPages
  <1>8. ASSUME NEW i \in sub[h].cur, NEW ok \in BOOLEAN, SaveResult(h, i, ok)
        PROVE  /\ sub'[h].job = sub[h].job /\ sub[h].pc # "idle"
               /\ \/ sub'[h].out[u] = sub[h].out[u]
                  \/ /\ sub'[h].out[u] = rec[i.key].depth + 1
                     /\ \E x \in ListedFor(h, i) : Links[i.key[2]][x] = u
    <2>1. PICK s : /\ Proceed(h, s) /\ s.job = sub[h].job
                   /\ s.out = Listed(sub[h].out, i.key[2], ListedFor(h, i),
                                     rec[i.key].depth + 1)
      BY <1>8, SaveMove
    <2>2. sub'[h] = s
      BY <1>2, <1>5, <2>1
    <2> QED
      BY <1>8, <2>1, <2>2 DEF Listed, SaveResult
  <1>9. CASE SubmitStep(h)
    BY <1>6, <1>7, <1>8, <1>9 DEF SubmitStep
  <1> QED
    BY <1>1, <1>2, <1>3, <1>4, <1>9, SubSteps

(* URL u of domain d may be queued at hop n.                                *)
LinkedFrom(d, u, n) ==
  /\ u \in Scope[d] /\ (MaxDepth[d] > 0 => n <= MaxDepth[d])
  /\ \E p \in Present(rec) :
       /\ p[1] = d /\ n = rec[p].depth + 1
       /\ \E x \in DOMAIN Links[p[2]] : Links[p[2]][x] = u

Rows ==
  \A k \in Present(rec) :
    /\ rec[k].job \in DOMAIN jobs /\ jobs[rec[k].job].dom = k[1]
    /\ TaskOf(SeedKey(k[1]), rec[k].job)

Listings ==
  \A h \in Handler, u \in Url : sub[h].out[u] > 0 =>
    /\ LinkedFrom(jobs[sub[h].job].dom, u, sub[h].out[u])
    /\ TaskOf(SeedKey(jobs[sub[h].job].dom), sub[h].job)

Origin == Rows /\ Listings /\ ReachedByLinks

LEMMA OriginInit == Init => Origin
  BY DEF Init, TrInit, Origin, Rows, Listings, ReachedByLinks, Present, NoRow,
     IdleSubmit, NoOut

(* A link listed by a submit comes from the page it saves.                  *)
LEMMA ListedLinks ==
  ASSUME TypeInv, Hands, Rows, NEW h \in Handler, NEW i \in sub[h].cur,
         NEW x \in ListedFor(h, i)
  PROVE  /\ LinkedFrom(jobs[sub[h].job].dom, Links[i.key[2]][x], rec[i.key].depth + 1)
         /\ TaskOf(SeedKey(jobs[sub[h].job].dom), sub[h].job)
  <1>1. TaskOf(i.key, sub[h].job)
    BY DEF Hands, SubmitHands
  <1>2. i.key[1] = jobs[sub[h].job].dom /\ TaskOf(SeedKey(i.key[1]), sub[h].job)
    BY <1>1 DEF Rows, TaskOf
  <1>3. /\ x \in DOMAIN Links[i.key[2]]
        /\ InScope(jobs[sub[h].job].dom, Links[i.key[2]][x], rec[i.key].depth + 1)
    BY DEF ListedFor, Admitted
  <1> QED
    BY <1>1, <1>2, <1>3 DEF LinkedFrom, InScope, TaskOf

LEMMA OriginStep == TypeInv /\ Hands /\ Origin /\ [Next]_vars => Origin'
  <1> SUFFICES ASSUME TypeInv, Hands, Origin, [Next]_vars PROVE Origin'
    OBVIOUS
  <1> USE DEF Origin
  <1>1. Rows'
    <2> SUFFICES ASSUME NEW k \in Present(rec')
                 PROVE  /\ rec'[k].job \in DOMAIN jobs' /\ jobs'[rec'[k].job].dom = k[1]
                        /\ TaskOf(SeedKey(k[1]), rec[k].job)'
      BY DEF Rows
    <2>1. CASE k \in Present(rec)
      <3>1. rec'[k].job = rec[k].job
        BY <2>1, GrowthStep DEF Grows
      <3>2. TaskOf(SeedKey(k[1]), rec[k].job)
        BY <2>1 DEF Rows
      <3>3. TaskOf(SeedKey(k[1]), rec[k].job)'
        BY <3>1, <3>2, GrowthStep DEF TaskOf, Grows
      <3> QED
        BY <2>1, <3>1, <3>3, JobsGrow DEF Rows
    <2>2. CASE k \notin Present(rec)
      <3>1. ASSUME NEW c \in Caller, tr[c].pc = "seed", k = SeedKey(tr[c].dom),
                   rec'[k].job = tr[c].job
            PROVE  /\ rec'[k].job \in DOMAIN jobs' /\ jobs'[rec'[k].job].dom = k[1]
                   /\ TaskOf(SeedKey(k[1]), rec[k].job)'
        <4>1. /\ tr[c].job \in DOMAIN jobs /\ jobs[tr[c].job].dom = tr[c].dom
              /\ k[1] = tr[c].dom /\ SeedKey(k[1]) = k
          BY <3>1 DEF TypeInv, Refs, TriggerRefs, SeedKey
        <4> QED
          BY <3>1, <4>1, JobsGrow DEF TaskOf
      <3>2. ASSUME NEW h \in Handler, sub[h].pc = "enqueue",
                   k[1] = jobs[sub[h].job].dom, sub[h].out[k[2]] > 0,
                   rec'[k].job = sub[h].job
            PROVE  /\ rec'[k].job \in DOMAIN jobs' /\ jobs'[rec'[k].job].dom = k[1]
                   /\ TaskOf(SeedKey(k[1]), rec[k].job)'
        <4>1. k \in Key /\ k[2] \in Url
          BY DEF Present, Key
        <4>2. sub[h].job \in DOMAIN jobs /\ TaskOf(SeedKey(k[1]), sub[h].job)
          BY <3>2, <4>1 DEF TypeInv, Refs, SubmitRefs, Listings
        <4>3. TaskOf(SeedKey(k[1]), rec[k].job)'
          BY <3>2, <4>2, GrowthStep DEF TaskOf, Grows
        <4> QED
          BY <3>2, <4>2, <4>3, JobsGrow
      <3> QED
        BY <2>2, <3>1, <3>2, NewRows
    <2> QED
      BY <2>1, <2>2
  <1>2. Listings'
    <2> SUFFICES ASSUME NEW h \in Handler, NEW u \in Url, sub'[h].out[u] > 0
                 PROVE  /\ LinkedFrom(jobs[sub[h].job].dom, u, sub[h].out[u])'
                        /\ TaskOf(SeedKey(jobs[sub[h].job].dom), sub[h].job)'
      BY DEF Listings
    <2> DEFINE j == sub[h].job
               d == jobs[sub[h].job].dom
               n == sub'[h].out[u]
    <2>1. sub'[h].job = j /\ jobs'[j].dom = d
      BY OutSteps, JobsGrow DEF TypeInv, Refs, SubmitRefs
    <2>2. LinkedFrom(d, u, n) /\ TaskOf(SeedKey(d), j)
      BY OutSteps, ListedLinks DEF Listings
    <2> HIDE DEF j, d, n
    <2>3. \E p \in Present(rec') :
             /\ p[1] = d /\ n = rec'[p].depth + 1
             /\ \E x \in DOMAIN Links[p[2]] : Links[p[2]][x] = u
      BY <2>2, GrowthStep DEF LinkedFrom, Grows
    <2>4. SeedKey(d) \in Present(rec') /\ rec'[SeedKey(d)].job = j
      BY <2>2, GrowthStep DEF TaskOf, Grows
    <2> QED
      BY <2>1, <2>2, <2>3, <2>4 DEF LinkedFrom, TaskOf, d, n, j
  <1>3. ReachedByLinks'
    <2> SUFFICES ASSUME NEW k \in Present(rec')
                 PROVE  \/ k = SeedKey(k[1]) /\ rec'[k].depth = 0
                        \/ LinkedFrom(k[1], k[2], rec[k].depth)'
      BY DEF ReachedByLinks, LinkedFrom
    <2>1. CASE k \in Present(rec)
      <3>1. rec'[k].depth = rec[k].depth
        BY <2>1, GrowthStep DEF Grows
      <3>2. \/ k = SeedKey(k[1]) /\ rec[k].depth = 0
            \/ LinkedFrom(k[1], k[2], rec[k].depth)
        BY <2>1 DEF ReachedByLinks, LinkedFrom
      <3>3. ASSUME LinkedFrom(k[1], k[2], rec[k].depth)
            PROVE  LinkedFrom(k[1], k[2], rec[k].depth)'
        BY <3>1, <3>3, GrowthStep DEF LinkedFrom, Grows
      <3> QED
        BY <3>1, <3>2, <3>3
    <2>2. CASE k \notin Present(rec)
      <3>1. ASSUME NEW c \in Caller, k = SeedKey(tr[c].dom)
            PROVE  k = SeedKey(k[1])
        BY <3>1 DEF SeedKey
      <3>2. ASSUME NEW h \in Handler, k[1] = jobs[sub[h].job].dom, sub[h].out[k[2]] > 0,
                   rec'[k].depth = sub[h].out[k[2]]
            PROVE  LinkedFrom(k[1], k[2], rec[k].depth)'
        <4>1. k[2] \in Url
          BY DEF Present, Key
        <4>2. LinkedFrom(k[1], k[2], rec'[k].depth)
          BY <3>2, <4>1 DEF Listings
        <4> QED
          BY <4>2, GrowthStep DEF LinkedFrom, Grows
      <3> QED
        BY <2>2, <3>1, <3>2, NewRows
    <2> QED
      BY <2>1, <2>2
  <1> QED
    BY <1>1, <1>2, <1>3

LEMMA OriginInvariant == Spec => []Origin
  BY TypeInvariant, HandsInvariant, OriginInit, OriginStep, PTL DEF Spec

(* ReachedByLinks: the queue never holds a URL that is out of scope, too deep,
   or not linked from a queued page (usecases.go:310-330). *)
THEOREM Reached == Spec => []ReachedByLinks
  BY OriginInvariant, PTL DEF Origin

(* OneJobOwnsRows: however many jobs overlapping triggers create for a domain,
   one of them owns all its rows (usecases.go:100-130). *)
THEOREM OneJobOwns == Spec => []OneJobOwnsRows
  <1>1. Rows => OneJobOwnsRows
    BY DEF Rows, OneJobOwnsRows, TaskOf
  <1> QED
    BY OriginInvariant, <1>1, PTL DEF Origin
=============================================================================
