-------------------------- MODULE CrawlTaskProofs ---------------------------
(***************************************************************************)
(* More about CrawlMaster for every value of its constants: jobs and their *)
(* seeds, tasks and who has them, links and where they are kept.           *)
(***************************************************************************)
EXTENDS CrawlMasterProofs

-----------------------------------------------------------------------------
(* Jobs and the triggers that create them.                                  *)

(* Faults are only ever counted up.                                         *)
LEMMA FaultsGrow ==
  ASSUME TypeInv, [Next]_vars
  PROVE  faults' = faults \/ faults' = faults + 1
  <1>1. ASSUME Trigger PROVE faults' = faults \/ faults' = faults + 1
    BY <1>1 DEF Trigger, TriggerStep, FindDomain, CheckActive, CreateJob, SeedQueue,
       AbortTrigger
  <1>2. ASSUME NEW h \in Handler, PollStep(h) \/ PollCancelled(h) PROVE faults' = faults
    BY <1>2 DEF PollStep, ScanJob, PollEmpty, ClaimTasks, PollCancelled, trVars
  <1>3. ASSUME NEW h \in Handler, SubmitStep(h)
        PROVE  faults' = faults \/ faults' = faults + 1
    BY <1>3 DEF SubmitStep, MarkItem, SaveResult, EnqueueLinks, CountPages, CountFault
  <1>4. ASSUME NEW h \in Handler, PollStatementFails(h) \/ SubmitCancelled(h)
        PROVE  faults' = faults + 1
    BY <1>4 DEF PollStatementFails, SubmitCancelled
  <1>5. ASSUME NEW w \in Worker, WorkerStep(w) \/ WorkerLost(w) PROVE faults' = faults
    BY <1>5 DEF WorkerStep, Poll, Fetch, Submit, SubmitRejected, WorkerLost, trVars
  <1>6. ASSUME NEW d \in Removable, DeleteDomain(d) PROVE faults' = faults
    BY <1>6 DEF DeleteDomain
  <1>7. ASSUME NEW old \in SUBSET Present(rec), ReclaimStale(old) PROVE faults' = faults
    BY <1>7 DEF ReclaimStale
  <1>8. ServerRestart => faults' = faults + 1
    BY DEF ServerRestart
  <1>9. UNCHANGED vars => faults' = faults
    BY DEF vars
  <1> QED
    BY <1>1, <1>2, <1>3, <1>4, <1>5, <1>6, <1>7, <1>8, <1>9 DEF Next

(* What a step does to the table of jobs and to the triggers.               *)
LEMMA TriggerMoves ==
  ASSUME TypeInv, [Next]_vars
  PROVE  \/ UNCHANGED <<jobs, tr>>
         \/ UNCHANGED tr /\ \E h \in Handler, ok \in BOOLEAN : CountPages(h, ok)
         \/ UNCHANGED jobs /\ faults' = faults + 1
            /\ \A c \in Caller : tr'[c] = tr[c] \/ tr'[c] = NoTrigger
         \/ \E c \in Caller :
              (\E d \in Domain : FindDomain(c, d)) \/ CheckActive(c)
              \/ CreateJob(c) \/ SeedQueue(c)
  <1>1. ASSUME Trigger
        PROVE  \/ UNCHANGED jobs /\ faults' = faults + 1
                  /\ \A c \in Caller : tr'[c] = tr[c] \/ tr'[c] = NoTrigger
               \/ \E c \in Caller :
                    (\E d \in Domain : FindDomain(c, d)) \/ CheckActive(c)
                    \/ CreateJob(c) \/ SeedQueue(c)
    BY <1>1 DEF Trigger, TriggerStep, AbortTrigger, TypeInv, TypeOK, TrTypeOK
  <1>2. ASSUME NEW d \in Removable, DeleteDomain(d) PROVE UNCHANGED <<jobs, tr>>
    BY <1>2 DEF DeleteDomain
  <1>3. ASSUME NEW h \in Handler,
               PollStep(h) \/ PollStatementFails(h) \/ PollCancelled(h) \/ SubmitCancelled(h)
        PROVE  UNCHANGED <<jobs, tr>>
    BY <1>3 DEF PollStep, ScanJob, PollEmpty, ClaimTasks, PollStatementFails,
       PollCancelled, SubmitCancelled, trVars
  <1>4. ASSUME NEW h \in Handler, SubmitStep(h)
        PROVE  \/ UNCHANGED <<jobs, tr>>
               \/ UNCHANGED tr /\ \E ok \in BOOLEAN : CountPages(h, ok)
    BY <1>4 DEF SubmitStep, MarkItem, SaveResult, EnqueueLinks, CountPages
  <1>5. ASSUME NEW w \in Worker, WorkerStep(w) \/ WorkerLost(w)
        PROVE  UNCHANGED <<jobs, tr>>
    BY <1>5 DEF WorkerStep, Poll, Fetch, Submit, SubmitRejected, WorkerLost, trVars
  <1>6. ASSUME NEW old \in SUBSET Present(rec), ReclaimStale(old)
        PROVE  UNCHANGED <<jobs, tr>>
    BY <1>6 DEF ReclaimStale
  <1>7. ASSUME ServerRestart
        PROVE  UNCHANGED jobs /\ faults' = faults + 1
               /\ \A c \in Caller : tr'[c] = tr[c] \/ tr'[c] = NoTrigger
    BY <1>7 DEF ServerRestart
  <1> QED
    BY <1>1, <1>2, <1>3, <1>4, <1>5, <1>6, <1>7 DEF Next, vars

(* What CreateJob makes of the table.                                       *)
LEMMA JobCreated ==
  ASSUME TypeInv, NEW c \in Caller, CreateJob(c), NEW j, j = Len(jobs) + 1
  PROVE  /\ DOMAIN jobs' = DOMAIN jobs \cup {j} /\ j \notin DOMAIN jobs
         /\ jobs'[j].dom = tr[c].dom /\ jobs'[j].status = "running"
         /\ \A i \in DOMAIN jobs : jobs'[i] = jobs[i]
         /\ \A b \in Caller \ {c} : tr'[b] = tr[b]
         /\ tr'[c].pc = "seed" /\ tr'[c].job = j /\ tr'[c].dom = tr[c].dom
  <1> DEFINE row == [dom |-> tr[c].dom, status |-> "running", pages |-> 0]
             new == [tr[c] EXCEPT !.pc = "seed", !.job = Len(jobs) + 1]
  <1>1. jobs \in Seq(JobRow) /\ tr[c] \in TriggerState /\ tr \in [Caller -> TriggerState]
    BY DEF TypeInv, TypeOK, TrTypeOK
  <1>2. row \in JobRow
    BY DEF CreateJob, TypeInv, Refs, TriggerRefs, JobRow
  <1>3. jobs' = Append(jobs, row) /\ tr' = [tr EXCEPT ![c] = new]
    BY DEF CreateJob
  <1>4. new.pc = "seed" /\ new.job = Len(jobs) + 1 /\ new.dom = tr[c].dom
    BY <1>1 DEF TriggerState
  <1> HIDE DEF row, new
  <1>5. /\ DOMAIN jobs' = DOMAIN jobs \cup {Len(jobs) + 1}
        /\ Len(jobs) + 1 \notin DOMAIN jobs
    BY <1>1, <1>2, <1>3
  <1>6. /\ jobs'[Len(jobs) + 1] = row
        /\ \A i \in DOMAIN jobs : jobs'[i] = jobs[i]
    BY <1>1, <1>2, <1>3, AppendJob
  <1>7. tr'[c] = new /\ \A b \in Caller \ {c} : tr'[b] = tr[b]
    BY <1>1, <1>3
  <1>8. row.dom = tr[c].dom /\ row.status = "running"
    BY DEF row
  <1> QED
    BY <1>4, <1>5, <1>6, <1>7, <1>8

LEMMA SeededStep == TypeInv /\ JobsSeeded /\ [Next]_vars => JobsSeeded'
  <1> SUFFICES ASSUME TypeInv, JobsSeeded, [Next]_vars, faults' = 0,
                      NEW j \in DOMAIN jobs'
               PROVE  \/ SeedKey(jobs'[j].dom) \in Present(rec')
                      \/ \E c \in Caller : /\ tr'[c].pc = "seed" /\ tr'[c].job = j
                                           /\ tr'[c].dom = jobs'[j].dom
    BY DEF JobsSeeded
  <1>0. faults = 0 /\ faults' # faults + 1
    BY FaultsGrow, TriggerAssumption DEF TypeInv, TypeOK, TrTypeOK
  <1>t. tr \in [Caller -> TriggerState]
    BY DEF TypeInv, TypeOK, TrTypeOK
  <1>1. CASE j \notin DOMAIN jobs
    <2>1. ASSUME NEW h \in Handler, NEW ok \in BOOLEAN, CountPages(h, ok)
          PROVE  DOMAIN jobs' = DOMAIN jobs
      BY <2>1 DEF CountPages
    <2>2. PICK c \in Caller : CreateJob(c)
      BY <1>0, <1>1, <2>1, TriggerMoves DEF FindDomain, CheckActive, SeedQueue
    <2>3. /\ DOMAIN jobs' = DOMAIN jobs \cup {Len(jobs) + 1}
          /\ jobs'[Len(jobs) + 1].dom = tr[c].dom
          /\ tr'[c].pc = "seed" /\ tr'[c].job = Len(jobs) + 1 /\ tr'[c].dom = tr[c].dom
      BY <2>2, JobCreated
    <2>4. j = Len(jobs) + 1
      BY <1>1, <2>3
    <2> QED
      BY <2>3, <2>4
  <1>2. CASE j \in DOMAIN jobs
    <2>1. jobs'[j].dom = jobs[j].dom
      BY <1>2, JobsGrow
    <2>2. CASE SeedKey(jobs[j].dom) \in Present(rec)
      BY <2>1, <2>2, GrowthStep DEF Grows
    <2>3. ASSUME NEW c \in Caller, tr[c].pc = "seed", tr[c].job = j,
                 tr[c].dom = jobs[j].dom
          PROVE  \/ SeedKey(jobs'[j].dom) \in Present(rec')
                 \/ tr'[c] = tr[c]
      <3>1. CASE SeedQueue(c)
        <4>1. jobs[j].dom \in Domain
          BY <1>2, JobTable
        <4>2. SeedKey(jobs[j].dom) \in Key
          BY <4>1, UrlQueueAssumption DEF SeedKey, Key
        <4>3. rec' = Enqueue(rec, jobs[j].dom, j, {Seed[jobs[j].dom]}, [u \in Url |-> 0])
          BY <2>3, <3>1 DEF SeedQueue, SeedRow
        <4>4. rec'[SeedKey(jobs[j].dom)].st # "none"
          BY <4>2, <4>3 DEF Enqueue, SeedKey
        <4> QED
          BY <2>1, <4>2, <4>4 DEF Present
      <3>2. ASSUME NEW b \in Caller, b # c,
                   (\E d \in Domain : FindDomain(b, d)) \/ CheckActive(b)
                   \/ CreateJob(b) \/ SeedQueue(b)
            PROVE  tr'[c] = tr[c]
        BY <1>t, <3>2 DEF FindDomain, CheckActive, CreateJob, SeedQueue
      <3>3. ~CheckActive(c) /\ ~CreateJob(c) /\ \A d \in Domain : ~FindDomain(c, d)
        BY <2>3 DEF CheckActive, CreateJob, FindDomain
      <3> QED
        BY <1>0, <3>1, <3>2, <3>3, TriggerMoves
    <2> QED
      BY <1>0, <1>2, <2>1, <2>2, <2>3 DEF JobsSeeded
  <1> QED
    BY <1>1, <1>2

(* JobsSeeded: without a fault every job has its seed URL in the queue or is about
   to get it, whoever triggers what meanwhile (usecases.go:108-133). *)
THEOREM Seeded == Spec => []JobsSeeded
  <1>1. Init => JobsSeeded
    BY DEF Init, TrInit, JobsSeeded
  <1> QED
    BY <1>1, TypeInvariant, SeededStep, PTL DEF Spec
-----------------------------------------------------------------------------
(* How many jobs of a domain may be active.                                 *)

Creating(d) == {c \in Caller : tr[c].pc = "create" /\ tr[c].dom = d}

(* Whoever is about to create a job looked when there was none, so all active
   jobs were created by different callers. *)
JobsAndCreators ==
  \A d \in Domain :
    Cardinality(Unfinished(d)) + Cardinality(Creating(d)) <= Cardinality(Caller)

LEMMA CountsFinite ==
  ASSUME NEW A \in SUBSET (1..MaxJobs), NEW C \in SUBSET Caller
  PROVE  /\ IsFiniteSet(A) /\ Cardinality(A) \in Nat
         /\ IsFiniteSet(C) /\ Cardinality(C) \in Nat
         /\ Cardinality(C) <= Cardinality(Caller)
  <1>1. IsFiniteSet(1..MaxJobs) /\ IsFiniteSet(Caller)
    BY UrlQueueAssumption, TriggerAssumption, FS_Interval
  <1> QED
    BY <1>1, FS_Subset, FS_CardinalityType

LEMMA CreatorsStep == TypeInv /\ JobsAndCreators /\ [Next]_vars => JobsAndCreators'
  <1> SUFFICES ASSUME TypeInv, JobsAndCreators, [Next]_vars, NEW d \in Domain
               PROVE  Cardinality(Unfinished(d)') + Cardinality(Creating(d)')
                        <= Cardinality(Caller)
    BY DEF JobsAndCreators
  <1> DEFINE U == Unfinished(d)
             C == Creating(d)
             U1 == Unfinished(d)'
             C1 == Creating(d)'
             n == Cardinality(Caller)
  <1>i. Cardinality(U) + Cardinality(C) <= n
    BY DEF JobsAndCreators
  <1>t. TypeInv' /\ tr \in [Caller -> TriggerState] /\ n \in Nat
    BY TypeStep, TriggerAssumption, FS_CardinalityType DEF TypeInv, TypeOK, TrTypeOK
  <1>s. /\ U \in SUBSET (1..MaxJobs) /\ U1 \in SUBSET (1..MaxJobs)
        /\ C \in SUBSET Caller /\ C1 \in SUBSET Caller
    <2>1. DOMAIN jobs \subseteq 1..MaxJobs
      BY JobTable DEF JobId
    <2>2. DOMAIN jobs' = 1..Len(jobs') /\ Len(jobs') \in Nat /\ Len(jobs') <= MaxJobs
      BY <1>t DEF TypeInv, TypeOK, TrTypeOK
    <2>3. DOMAIN jobs' \subseteq 1..MaxJobs
      BY <2>2, UrlQueueAssumption
    <2> QED
      BY <2>1, <2>3 DEF Unfinished, Creating
  <1>f. /\ IsFiniteSet(U) /\ Cardinality(U) \in Nat
        /\ IsFiniteSet(C) /\ Cardinality(C) \in Nat
        /\ Cardinality(U1) \in Nat /\ Cardinality(C1) \in Nat /\ Cardinality(C1) <= n
    BY <1>s, CountsFinite
  <1>r. \A j \in DOMAIN jobs : jobs[j] \in JobRow
    BY DEF TypeInv, TypeOK, TrTypeOK
  <1>1. ASSUME U1 \subseteq U, C1 \subseteq C
        PROVE  Cardinality(U1) + Cardinality(C1) <= n
    <2>1. Cardinality(U1) <= Cardinality(U) /\ Cardinality(C1) <= Cardinality(C)
      BY <1>1, <1>f, FS_Subset
    <2> HIDE DEF U, C, U1, C1, n
    <2> QED
      BY <1>i, <1>t, <1>f, <2>1
  <1>2. ASSUME UNCHANGED jobs, \A c \in Caller : tr'[c] = tr[c] \/ tr'[c].pc # "create"
        PROVE  Cardinality(U1) + Cardinality(C1) <= n
    <2>1. U1 \subseteq U /\ C1 \subseteq C
      BY <1>2 DEF Unfinished, Creating
    <2> QED
      BY <1>1, <2>1
  <1>3. ASSUME NEW h \in Handler, NEW ok \in BOOLEAN, CountPages(h, ok), UNCHANGED tr
        PROVE  Cardinality(U1) + Cardinality(C1) <= n
    <2>1. /\ DOMAIN jobs' = DOMAIN jobs
          /\ \A j \in DOMAIN jobs : /\ jobs'[j].dom = jobs[j].dom
                                    /\ jobs'[j].status = jobs[j].status
      BY <1>3, <1>r DEF CountPages, JobRow
    <2>2. U1 \subseteq U /\ C1 \subseteq C
      BY <1>3, <2>1 DEF Unfinished, Creating
    <2> QED
      BY <1>1, <2>2
  <1>4. ASSUME NEW c \in Caller, CheckActive(c)
        PROVE  Cardinality(U1) + Cardinality(C1) <= n
    <2>1. \A b \in Caller : b # c => tr'[b] = tr[b]
      BY <1>t, <1>4 DEF CheckActive
    <2>2. tr[c] \in TriggerState /\ UNCHANGED jobs
      BY <1>t, <1>4 DEF CheckActive
    <2>3. CASE ActiveJobs(jobs, tr[c].dom) = {} /\ tr[c].dom = d
      <3>1. U1 = {}
        BY <1>r, <2>2, <2>3 DEF Unfinished, ActiveJobs, JobRow
      <3>2. Cardinality(U1) = 0
        BY <3>1, FS_EmptySet
      <3> HIDE DEF U, C, U1, C1, n
      <3> QED
        BY <1>f, <1>t, <3>2
    <2>4. CASE ActiveJobs(jobs, tr[c].dom) = {} /\ tr[c].dom # d
      <3>1. tr'[c].dom = tr[c].dom
        BY <1>t, <1>4, <2>2, <2>4 DEF CheckActive, TriggerState
      <3>2. U1 \subseteq U /\ C1 \subseteq C
        BY <2>1, <2>2, <2>4, <3>1 DEF Unfinished, Creating
      <3> QED
        BY <1>1, <3>2
    <2>5. CASE ActiveJobs(jobs, tr[c].dom) # {}
      <3>1. tr'[c].pc # "create"
        BY <1>t, <1>4, <2>5 DEF CheckActive, NoTrigger
      <3> QED
        BY <1>2, <2>1, <2>2, <3>1
    <2> QED
      BY <2>3, <2>4, <2>5
  <1>5. ASSUME NEW c \in Caller, CreateJob(c)
        PROVE  Cardinality(U1) + Cardinality(C1) <= n
    <2> DEFINE j == Len(jobs) + 1
    <2>1. /\ DOMAIN jobs' = DOMAIN jobs \cup {j} /\ j \notin DOMAIN jobs
          /\ jobs'[j].dom = tr[c].dom /\ jobs'[j].status = "running"
          /\ \A i \in DOMAIN jobs : jobs'[i] = jobs[i]
          /\ \A b \in Caller \ {c} : tr'[b] = tr[b]
          /\ tr'[c].pc = "seed"
      BY <1>5, JobCreated
    <2> HIDE DEF j
    <2>2. CASE tr[c].dom # d
      <3>1. U1 \subseteq U /\ C1 \subseteq C
        BY <2>1, <2>2 DEF Unfinished, Creating
      <3> QED
        BY <1>1, <3>1
    <2>3. CASE tr[c].dom = d
      <3>1. U1 = U \cup {j} /\ j \notin U
        BY <2>1, <2>3 DEF Unfinished
      <3>2. c \in C /\ C1 = C \ {c}
        BY <1>5, <2>1, <2>3 DEF Creating, CreateJob
      <3>3. Cardinality(U1) = Cardinality(U) + 1
        BY <1>f, <3>1, FS_AddElement
      <3>4. Cardinality(C1) = Cardinality(C) - 1
        BY <1>f, <3>2, FS_RemoveElement
      <3> HIDE DEF U, C, U1, C1, n
      <3> QED
        BY <1>f, <1>t, <1>i, <3>3, <3>4
    <2> QED
      BY <2>2, <2>3
  <1>6. ASSUME NEW c \in Caller, (\E e \in Domain : FindDomain(c, e)) \/ SeedQueue(c)
        PROVE  Cardinality(U1) + Cardinality(C1) <= n
    <2>1. /\ UNCHANGED jobs
          /\ \A b \in Caller : tr'[b] = tr[b] \/ tr'[b].pc # "create"
      BY <1>t, <1>6 DEF FindDomain, SeedQueue, NoTrigger
    <2> QED
      BY <1>2, <2>1
  <1>7. CASE UNCHANGED jobs /\ \A c \in Caller : tr'[c] = tr[c] \/ tr'[c] = NoTrigger
    BY <1>2, <1>7 DEF NoTrigger
  <1> QED
    BY <1>2, <1>3, <1>4, <1>5, <1>6, <1>7, TriggerMoves

(* ActiveJobsBounded: FindActive and Create are two statements, but overlapping
   triggers never leave more active jobs than callers (usecases.go:100-106). *)
THEOREM ActiveBounded == Spec => []ActiveJobsBounded
  <1>1. Init => JobsAndCreators
    <2> SUFFICES ASSUME Init, NEW d \in Domain
                 PROVE  Cardinality(Unfinished(d)) + Cardinality(Creating(d))
                          <= Cardinality(Caller)
      BY DEF JobsAndCreators
    <2>1. Unfinished(d) = {} /\ Creating(d) = {}
      BY DEF Init, TrInit, Unfinished, Creating, NoTrigger
    <2>2. Cardinality(Caller) \in Nat
      BY TriggerAssumption, FS_CardinalityType
    <2> QED
      BY <2>1, <2>2, FS_EmptySet
  <1>2. TypeInv /\ JobsAndCreators => ActiveJobsBounded
    <2> SUFFICES ASSUME TypeInv, JobsAndCreators, NEW d \in Domain
                 PROVE  Cardinality(Unfinished(d)) <= Cardinality(Caller)
      BY DEF ActiveJobsBounded
    <2>1. Unfinished(d) \in SUBSET (1..MaxJobs) /\ Creating(d) \in SUBSET Caller
      BY JobTable DEF Unfinished, Creating, JobId
    <2>2. /\ Cardinality(Unfinished(d)) \in Nat /\ Cardinality(Creating(d)) \in Nat
          /\ Cardinality(Caller) \in Nat
      BY <2>1, CountsFinite, TriggerAssumption, FS_CardinalityType
    <2> QED
      BY <2>2 DEF JobsAndCreators
  <1> QED
    BY <1>1, <1>2, TypeInvariant, CreatorsStep, PTL DEF Spec

-----------------------------------------------------------------------------
(* Who has a task.                                                          *)

(* Task k is at place p of worker or submit handler a, with outcome o: still to
   be fetched, fetched, handed in, or about to be stored. *)
Has(k, p, a, o) ==
  \/ p = "todo" /\ o = "none" /\ a \in Worker /\ k \in wk[a].todo
  \/ p = "got" /\ a \in Worker /\ [key |-> k, out |-> o] \in wk[a].got
  \/ p = "item" /\ a \in Handler /\ [key |-> k, out |-> o] \in sub[a].items
  \/ p = "save" /\ a \in Handler /\ [key |-> k, out |-> o] \in sub[a].cur

(* A task is at one place at most.  Until its result is handed in its row stays
   in progress, and until it is stored there is none in crawl_results; a row
   that nobody was ever given has neither. *)
Custody(k) ==
  /\ \A p, a, o, q, b, e :
       Has(k, p, a, o) /\ Has(k, q, b, e) => p = q /\ a = b /\ o = e
  /\ \A p, a, o : Has(k, p, a, o) =>
       /\ Stored(k) = 0
       /\ \/ rec[k].st = "in_progress"
          \/ p = "save" /\ rec[k].st \notin {"none", "pending"}
  /\ rec[k].st \in {"none", "pending"} => Stored(k) = 0
  /\ Stored(k) <= 1

Custodies == \A k \in Key \ reclaimed : Custody(k)

(* A step that hands on nothing keeps custody.                              *)
LEMMA CustodyKept ==
  ASSUME NEW k, Custody(k), results'[k] = results[k],
         \/ rec'[k].st = rec[k].st
         \/ rec[k].st = "none" /\ rec'[k].st = "pending",
         \A p, a, o : Has(k, p, a, o)' => Has(k, p, a, o)
  PROVE  Custody(k)'
  BY DEF Custody, Stored

(* Items are pairs of a key and an outcome.                                 *)
LEMMA ItemPair ==
  ASSUME NEW i \in Item
  PROVE  i = [key |-> i.key, out |-> i.out]
  BY DEF Item

(* Nobody takes anything in hand.                                           *)
HandsShrink ==
  /\ \A w \in Worker : wk'[w].todo \subseteq wk[w].todo /\ wk'[w].got \subseteq wk[w].got
  /\ \A h \in Handler : /\ sub'[h].items \subseteq sub[h].items
                        /\ sub'[h].cur \subseteq sub[h].cur

(* No row changes its status but those the ticker takes back and new ones.  *)
RowsStay ==
  \A k \in Key \ reclaimed' :
    \/ rec'[k].st = rec[k].st
    \/ rec[k].st = "none" /\ rec'[k].st = "pending"

LEMMA CustodyCalm ==
  ASSUME Custodies, HandsShrink, RowsStay, UNCHANGED results,
         reclaimed \subseteq reclaimed'
  PROVE  Custodies'
  <1> SUFFICES ASSUME NEW k \in Key \ reclaimed' PROVE Custody(k)'
    BY DEF Custodies
  <1>1. Custody(k)
    BY DEF Custodies
  <1>2. \A p, a, o : Has(k, p, a, o)' => Has(k, p, a, o)
    BY DEF HandsShrink, Has
  <1>3. \/ rec'[k].st = rec[k].st
        \/ rec[k].st = "none" /\ rec'[k].st = "pending"
    BY DEF RowsStay
  <1> QED
    BY <1>1, <1>2, <1>3, CustodyKept

(* A submit handler goes on as s.                                           *)
LEMMA ProceedHands ==
  ASSUME TypeInv, NEW h \in Handler, NEW s, Proceed(h, s)
  PROVE  /\ \A w \in Worker : wk'[w] = wk[w] \/ wk'[w] = IdleWorker
         /\ \A g \in Handler : g # h => sub'[g] = sub[g]
         /\ sub'[h] = s \/ sub'[h] = IdleSubmit
  <1>1. sub \in [Handler -> SubmitState]
    BY DEF TypeInv, TypeOK
  <1> QED
    BY <1>1 DEF Proceed

(* Inserting rows changes no status but that of the new ones.               *)
LEMMA EnqueueStays ==
  ASSUME NEW d, NEW j, NEW us, NEW depth, rec' = Enqueue(rec, d, j, us, depth)
  PROVE  RowsStay
  BY DEF RowsStay, Enqueue

(* The steps that neither hand out nor settle a task.                       *)
LEMMA CustodyOther ==
  ASSUME TypeInv, Hands, Custodies, [Next]_vars,
         \/ Trigger /\ UNCHANGED crawlVars
         \/ \E d \in Removable : DeleteDomain(d) /\ UNCHANGED crawlVars
         \/ \E h \in Handler : ScanJob(h) \/ PollEmpty(h) \/ PollStatementFails(h)
                               \/ PollCancelled(h) \/ SubmitCancelled(h)
         \/ \E w \in Worker : WorkerLost(w) \/ SubmitRejected(w)
                              \/ \E h \in Handler : Poll(w, h)
         \/ \E old \in SUBSET Present(rec) : ReclaimStale(old)
         \/ ServerRestart
         \/ UNCHANGED vars
  PROVE  Custodies'
  <1>t. /\ wk \in [Worker -> WorkerState] /\ sub \in [Handler -> SubmitState]
        /\ rec \in [Key -> Row]
    BY DEF TypeInv, TypeOK, TrTypeOK
  <1>1. wk' = wk /\ sub' = sub => HandsShrink
    BY DEF HandsShrink
  <1>2. rec' = rec => RowsStay
    BY DEF RowsStay
  <1>3. CASE Trigger /\ UNCHANGED crawlVars
    <2>1. HandsShrink /\ UNCHANGED <<results, reclaimed>>
      BY <1>1, <1>3 DEF crawlVars
    <2>2. ASSUME NEW c \in Caller, SeedQueue(c) PROVE RowsStay
      BY <2>2, EnqueueStays DEF SeedQueue, SeedRow
    <2>3. RowsStay
      BY <1>2, <1>3, <2>2 DEF Trigger, TriggerStep, FindDomain, CheckActive, CreateJob,
         AbortTrigger
    <2> QED
      BY <2>1, <2>3, CustodyCalm
  <1>4. CASE \E d \in Removable : DeleteDomain(d) /\ UNCHANGED crawlVars
    BY <1>1, <1>2, <1>4, CustodyCalm DEF DeleteDomain, crawlVars
  <1>5. ASSUME NEW h \in Handler,
               ScanJob(h) \/ PollStatementFails(h) \/ PollCancelled(h)
        PROVE  Custodies'
    BY <1>1, <1>2, <1>5, CustodyCalm
       DEF ScanJob, PollStatementFails, PollCancelled, trVars
  <1>6. ASSUME NEW h \in Handler, PollEmpty(h) PROVE Custodies'
    <2>1. HandsShrink
      BY <1>6 DEF HandsShrink, PollEmpty, IdleWorker
    <2> QED
      BY <1>2, <1>6, <2>1, CustodyCalm DEF PollEmpty, trVars
  <1>7. ASSUME NEW h \in Handler, SubmitCancelled(h) PROVE Custodies'
    <2>1. HandsShrink
      BY <1>t, <1>7 DEF HandsShrink, SubmitCancelled, IdleSubmit
    <2> QED
      BY <1>2, <1>7, <2>1, CustodyCalm DEF SubmitCancelled
  <1>8. ASSUME NEW w \in Worker, WorkerLost(w) PROVE Custodies'
    <2>1. \A h \in Handler : [sub[h] EXCEPT !.client = None].items = sub[h].items
                             /\ [sub[h] EXCEPT !.client = None].cur = sub[h].cur
      BY <1>t DEF SubmitState
    <2>2. HandsShrink
      BY <1>t, <1>8, <2>1 DEF HandsShrink, WorkerLost, IdleWorker
    <2> QED
      BY <1>2, <1>8, <2>2, CustodyCalm DEF WorkerLost, trVars
  <1>9. ASSUME NEW w \in Worker, SubmitRejected(w) PROVE Custodies'
    <2>1. HandsShrink
      BY <1>t, <1>9 DEF HandsShrink, SubmitRejected, IdleWorker
    <2> QED
      BY <1>2, <1>9, <2>1, CustodyCalm DEF SubmitRejected, trVars
  <1>10. ASSUME NEW w \in Worker, NEW h \in Handler, Poll(w, h) PROVE Custodies'
    <2>1. /\ [wk[w] EXCEPT !.pc = "polling"].todo = wk[w].todo
          /\ [wk[w] EXCEPT !.pc = "polling"].got = wk[w].got
      BY <1>t DEF WorkerState
    <2>2. HandsShrink
      BY <1>t, <1>10, <2>1 DEF HandsShrink, Poll
    <2> QED
      BY <1>2, <1>10, <2>2, CustodyCalm DEF Poll, trVars
  <1>11. ASSUME NEW old \in SUBSET Present(rec), ReclaimStale(old) PROVE Custodies'
    <2>1. RowsStay
      BY <1>t, <1>11 DEF RowsStay, ReclaimStale, Reclaim
    <2> QED
      BY <1>1, <1>11, <2>1, CustodyCalm DEF ReclaimStale
  <1>12. CASE ServerRestart
    <2>1. HandsShrink
      BY <1>12 DEF HandsShrink, ServerRestart, IdleSubmit, IdleWorker
    <2> QED
      BY <1>2, <1>12, <2>1, CustodyCalm DEF ServerRestart
  <1>13. CASE UNCHANGED vars
    BY <1>1, <1>2, <1>13, CustodyCalm DEF vars
  <1> QED
    BY <1>3, <1>4, <1>5, <1>6, <1>7, <1>8, <1>9, <1>10, <1>11, <1>12, <1>13

(* A poll hands out rows that are pending, so that nobody has them.         *)
LEMMA CustodyClaim ==
  ASSUME TypeInv, Custodies, NEW h \in Handler, ClaimTasks(h)
  PROVE  Custodies'
  <1>t. wk \in [Worker -> WorkerState] /\ rec \in [Key -> Row]
    BY DEF TypeInv, TypeOK, TrTypeOK
  <1>1. PICK S \in Batches(rec, poll[h].job, poll[h].cap) :
          /\ rec' = Claim(rec, S)
          /\ \A w \in Worker :
               \/ wk'[w] = wk[w]
               \/ poll[h].client = w /\ wk'[w].todo = S /\ wk'[w].got = {}
    BY DEF ClaimTasks
  <1>2. UNCHANGED <<results, reclaimed, sub>>
    BY DEF ClaimTasks
  <1>3. \A k \in S : k \in Key /\ rec[k].st = "pending"
    BY DEF Batches, PendingOf, WithStatus
  <1> SUFFICES ASSUME NEW k \in Key \ reclaimed PROVE Custody(k)'
    BY <1>2 DEF Custodies
  <1>4. Custody(k)
    BY DEF Custodies
  <1>5. CASE k \in S
    <2>1. /\ \A p, a, o : ~Has(k, p, a, o)
          /\ Stored(k) = 0
      BY <1>3, <1>4, <1>5 DEF Custody
    <2>2. ASSUME NEW p, NEW a, NEW o, Has(k, p, a, o)'
          PROVE  p = "todo" /\ a = poll[h].client /\ o = "none"
      BY <1>1, <1>2, <2>1, <2>2 DEF Has
    <2>3. rec'[k].st = "in_progress"
      BY <1>t, <1>1, <1>5 DEF Claim, Row
    <2>4. Stored(k)' = 0
      BY <1>2, <2>1 DEF Stored
    <2> QED
      BY <2>2, <2>3, <2>4 DEF Custody
  <1>6. CASE k \notin S
    <2>1. ASSUME NEW p, NEW a, NEW o, Has(k, p, a, o)' PROVE Has(k, p, a, o)
      BY <1>1, <1>2, <1>6, <2>1 DEF Has
    <2>2. rec'[k].st = rec[k].st
      BY <1>1, <1>6 DEF Claim
    <2> QED
      BY <1>2, <1>4, <2>1, <2>2, CustodyKept
  <1> QED
    BY <1>5, <1>6

(* A worker fetches a URL of its batch.                                     *)
LEMMA CustodyFetch ==
  ASSUME TypeInv, Custodies, NEW w \in Worker, NEW q \in wk[w].todo,
         NEW out \in Outcome, Fetch(w, q, out)
  PROVE  Custodies'
  <1>t. wk \in [Worker -> WorkerState]
    BY DEF TypeInv, TypeOK
  <1>1. UNCHANGED <<results, reclaimed, sub, rec>>
    BY DEF Fetch, trVars
  <1>2. /\ wk'[w].todo = wk[w].todo \ {q}
        /\ wk'[w].got = wk[w].got \cup {[key |-> q, out |-> out]}
        /\ \A v \in Worker : v # w => wk'[v] = wk[v]
    BY <1>t DEF Fetch, WorkerState
  <1> SUFFICES ASSUME NEW k \in Key \ reclaimed PROVE Custody(k)'
    BY <1>1 DEF Custodies
  <1>3. Custody(k)
    BY DEF Custodies
  <1>4. ASSUME NEW p, NEW a, NEW o, Has(k, p, a, o)'
        PROVE  \/ Has(k, p, a, o) /\ ~(p = "todo" /\ a = w /\ k = q)
               \/ k = q /\ p = "got" /\ a = w /\ o = out
    BY <1>1, <1>2, <1>4 DEF Has
  <1>5. CASE k # q
    BY <1>1, <1>3, <1>4, <1>5, CustodyKept
  <1>6. CASE k = q
    <2>1. Has(k, "todo", w, "none")
      BY <1>6 DEF Has
    <2>2. rec'[k].st = "in_progress"
      BY <1>1, <1>3, <2>1 DEF Custody
    <2>3. ASSUME NEW p, NEW a, NEW o, Has(k, p, a, o)'
          PROVE  p = "got" /\ a = w /\ o = out
      BY <1>3, <1>4, <1>6, <2>1, <2>3 DEF Custody
    <2>4. Stored(k)' = 0
      BY <1>1, <1>3, <2>1 DEF Custody, Stored
    <2> QED
      BY <2>2, <2>3, <2>4 DEF Custody
  <1> QED
    BY <1>5, <1>6

(* A worker hands in its results.                                           *)
LEMMA CustodySubmit ==
  ASSUME TypeInv, Hands, Custodies, NEW w \in Worker, NEW h \in Handler, Submit(w, h)
  PROVE  Custodies'
  <1>t. wk \in [Worker -> WorkerState] /\ sub \in [Handler -> SubmitState]
    BY DEF TypeInv, TypeOK
  <1> DEFINE n == [IdleSubmit EXCEPT
               !.pc = "item", !.client = w, !.job = wk[w].job,
               !.items = wk[w].got, !.base = jobs[wk[w].job].pages]
  <1>n. n.items = wk[w].got /\ n.cur = {}
    BY DEF IdleSubmit
  <1>1. UNCHANGED <<results, reclaimed, rec>> /\ wk[w].todo = {}
    BY DEF Submit, trVars
  <1>2. /\ wk'[w].todo = {} /\ wk'[w].got = {}
        /\ \A v \in Worker : v # w => wk'[v] = wk[v]
    BY <1>t DEF Submit, WorkerState
  <1>3. sub' = [sub EXCEPT ![h] = n]
    BY DEF Submit
  <1> HIDE DEF n
  <1>4. /\ sub'[h].items = wk[w].got /\ sub'[h].cur = {}
        /\ \A g \in Handler : g # h => sub'[g] = sub[g]
    BY <1>t, <1>n, <1>3
  <1> SUFFICES ASSUME NEW k \in Key \ reclaimed PROVE Custody(k)'
    BY <1>1 DEF Custodies
  <1>5. Custody(k)
    BY DEF Custodies
  <1>6. ASSUME NEW p, NEW a, NEW o, Has(k, p, a, o)'
        PROVE  \/ Has(k, p, a, o) /\ ~(p = "got" /\ a = w)
               \/ Has(k, "got", w, o) /\ p = "item" /\ a = h
    BY <1>2, <1>4, <1>6 DEF Has
  <1>7. CASE \E o : Has(k, "got", w, o)
    <2>1. PICK o : Has(k, "got", w, o)
      BY <1>7
    <2>2. rec'[k].st = "in_progress"
      BY <1>1, <1>5, <2>1 DEF Custody
    <2>3. ASSUME NEW p, NEW a, NEW f, Has(k, p, a, f)'
          PROVE  p = "item" /\ a = h /\ f = o
      BY <1>5, <1>6, <2>1, <2>3 DEF Custody
    <2>4. Stored(k)' = 0
      BY <1>1, <1>5, <2>1 DEF Custody, Stored
    <2> QED
      BY <2>2, <2>3, <2>4 DEF Custody
  <1>8. CASE \A o : ~Has(k, "got", w, o)
    BY <1>1, <1>5, <1>6, <1>8, CustodyKept
  <1> QED
    BY <1>7, <1>8

(* A submit handler looks at a result: it is stored next, or it was an error. *)
LEMMA CustodyMark ==
  ASSUME TypeInv, Hands, Custodies, NEW h \in Handler, NEW i \in sub[h].items,
         NEW ok \in BOOLEAN, MarkItem(h, i, ok)
  PROVE  Custodies'
  <1>t. sub \in [Handler -> SubmitState] /\ rec \in [Key -> Row] /\ i \in Item
    BY DEF TypeInv, TypeOK, TrTypeOK, SubmitState
  <1>1. UNCHANGED <<results, reclaimed>>
    BY DEF MarkItem
  <1>2. PICK s : /\ Proceed(h, s) /\ s.items = sub[h].items \ {i}
                 /\ (s.cur = sub[h].cur \/ s.cur = {i})
    BY MarkMove
  <1>3. sub[h].cur = {}
    BY DEF MarkItem, Hands, SubmitHands
  <1>4. i = [key |-> i.key, out |-> i.out]
    BY <1>t, ItemPair
  <1> SUFFICES ASSUME NEW k \in Key \ reclaimed PROVE Custody(k)'
    BY <1>1 DEF Custodies
  <1>5. Custody(k)
    BY DEF Custodies
  <1>6. ASSUME NEW p, NEW a, NEW o, Has(k, p, a, o)'
        PROVE  \/ Has(k, p, a, o) /\ ~(p = "item" /\ a = h /\ k = i.key /\ o = i.out)
               \/ k = i.key /\ p = "save" /\ a = h /\ o = i.out
    <2>1. \A w \in Worker : wk'[w] = wk[w] \/ wk'[w] = IdleWorker
      BY <1>2, ProceedHands
    <2>2. \A g \in Handler : g # h => sub'[g] = sub[g]
      BY <1>2, ProceedHands
    <2>3. /\ sub'[h].items \subseteq sub[h].items \ {i}
          /\ sub'[h].cur \subseteq {i}
      BY <1>2, <1>3, ProceedHands DEF IdleSubmit
    <2> QED
      BY <1>4, <1>6, <2>1, <2>2, <2>3 DEF Has, IdleWorker
  <1>7. \/ rec'[k].st = rec[k].st
        \/ k = i.key /\ rec'[k].st \in {"done", "failed"}
    <2>1. Settled(i.out) \in {"done", "failed"}
      BY DEF Settled
    <2>2. rec' = rec \/ rec' = Mark(rec, i.key, Settled(i.out))
      BY DEF MarkItem
    <2> QED
      BY <1>t, <2>1, <2>2 DEF Mark, Row
  <1>8. CASE k # i.key
    BY <1>1, <1>5, <1>6, <1>7, <1>8, CustodyKept
  <1>9. CASE k = i.key
    <2>1. Has(k, "item", h, i.out)
      BY <1>4, <1>9 DEF Has
    <2>2. rec'[k].st \in {"in_progress", "done", "failed"}
      BY <1>5, <1>7, <2>1 DEF Custody
    <2>3. ASSUME NEW p, NEW a, NEW o, Has(k, p, a, o)'
          PROVE  p = "save" /\ a = h /\ o = i.out
      BY <1>5, <1>6, <1>9, <2>1, <2>3 DEF Custody
    <2>4. Stored(k)' = 0
      BY <1>1, <1>5, <2>1 DEF Custody, Stored
    <2> QED
      BY <2>2, <2>3, <2>4 DEF Custody
  <1> QED
    BY <1>8, <1>9

(* The result of a task is stored once.                                     *)
LEMMA CustodySave ==
  ASSUME TypeInv, Hands, Custodies, NEW h \in Handler, NEW i \in sub[h].cur,
         NEW ok \in BOOLEAN, SaveResult(h, i, ok)
  PROVE  Custodies'
  <1>t. /\ sub \in [Handler -> SubmitState] /\ results \in [Key -> ResultCount]
        /\ i \in Item
    BY DEF TypeInv, TypeOK, SubmitState
  <1>1. UNCHANGED <<rec, reclaimed>>
    BY DEF SaveResult
  <1>2. PICK s : Proceed(h, s) /\ s.items = sub[h].items /\ s.cur = {}
    BY SaveMove
  <1>3. i = [key |-> i.key, out |-> i.out]
    BY <1>t, ItemPair
  <1> SUFFICES ASSUME NEW k \in Key \ reclaimed PROVE Custody(k)'
    BY <1>1 DEF Custodies
  <1>4. Custody(k)
    BY DEF Custodies
  <1>5. ASSUME NEW p, NEW a, NEW o, Has(k, p, a, o)'
        PROVE  Has(k, p, a, o) /\ ~(p = "save" /\ a = h)
    <2>1. \A w \in Worker : wk'[w] = wk[w] \/ wk'[w] = IdleWorker
      BY <1>2, ProceedHands
    <2>2. \A g \in Handler : g # h => sub'[g] = sub[g]
      BY <1>2, ProceedHands
    <2>3. sub'[h].items \subseteq sub[h].items /\ sub'[h].cur = {}
      BY <1>2, ProceedHands DEF IdleSubmit
    <2> QED
      BY <1>5, <2>1, <2>2, <2>3 DEF Has, IdleWorker
  <1>6. CASE k # i.key
    <2>1. results'[k] = results[k]
      BY <1>t, <1>6 DEF SaveResult
    <2> QED
      BY <1>1, <1>4, <1>5, <2>1, CustodyKept
  <1>7. CASE k = i.key
    <2>1. Has(k, "save", h, i.out)
      BY <1>3, <1>7 DEF Has
    <2>2. /\ Stored(k) = 0 /\ rec[k].st \notin {"none", "pending"}
      BY <1>4, <2>1 DEF Custody
    <2>3. \A p, a, o : ~Has(k, p, a, o)'
      BY <1>4, <1>5, <2>1 DEF Custody
    <2>4. results[k].page = 0 /\ results[k].empty = 0 /\ results[k] \in ResultCount
      BY <1>t, <2>2 DEF Stored, ResultCount
    <2>5. \/ results'[k] = results[k]
          \/ results'[k] = [results[k] EXCEPT ![i.out] = @ + 1]
      BY <1>t, <1>7 DEF SaveResult
    <2>6. i.out \in {"err", "empty", "page"}
      BY <1>t, CrawlAssumption DEF Item
    <2>7. Stored(k)' <= 1
      BY <2>4, <2>5, <2>6 DEF Stored, ResultCount
    <2> QED
      BY <1>1, <2>2, <2>3, <2>7 DEF Custody
  <1> QED
    BY <1>6, <1>7

(* The links are inserted and the pages counted.                            *)
LEMMA CustodyLast ==
  ASSUME TypeInv, Custodies, NEW h \in Handler, NEW ok \in BOOLEAN,
         EnqueueLinks(h, ok) \/ CountPages(h, ok)
  PROVE  Custodies'
  <1>1. PICK s : Proceed(h, s) /\ s.items = sub[h].items /\ s.cur = sub[h].cur
    BY LastMoves
  <1>2. HandsShrink
    BY <1>1, ProceedHands DEF HandsShrink, IdleWorker, IdleSubmit
  <1>3. RowsStay
    <2>1. CASE rec' = rec
      BY <2>1 DEF RowsStay
    <2>2. CASE rec' # rec
      BY <2>2, EnqueueStays DEF EnqueueLinks, CountPages
    <2> QED
      BY <2>1, <2>2
  <1> QED
    BY <1>2, <1>3, CustodyCalm DEF EnqueueLinks, CountPages

LEMMA CustodyStep == TypeInv /\ Hands /\ Custodies /\ [Next]_vars => Custodies'
  <1> SUFFICES ASSUME TypeInv, Hands, Custodies, [Next]_vars PROVE Custodies'
    OBVIOUS
  <1>1. ASSUME NEW h \in Handler, PollStep(h) PROVE Custodies'
    BY <1>1, CustodyOther, CustodyClaim DEF PollStep
  <1>2. ASSUME NEW h \in Handler, SubmitStep(h) PROVE Custodies'
    BY <1>2, CustodyMark, CustodySave, CustodyLast DEF SubmitStep
  <1>3. ASSUME NEW w \in Worker, WorkerStep(w) PROVE Custodies'
    BY <1>3, CustodyOther, CustodyFetch, CustodySubmit DEF WorkerStep
  <1> QED
    BY <1>1, <1>2, <1>3, CustodyOther DEF Next

LEMMA CustodyInvariant == Spec => []Custodies
  <1>1. Init => Custodies
    BY DEF Init, TrInit, Custodies, Custody, Has, Stored, IdleWorker, IdleSubmit, NoRow
  <1> QED
    BY <1>1, TypeInvariant, HandsInvariant, CustodyStep, PTL DEF Spec

(* ExclusiveHandout: no two workers or handlers have a task, however requests
   overlap, get lost or fail (url_repo.go:44-74, usecases.go:279-307). *)
THEOREM Exclusive == Spec => []ExclusiveHandout
  <1>1. TypeInv /\ Custodies => ExclusiveHandout
    <2> SUFFICES ASSUME TypeInv, Custodies, NEW k \in Key \ reclaimed
                 PROVE  /\ \A v, w \in Worker :
                             k \in WorkerKeys(v) /\ k \in WorkerKeys(w) => v = w
                        /\ \A g, h \in Handler :
                             k \in SubmitKeys(g) /\ k \in SubmitKeys(h) => g = h
                        /\ \A w \in Worker, h \in Handler :
                             ~(k \in WorkerKeys(w) /\ k \in SubmitKeys(h))
      BY DEF ExclusiveHandout
    <2>1. Custody(k)
      BY DEF Custodies
    <2>2. ASSUME NEW w \in Worker, k \in WorkerKeys(w)
          PROVE  \E p, o : Has(k, p, w, o) /\ p \in {"todo", "got"}
      <3>1. CASE k \in wk[w].todo
        BY <3>1 DEF Has
      <3>2. ASSUME NEW i \in wk[w].got, k = i.key
            PROVE  Has(k, "got", w, i.out)
        BY <3>2, ItemPair DEF Has, TypeInv, TypeOK, WorkerState
      <3> QED
        BY <2>2, <3>1, <3>2 DEF WorkerKeys
    <2>3. ASSUME NEW h \in Handler, k \in SubmitKeys(h)
          PROVE  \E o : Has(k, "item", h, o)
      <3>1. PICK i \in sub[h].items : k = i.key
        BY <2>3 DEF SubmitKeys
      <3>2. i = [key |-> i.key, out |-> i.out]
        BY ItemPair DEF TypeInv, TypeOK, SubmitState
      <3>3. Has(k, "item", h, i.out)
        BY <3>1, <3>2 DEF Has
      <3> QED
        BY <3>3
    <2> QED
      BY <2>1, <2>2, <2>3 DEF Custody
  <1> QED
    BY <1>1, TypeInvariant, CustodyInvariant, PTL

(* OneResult: the queue keeps crawl_results to one row per URL, unless the ticker
   took the URL's task back (usecases.go:288-307). *)
THEOREM ResultOnce == Spec => []OneResult
  <1>1. TypeInv /\ Custodies => OneResult
    BY DEF Custodies, Custody, Stored, OneResult
  <1> QED
    BY <1>1, TypeInvariant, CustodyInvariant, PTL

(* No statement of this code takes a URL from done or failed back to pending, and
   only a late result may change the verdict: that of a task taken back
   (url_repo.go:36-105). *)
LEMMA VerdictStays ==
  ASSUME TypeInv, Custodies, [Next]_vars, NEW k \in Key,
         rec[k].st \in {"done", "failed"}
  PROVE  /\ rec'[k].st \in {"done", "failed"}
         /\ k \notin reclaimed => rec'[k].st = rec[k].st
  <1>t. rec \in [Key -> Row] /\ sub \in [Handler -> SubmitState]
    BY DEF TypeInv, TypeOK, TrTypeOK
  <1>1. ASSUME NEW c \in Caller, SeedQueue(c) PROVE rec'[k] = rec[k]
    BY <1>1 DEF SeedQueue, SeedRow, Enqueue
  <1>2. ASSUME NEW h \in Handler, ClaimTasks(h) PROVE rec'[k] = rec[k]
    BY <1>2 DEF ClaimTasks, Claim, Batches, PendingOf, WithStatus
  <1>3. ASSUME NEW h \in Handler, NEW ok \in BOOLEAN, NEW i \in sub[h].items,
               MarkItem(h, i, ok)
        PROVE  /\ rec'[k].st \in {"done", "failed"}
               /\ k \notin reclaimed => rec'[k].st = rec[k].st
    <2>1. i \in Item
      BY <1>t DEF SubmitState
    <2>2. \/ rec'[k] = rec[k]
          \/ k = i.key /\ rec'[k].st \in {"done", "failed"}
      BY <1>t, <1>3 DEF MarkItem, Mark, Settled, Row
    <2>3. k = i.key => Has(k, "item", h, i.out)
      BY <2>1, ItemPair DEF Has
    <2>4. k = i.key => k \in reclaimed
      BY <2>3 DEF Custodies, Custody
    <2> QED
      BY <2>2, <2>4
  <1>4. ASSUME NEW h \in Handler, NEW ok \in BOOLEAN, EnqueueLinks(h, ok)
        PROVE  rec'[k] = rec[k]
    BY <1>4 DEF EnqueueLinks, Enqueue
  <1>5. ASSUME NEW old \in SUBSET Present(rec), ReclaimStale(old)
        PROVE  rec'[k] = rec[k]
    BY <1>5 DEF ReclaimStale, Reclaim
  <1> QED
    BY <1>1, <1>2, <1>3, <1>4, <1>5, RecSteps

-----------------------------------------------------------------------------
(* What submit handlers do without a fault, and who stores results.         *)

(* Without a fault a submit handler only moves on by its own statements.    *)
LEMMA SubMoves ==
  ASSUME TypeInv, Hands, [Next]_vars, faults' = faults, NEW h \in Handler
  PROVE  \/ sub'[h] = sub[h]
         \/ sub'[h] = [sub[h] EXCEPT !.client = None]
         \/ \E w \in Worker : Submit(w, h)
         \/ SubmitStep(h)
  <1>t. sub \in [Handler -> SubmitState] /\ faults \in Nat
    BY DEF TypeInv, TypeOK, TrTypeOK
  <1>1. ASSUME NEW g \in Handler, g # h, SubmitStep(g) PROVE sub'[h] = sub[h]
    <2>1. ASSUME NEW s, Proceed(g, s) PROVE sub'[h] = sub[h]
      BY <1>t, <1>1, <2>1 DEF Proceed
    <2> QED
      BY <1>1, <2>1, MarkMove, SaveMove, LastMoves DEF SubmitStep
  <1>2. ASSUME NEW w \in Worker, WorkerStep(w)
        PROVE  sub'[h] = sub[h] \/ Submit(w, h)
    BY <1>t, <1>2 DEF WorkerStep, Poll, Fetch, Submit, SubmitRejected
  <1>3. ASSUME NEW w \in Worker, WorkerLost(w)
        PROVE  sub'[h] = sub[h] \/ sub'[h] = [sub[h] EXCEPT !.client = None]
    BY <1>3 DEF WorkerLost
  <1>4. ASSUME NEW g \in Handler,
               PollStep(g) \/ PollStatementFails(g) \/ PollCancelled(g)
        PROVE  sub' = sub
    BY <1>4 DEF PollStep, ScanJob, PollEmpty, ClaimTasks, PollStatementFails, PollCancelled
  <1>5. ~ServerRestart /\ \A g \in Handler : ~SubmitCancelled(g)
    BY <1>t DEF ServerRestart, SubmitCancelled
  <1>6. \/ UNCHANGED crawlVars \/ UNCHANGED vars
        \/ \E old \in SUBSET Present(rec) : ReclaimStale(old)
        => sub' = sub
    BY DEF crawlVars, vars, ReclaimStale
  <1> QED
    BY <1>1, <1>2, <1>3, <1>4, <1>5, <1>6 DEF Next

(* Only SaveResult writes crawl_results.                                    *)
LEMMA ResultSteps ==
  ASSUME TypeInv, [Next]_vars
  PROVE  \/ results' = results
         \/ \E h \in Handler, ok \in BOOLEAN : \E i \in sub[h].cur : SaveResult(h, i, ok)
  <1>1. ASSUME NEW h \in Handler,
               PollStep(h) \/ PollStatementFails(h) \/ PollCancelled(h) \/ SubmitCancelled(h)
        PROVE  results' = results
    BY <1>1 DEF PollStep, ScanJob, PollEmpty, ClaimTasks, PollStatementFails,
       PollCancelled, SubmitCancelled
  <1>2. ASSUME NEW h \in Handler, SubmitStep(h)
        PROVE  \/ results' = results
               \/ \E ok \in BOOLEAN : \E i \in sub[h].cur : SaveResult(h, i, ok)
    BY <1>2 DEF SubmitStep, MarkItem, EnqueueLinks, CountPages
  <1>3. ASSUME NEW w \in Worker, WorkerStep(w) \/ WorkerLost(w) PROVE results' = results
    BY <1>3 DEF WorkerStep, Poll, Fetch, Submit, SubmitRejected, WorkerLost
  <1>4. \/ UNCHANGED crawlVars \/ UNCHANGED vars \/ ServerRestart
        \/ \E old \in SUBSET Present(rec) : ReclaimStale(old)
        => results' = results
    BY DEF crawlVars, vars, ReclaimStale, ServerRestart
  <1> QED
    BY <1>1, <1>2, <1>3, <1>4 DEF Next

-----------------------------------------------------------------------------
(* The status of a URL and its result.                                      *)

(* What was taken back stays on record.                                     *)
LEMMA ReclaimedGrows ==
  ASSUME [Next]_vars
  PROVE  reclaimed \subseteq reclaimed'
  <1>1. ASSUME NEW h \in Handler,
               PollStep(h) \/ PollStatementFails(h) \/ PollCancelled(h) \/ SubmitCancelled(h)
        PROVE  reclaimed' = reclaimed
    BY <1>1 DEF PollStep, ScanJob, PollEmpty, ClaimTasks, PollStatementFails,
       PollCancelled, SubmitCancelled
  <1>2. ASSUME NEW h \in Handler, SubmitStep(h) PROVE reclaimed' = reclaimed
    BY <1>2 DEF SubmitStep, MarkItem, SaveResult, EnqueueLinks, CountPages
  <1>3. ASSUME NEW w \in Worker, WorkerStep(w) \/ WorkerLost(w)
        PROVE  reclaimed' = reclaimed
    BY <1>3 DEF WorkerStep, Poll, Fetch, Submit, SubmitRejected, WorkerLost
  <1>4. \/ UNCHANGED crawlVars \/ UNCHANGED vars \/ ServerRestart
        => reclaimed' = reclaimed
    BY DEF crawlVars, vars, ServerRestart
  <1>5. ASSUME NEW old \in SUBSET Present(rec), ReclaimStale(old)
        PROVE  reclaimed \subseteq reclaimed'
    BY <1>5 DEF ReclaimStale
  <1> QED
    BY <1>1, <1>2, <1>3, <1>4, <1>5 DEF Next

(* The result a handler is about to save comes from MarkItem and goes with
   SaveResult. *)
LEMMA SavingSteps ==
  ASSUME TypeInv, Hands, [Next]_vars, faults' = faults, NEW h \in Handler
  PROVE  \/ \E i \in sub[h].items : /\ MarkItem(h, i, TRUE) /\ i.out # "err"
                                    /\ sub'[h].pc = "save" /\ sub'[h].cur = {i}
         \/ \E i \in sub[h].cur : SaveResult(h, i, TRUE) /\ sub'[h].cur = {}
         \/ /\ sub'[h].cur = sub[h].cur
            /\ sub[h].pc = "save" => sub'[h].pc = "save"
  <1>t. sub \in [Handler -> SubmitState] /\ faults \in Nat /\ IdleSubmit.cur = {}
    BY DEF TypeInv, TypeOK, TrTypeOK, IdleSubmit
  <1>i. sub[h].pc # "save" => sub[h].cur = {}
    BY DEF Hands, SubmitHands
  <1>g. ASSUME NEW s, Proceed(h, s)
        PROVE  sub'[h] = IF s.pc = "idle" THEN IdleSubmit ELSE s
    BY <1>t, <1>g DEF Proceed
  <1>1. CASE sub'[h] = sub[h]
    BY <1>1
  <1>2. CASE sub'[h] = [sub[h] EXCEPT !.client = None]
    BY <1>t, <1>2 DEF SubmitState
  <1>3. ASSUME NEW w \in Worker, Submit(w, h)
        PROVE  sub'[h].cur = {} /\ sub[h].pc # "save"
    BY <1>t, <1>3 DEF Submit, IdleSubmit
  <1>4. ASSUME NEW i \in sub[h].items, NEW ok \in BOOLEAN, MarkItem(h, i, ok)
        PROVE  \/ /\ MarkItem(h, i, TRUE) /\ i.out # "err"
                  /\ sub'[h].pc = "save" /\ sub'[h].cur = {i}
               \/ sub'[h].cur = {} /\ sub[h].pc # "save"
    <2>1. ok /\ sub[h].pc # "save"
      BY <1>t, <1>4 DEF MarkItem, CountFault
    <2>2. PICK s : /\ Proceed(h, s)
                   /\ \/ i.out = "err" /\ s.cur = sub[h].cur
                      \/ i.out # "err" /\ s.cur = {i} /\ s.pc = "save"
      BY <1>4, MarkMove
    <2> QED
      BY <1>t, <1>i, <1>g, <1>4, <2>1, <2>2
  <1>5. ASSUME NEW i \in sub[h].cur, NEW ok \in BOOLEAN, SaveResult(h, i, ok)
        PROVE  SaveResult(h, i, TRUE) /\ sub'[h].cur = {}
    <2>1. ok
      BY <1>t, <1>5 DEF SaveResult, CountFault
    <2>2. PICK s : Proceed(h, s) /\ s.cur = {}
      BY <1>5, SaveMove
    <2> QED
      BY <1>t, <1>g, <1>5, <2>1, <2>2
  <1>6. ASSUME NEW ok \in BOOLEAN, EnqueueLinks(h, ok) \/ CountPages(h, ok)
        PROVE  sub'[h].cur = {} /\ sub[h].pc # "save"
    <2>1. sub[h].pc # "save"
      BY <1>6 DEF EnqueueLinks, CountPages
    <2>2. PICK s : Proceed(h, s) /\ s.cur = sub[h].cur
      BY <1>6, LastMoves
    <2> QED
      BY <1>t, <1>i, <1>g, <2>1, <2>2
  <1>7. CASE SubmitStep(h)
    BY <1>i, <1>4, <1>5, <1>6, <1>7 DEF SubmitStep
  <1> QED
    BY <1>i, <1>1, <1>2, <1>3, <1>7, SubMoves

(* A row becomes done by MarkItem only.                                     *)
LEMMA NewlyDone ==
  ASSUME TypeInv, [Next]_vars, faults' = faults, NEW k \in Key,
         rec[k].st # "done", rec'[k].st = "done"
  PROVE  \E h \in Handler : \E i \in sub[h].items :
           MarkItem(h, i, TRUE) /\ i.out # "err" /\ k = i.key
  <1>t. /\ rec \in [Key -> Row] /\ sub \in [Handler -> SubmitState] /\ faults \in Nat
    BY DEF TypeInv, TypeOK, TrTypeOK
  <1>1. ASSUME NEW c \in Caller, SeedQueue(c) PROVE FALSE
    BY <1>1 DEF SeedQueue, SeedRow, Enqueue
  <1>2. ASSUME NEW h \in Handler, ClaimTasks(h) PROVE FALSE
    BY <1>t, <1>2 DEF ClaimTasks, Claim, Row
  <1>3. ASSUME NEW h \in Handler, NEW ok \in BOOLEAN, EnqueueLinks(h, ok) PROVE FALSE
    BY <1>3 DEF EnqueueLinks, Enqueue
  <1>4. ASSUME NEW old \in SUBSET Present(rec), ReclaimStale(old) PROVE FALSE
    BY <1>t, <1>4 DEF ReclaimStale, Reclaim, Row
  <1>5. ASSUME NEW h \in Handler, NEW ok \in BOOLEAN, NEW i \in sub[h].items,
               MarkItem(h, i, ok)
        PROVE  MarkItem(h, i, TRUE) /\ i.out # "err" /\ k = i.key
    <2>1. ok
      BY <1>t, <1>5 DEF MarkItem, CountFault
    <2>2. rec' = [rec EXCEPT ![i.key] = [rec[i.key] EXCEPT !.st = Settled(i.out)]]
      BY <1>5, <2>1 DEF MarkItem, Mark
    <2>3. k = i.key
      BY <1>t, <2>2
    <2>4. rec'[k].st = Settled(i.out)
      BY <1>t, <2>2, <2>3 DEF Row
    <2> QED
      BY <1>5, <2>1, <2>3, <2>4 DEF Settled
  <1> QED
    BY <1>1, <1>2, <1>3, <1>4, <1>5, RecSteps

(* URL k has a result, or a handler has it in hand to save.                 *)
HasResult(k) ==
  Stored(k) > 0 \/ \E h \in Handler : \E i \in sub[h].cur : i.key = k

(* A result is in hand only after its row was marked, so the second part of
   VerdictMatchesResults holds from that moment on; errors are not saved. *)
Verdicts ==
  faults = 0 =>
    /\ \A h \in Handler : \A i \in sub[h].cur : i.out # "err"
    /\ \A k \in Key :
         /\ rec[k].st = "done" => Stored(k) > 0 \/ BeingSaved(k)
         /\ HasResult(k) => \/ rec[k].st = "done"
                            \/ rec[k].st = "failed" /\ k \in reclaimed

LEMMA VerdictsStep ==
  ASSUME TypeInv, Hands, Custodies, Verdicts, [Next]_vars
  PROVE  Verdicts'
  <1> SUFFICES ASSUME faults' = 0
               PROVE  /\ \A h \in Handler : \A i \in sub'[h].cur : i.out # "err"
                      /\ \A k \in Key :
                           /\ rec'[k].st = "done" => Stored(k)' > 0 \/ BeingSaved(k)'
                           /\ HasResult(k)' =>
                                \/ rec'[k].st = "done"
                                \/ rec'[k].st = "failed" /\ k \in reclaimed'
    BY DEF Verdicts
  <1>t. /\ sub \in [Handler -> SubmitState] /\ rec \in [Key -> Row] /\ faults \in Nat
        /\ results \in [Key -> ResultCount]
    BY DEF TypeInv, TypeOK, TrTypeOK
  <1>0. faults = 0 /\ faults' = faults
    BY <1>t, FaultsGrow
  <1>e. \A h \in Handler : \A i \in sub[h].cur : i.out # "err"
    BY <1>0 DEF Verdicts
  <1>m. ASSUME NEW h \in Handler, NEW i \in sub[h].items, MarkItem(h, i, TRUE),
               i.out # "err"
        PROVE  rec'[i.key].st = "done"
    <2>1. i.key \in Key
      BY <1>t DEF SubmitState, Item
    <2> QED
      BY <1>t, <1>m, <2>1 DEF MarkItem, Mark, Settled, Row
  <1>1. ASSUME NEW h \in Handler, NEW i \in sub'[h].cur PROVE i.out # "err"
    BY <1>0, <1>e, <1>1, SavingSteps
  <1> SUFFICES ASSUME NEW k \in Key
               PROVE  /\ rec'[k].st = "done" => Stored(k)' > 0 \/ BeingSaved(k)'
                      /\ HasResult(k)' => \/ rec'[k].st = "done"
                                          \/ rec'[k].st = "failed" /\ k \in reclaimed'
    BY <1>1
  <1>v. /\ rec[k].st = "done" => Stored(k) > 0 \/ BeingSaved(k)
        /\ HasResult(k) => \/ rec[k].st = "done"
                           \/ rec[k].st = "failed" /\ k \in reclaimed
    BY <1>0 DEF Verdicts
  <1>s. ASSUME NEW h \in Handler, NEW i \in sub[h].cur, SaveResult(h, i, TRUE), i.key = k
        PROVE  Stored(k)' > 0
    <2>1. i.out \in {"empty", "page"}
      <3>1. i \in Item
        BY <1>t DEF SubmitState
      <3>2. i.out \in {"err", "empty", "page"}
        BY <3>1, CrawlAssumption DEF Item
      <3> QED
        BY <1>e, <3>2
    <2>2. results[k].page \in Nat /\ results[k].empty \in Nat /\ results[k] \in ResultCount
      BY <1>t DEF ResultCount
    <2>3. results'[k] = [results[k] EXCEPT ![i.out] = @ + 1]
      BY <1>t, <1>s DEF SaveResult
    <2> QED
      BY <2>1, <2>2, <2>3 DEF Stored, ResultCount
  <1>r. Stored(k) > 0 => Stored(k)' > 0
    <2>1. CASE results' = results
      BY <2>1 DEF Stored
    <2>2. ASSUME NEW h \in Handler, NEW ok \in BOOLEAN, NEW i \in sub[h].cur,
                 SaveResult(h, i, ok)
          PROVE  Stored(k) > 0 => Stored(k)' > 0
      <3>1. ok
        BY <1>t, <1>0, <2>2 DEF SaveResult, CountFault
      <3>2. CASE i.key = k
        BY <1>s, <2>2, <3>1, <3>2
      <3>3. CASE i.key # k
        BY <1>t, <2>2, <3>3 DEF SaveResult, Stored
      <3> QED
        BY <3>2, <3>3
    <2> QED
      BY <2>1, <2>2, ResultSteps
  <1>2. ASSUME rec'[k].st = "done" PROVE Stored(k)' > 0 \/ BeingSaved(k)'
    <2>1. CASE Stored(k) > 0
      BY <1>r, <2>1
    <2>2. CASE BeingSaved(k)
      <3>1. PICK h \in Handler : sub[h].pc = "save" /\ {i.key : i \in sub[h].cur} = {k}
        BY <2>2 DEF BeingSaved
      <3>2. ASSUME NEW i \in sub[h].items, MarkItem(h, i, TRUE) PROVE FALSE
        BY <3>1, <3>2 DEF MarkItem
      <3>3. ASSUME NEW i \in sub[h].cur, SaveResult(h, i, TRUE) PROVE Stored(k)' > 0
        BY <1>s, <3>1, <3>3
      <3>4. CASE sub'[h].cur = sub[h].cur /\ (sub[h].pc = "save" => sub'[h].pc = "save")
        BY <3>1, <3>4 DEF BeingSaved
      <3> QED
        BY <1>0, <3>2, <3>3, <3>4, SavingSteps
    <2>3. CASE rec[k].st # "done"
      <3>0. PICK h \in Handler : \E i \in sub[h].items :
              MarkItem(h, i, TRUE) /\ i.out # "err" /\ k = i.key
        BY <1>0, <1>2, <2>3, NewlyDone
      <3>1. PICK i \in sub[h].items : MarkItem(h, i, TRUE) /\ i.out # "err" /\ k = i.key
        BY <3>0
      <3>2. sub'[h].pc = "save" /\ sub'[h].cur = {i}
        <4>1. ASSUME NEW ok \in BOOLEAN, MarkItem(h, i, ok)
              PROVE  \E s : Proceed(h, s) /\ s.cur = {i} /\ s.pc = "save"
          BY <3>1, <4>1, MarkMove
        <4>2. PICK s : Proceed(h, s) /\ s.cur = {i} /\ s.pc = "save"
          BY <3>1, <4>1
        <4> QED
          BY <1>t, <4>2 DEF Proceed
      <3> QED
        BY <3>1, <3>2 DEF BeingSaved
    <2> QED
      BY <1>v, <2>1, <2>2, <2>3
  <1>3. ASSUME HasResult(k)'
        PROVE  \/ rec'[k].st = "done"
               \/ rec'[k].st = "failed" /\ k \in reclaimed'
    <2>1. CASE HasResult(k)
      <3>1. /\ rec'[k].st \in {"done", "failed"}
            /\ k \notin reclaimed => rec'[k].st = rec[k].st
        BY <1>v, <2>1, VerdictStays
      <3> QED
        BY <1>v, <2>1, <3>1, ReclaimedGrows
    <2>2. CASE ~HasResult(k)
      <3>1. ~(Stored(k)' > 0)
        <4>1. CASE results' = results
          BY <2>2, <4>1 DEF HasResult, Stored
        <4>2. ASSUME NEW h \in Handler, NEW ok \in BOOLEAN, NEW i \in sub[h].cur,
                     SaveResult(h, i, ok)
              PROVE  Stored(k)' = Stored(k)
          BY <1>t, <2>2, <4>2 DEF HasResult, SaveResult, Stored
        <4> QED
          BY <2>2, <4>1, <4>2, ResultSteps DEF HasResult
      <3>0. PICK h \in Handler : \E i \in sub'[h].cur : i.key = k
        BY <1>3, <3>1 DEF HasResult
      <3>2. PICK i \in sub'[h].cur : i.key = k
        BY <3>0
      <3>3. MarkItem(h, i, TRUE) /\ i \in sub[h].items /\ i.out # "err"
        BY <1>0, <2>2, <3>2, SavingSteps DEF HasResult
      <3> QED
        BY <1>m, <3>2, <3>3
    <2> QED
      BY <2>1, <2>2
  <1> QED
    BY <1>2, <1>3

(* VerdictMatchesResults: without faults "done" has its result and a URL with a
   result is done, or failed if its task was taken back, however late, often or
   overlapping its results come (usecases.go:279-307, url_repo.go:76-105). *)
THEOREM VerdictMatches == Spec => []VerdictMatchesResults
  <1>1. Init => Verdicts
    BY DEF Init, TrInit, Verdicts, HasResult, Stored, NoRow, IdleSubmit
  <1>2. Verdicts => VerdictMatchesResults
    BY DEF Verdicts, VerdictMatchesResults, HasResult
  <1> QED
    BY <1>1, <1>2, TypeInvariant, HandsInvariant, CustodyInvariant, VerdictsStep,
       PTL DEF Spec

-----------------------------------------------------------------------------
(* Where links are kept.                                                    *)

(* A handler that lists a URL has not inserted its list yet or has just done so,
   and its list is not empty. *)
Listing == \A h \in Handler, u \in Url : sub[h].out[u] > 0 => sub[h].len > 0

(* A page with a result is in the queue.                                    *)
ResultsQueued == \A k \in Key : results[k].page > 0 => k \in Present(rec)

(* How SaveResult's list grows.                                             *)
LEMMA ListGrows ==
  ASSUME TypeInv, NEW h \in Handler, NEW i \in sub[h].cur, NEW u \in Url, NEW n \in Nat,
         n > 0
  PROVE  /\ IsFiniteSet(ListedFor(h, i)) /\ Cardinality(ListedFor(h, i)) \in Nat
         /\ ListedFor(h, i) # {} => Cardinality(ListedFor(h, i)) > 0
         /\ Listed(sub[h].out, i.key[2], ListedFor(h, i), n)[u] > 0
              <=> \/ sub[h].out[u] > 0
                  \/ \E x \in ListedFor(h, i) : Links[i.key[2]][x] = u
  <1>1. i.key \in Key /\ sub[h].out \in [Url -> Nat]
    BY DEF TypeInv, TypeOK, SubmitState, Item
  <1>2. IsFiniteSet(ListedFor(h, i))
    <2>1. Links[i.key[2]] \in Seq(Url)
      BY <1>1, UrlQueueAssumption DEF Key
    <2>2. ListedFor(h, i) \subseteq 1..Len(Links[i.key[2]])
      BY <2>1 DEF ListedFor, Admitted
    <2>3. IsFiniteSet(1..Len(Links[i.key[2]]))
      BY <2>1, FS_Interval
    <2> QED
      BY <2>2, <2>3, FS_Subset
  <1>3. /\ Cardinality(ListedFor(h, i)) \in Nat
        /\ ListedFor(h, i) # {} => Cardinality(ListedFor(h, i)) # 0
    BY <1>2, FS_CardinalityType, FS_EmptySet
  <1>4. sub[h].out[u] \in Nat
    BY <1>1
  <1>5. /\ Listed(sub[h].out, i.key[2], ListedFor(h, i), n)[u] > 0
           <=> \/ sub[h].out[u] > 0
               \/ \E x \in ListedFor(h, i) : Links[i.key[2]][x] = u
    BY <1>4 DEF Listed
  <1> QED
    BY <1>2, <1>3, <1>5

(* Where a handler stands after one of its statements that did not fail.    *)
LEMMA ListingKept ==
  ASSUME TypeInv, Hands, Listing, [Next]_vars, NEW h \in Handler, NEW u \in Url,
         sub'[h].out[u] > 0
  PROVE  sub'[h].len > 0
  <1>t. sub \in [Handler -> SubmitState]
    BY DEF TypeInv, TypeOK
  <1>l. sub[h].out[u] > 0 => sub[h].len > 0
    BY DEF Listing
  <1>i. IdleSubmit.out[u] = 0
    BY DEF IdleSubmit, NoOut
  <1>1. CASE sub'[h] = sub[h]
    BY <1>1, <1>l
  <1>2. CASE sub'[h] = [sub[h] EXCEPT !.client = None]
    BY <1>t, <1>2, <1>l DEF SubmitState
  <1>3. ASSUME NEW w \in Worker, Submit(w, h) PROVE FALSE
    <2>1. sub'[h].out[u] = 0
      BY <1>t, <1>3 DEF Submit, IdleSubmit, NoOut
    <2> QED
      BY <2>1
  <1>4. ASSUME NEW s, Proceed(h, s) PROVE sub'[h] = IdleSubmit \/ sub'[h] = s
    BY <1>4, ProceedHands
  <1>5. ASSUME NEW i \in sub[h].items, NEW ok \in BOOLEAN, MarkItem(h, i, ok)
        PROVE  sub'[h].len > 0
    BY <1>4, <1>5, <1>l, <1>i, MarkMove
  <1>6. ASSUME NEW ok \in BOOLEAN, EnqueueLinks(h, ok) \/ CountPages(h, ok)
        PROVE  sub'[h].len > 0
    BY <1>4, <1>6, <1>l, <1>i, LastMoves
  <1>7. ASSUME NEW i \in sub[h].cur, NEW ok \in BOOLEAN, SaveResult(h, i, ok)
        PROVE  sub'[h].len > 0
    <2> DEFINE n == rec[i.key].depth + 1
               c == Cardinality(ListedFor(h, i))
    <2>1. PICK s : /\ Proceed(h, s) /\ s.len = sub[h].len + c
                   /\ s.out = Listed(sub[h].out, i.key[2], ListedFor(h, i), n)
      BY <1>7, SaveMove
    <2>2. sub'[h] = s
      BY <1>4, <1>i, <2>1
    <2>3. n \in Nat /\ n > 0
      BY <1>t DEF SubmitState, Item, TypeInv, TypeOK, TrTypeOK, Row
    <2>4. sub[h].len \in Nat
      BY <1>t DEF SubmitState
    <2> HIDE DEF n
    <2>5. /\ c \in Nat /\ (ListedFor(h, i) # {} => c > 0)
          /\ sub[h].out[u] > 0 \/ ListedFor(h, i) # {}
      BY <2>1, <2>2, <2>3, ListGrows
    <2> HIDE DEF c
    <2> QED
      BY <1>l, <2>1, <2>2, <2>4, <2>5
  <1>8. CASE SubmitStep(h)
    BY <1>5, <1>6, <1>7, <1>8 DEF SubmitStep
  <1>9. CASE sub'[h] = IdleSubmit
    BY <1>i, <1>9
  <1> QED
    BY <1>1, <1>2, <1>3, <1>8, <1>9, SubSteps

LEMMA ListingStep ==
  TypeInv /\ Hands /\ Listing /\ ResultsQueued /\ [Next]_vars => Listing' /\ ResultsQueued'
  <1> SUFFICES ASSUME TypeInv, Hands, Listing, ResultsQueued, [Next]_vars
               PROVE  Listing' /\ ResultsQueued'
    OBVIOUS
  <1>1. Listing'
    BY ListingKept DEF Listing
  <1>2. ASSUME NEW k \in Key, results'[k].page > 0 PROVE k \in Present(rec')
    <2>1. CASE results[k].page > 0
      BY <2>1, GrowthStep DEF ResultsQueued, Grows
    <2>2. CASE ~(results[k].page > 0)
      <3>1. PICK h \in Handler, ok \in BOOLEAN :
              \E i \in sub[h].cur : SaveResult(h, i, ok)
        BY <1>2, <2>2, ResultSteps
      <3>i. PICK i \in sub[h].cur : SaveResult(h, i, ok)
        BY <3>1
      <3>2. k = i.key
        BY <1>2, <2>2, <3>i DEF SaveResult, TypeInv, TypeOK
      <3>3. k \in Present(rec)
        BY <3>2 DEF Hands, SubmitHands, TaskOf
      <3> QED
        BY <3>3, GrowthStep DEF Grows
    <2> QED
      BY <2>1, <2>2
  <1> QED
    BY <1>1, <1>2 DEF ResultsQueued

(* A URL of domain d is in the queue, or a handler is about to insert it.   *)
Kept(d, u) ==
  \/ <<d, u>> \in Present(rec)
  \/ \E h \in Handler : /\ sub[h].pc \in {"item", "save", "enqueue"}
                        /\ sub[h].out[u] > 0
                        /\ jobs[sub[h].job].dom = d

LEMMA KeptStep ==
  ASSUME TypeInv, Hands, Listing, [Next]_vars, faults' = faults,
         NEW d \in Domain, NEW u \in Url, Kept(d, u)
  PROVE  Kept(d, u)'
  <1>t. sub \in [Handler -> SubmitState] /\ faults \in Nat /\ rec \in [Key -> Row]
    BY DEF TypeInv, TypeOK, TrTypeOK
  <1>k. <<d, u>> \in Key
    BY DEF Key
  <1>1. CASE <<d, u>> \in Present(rec)
    BY <1>1, GrowthStep DEF Kept, Grows
  <1>2. ASSUME NEW h \in Handler, sub[h].pc \in {"item", "save", "enqueue"},
               sub[h].out[u] > 0, jobs[sub[h].job].dom = d
        PROVE  Kept(d, u)'
    <2>1. sub[h].len > 0
      BY <1>2 DEF Listing
    <2>2. sub[h].job \in DOMAIN jobs
      BY <1>2 DEF TypeInv, Refs, SubmitRefs
    <2>3. jobs'[sub[h].job].dom = d
      BY <1>2, <2>2, JobsGrow
    <2>4. ASSUME NEW s, sub'[h] = s, s.pc \in {"item", "save", "enqueue"},
                 s.out[u] > 0, s.job = sub[h].job
          PROVE  Kept(d, u)'
      BY <2>3, <2>4 DEF Kept
    <2>5. ASSUME NEW s, Proceed(h, s), s.pc # "idle" PROVE sub'[h] = s
      BY <1>t, <2>5 DEF Proceed
    <2>6. CASE sub'[h] = sub[h]
      BY <1>2, <2>4, <2>6
    <2>7. CASE sub'[h] = [sub[h] EXCEPT !.client = None]
      <3> DEFINE s == [sub[h] EXCEPT !.client = None]
      <3>1. s.pc = sub[h].pc /\ s.out = sub[h].out /\ s.job = sub[h].job
        BY <1>t DEF SubmitState
      <3> HIDE DEF s
      <3> QED
        BY <1>2, <2>4, <2>7, <3>1 DEF s
    <2>8. ASSUME NEW w \in Worker, Submit(w, h) PROVE FALSE
      BY <1>2, <2>8 DEF Submit
    <2>9. ASSUME NEW i \in sub[h].items, NEW ok \in BOOLEAN, MarkItem(h, i, ok)
          PROVE  Kept(d, u)'
      <3>1. PICK s : /\ Proceed(h, s) /\ s.job = sub[h].job /\ s.out = sub[h].out
                     /\ s.len = sub[h].len /\ (Standing(s) \/ s.pc = "save")
        BY <2>9, MarkMove
      <3>2. s.pc \in {"item", "save", "enqueue"}
        BY <2>1, <3>1 DEF Standing
      <3> QED
        BY <1>2, <2>4, <2>5, <3>1, <3>2
    <2>10. ASSUME NEW i \in sub[h].cur, NEW ok \in BOOLEAN, SaveResult(h, i, ok)
           PROVE  Kept(d, u)'
      <3> DEFINE n == rec[i.key].depth + 1
                 c == Cardinality(ListedFor(h, i))
      <3>1. PICK s : /\ Proceed(h, s) /\ s.job = sub[h].job /\ s.len = sub[h].len + c
                     /\ s.out = Listed(sub[h].out, i.key[2], ListedFor(h, i), n)
                     /\ Standing(s)
        BY <2>10, SaveMove
      <3>2. n \in Nat /\ n > 0 /\ sub[h].len \in Nat
        BY <1>t DEF SubmitState, Item, Row
      <3> HIDE DEF n
      <3>3. c \in Nat /\ s.out[u] > 0
        BY <1>2, <3>1, <3>2, ListGrows
      <3> HIDE DEF c
      <3>4. s.len > 0
        BY <2>1, <3>1, <3>2, <3>3
      <3>5. s.pc \in {"item", "enqueue"}
        BY <3>1, <3>4 DEF Standing
      <3> QED
        BY <2>4, <2>5, <3>1, <3>3, <3>5
    <2>11. ASSUME NEW ok \in BOOLEAN, EnqueueLinks(h, ok) PROVE Kept(d, u)'
      <3>1. ok
        BY <1>t, <2>11 DEF EnqueueLinks, CountFault
      <3>2. rec' = Enqueue(rec, d, sub[h].job, {v \in Url : sub[h].out[v] > 0}, sub[h].out)
        BY <1>2, <2>11, <3>1 DEF EnqueueLinks
      <3>3. rec'[<<d, u>>].st # "none"
        BY <1>2, <1>k, <3>2 DEF Enqueue
      <3> QED
        BY <1>k, <3>3 DEF Kept, Present
    <2>12. ASSUME NEW ok \in BOOLEAN, CountPages(h, ok) PROVE FALSE
      BY <1>2, <2>12 DEF CountPages
    <2> QED
      BY <2>6, <2>7, <2>8, <2>9, <2>10, <2>11, <2>12, SubMoves DEF SubmitStep
  <1> QED
    BY <1>1, <1>2 DEF Kept

(* The links of the page that a handler stores go to its list.              *)
LEMMA LinksListed ==
  ASSUME TypeInv, Hands, Rows, Listing, [Next]_vars,
         NEW h \in Handler, NEW i \in sub[h].cur, SaveResult(h, i, TRUE),
         i.out = "page", MaxPages[i.key[1]] = 0,
         NEW x \in DOMAIN Links[i.key[2]], NEW u, u = Links[i.key[2]][x],
         InScope(i.key[1], u, rec[i.key].depth + 1)
  PROVE  Kept(i.key[1], u)'
  <1>t. sub \in [Handler -> SubmitState] /\ rec \in [Key -> Row]
    BY DEF TypeInv, TypeOK, TrTypeOK
  <1> DEFINE n == rec[i.key].depth + 1
             c == Cardinality(ListedFor(h, i))
  <1>1. i.key \in Key /\ sub[h].len \in Nat /\ n \in Nat /\ n > 0
    BY <1>t DEF SubmitState, Item, Row
  <1>2. u \in Url
    <2>1. Links[i.key[2]] \in Seq(Url)
      BY <1>1, UrlQueueAssumption DEF Key
    <2> QED
      BY <2>1
  <1>3. sub[h].job \in DOMAIN jobs /\ jobs[sub[h].job].dom = i.key[1]
    BY DEF Hands, SubmitHands, TaskOf, Rows
  <1>4. x \in ListedFor(h, i)
    BY <1>3 DEF ListedFor, Admitted
  <1>5. PICK s : /\ Proceed(h, s) /\ s.job = sub[h].job /\ s.len = sub[h].len + c
                 /\ s.out = Listed(sub[h].out, i.key[2], ListedFor(h, i), n)
                 /\ Standing(s)
    BY SaveMove
  <1> HIDE DEF n
  <1>6. c \in Nat /\ c > 0 /\ s.out[u] > 0
    BY <1>1, <1>2, <1>4, <1>5, ListGrows
  <1> HIDE DEF c
  <1>7. s.len > 0
    BY <1>1, <1>5, <1>6
  <1>8. s.pc \in {"item", "enqueue"}
    BY <1>5, <1>7 DEF Standing
  <1>9. sub'[h] = s
    BY <1>t, <1>5, <1>8 DEF Proceed
  <1>10. jobs'[s.job].dom = i.key[1]
    BY <1>3, <1>5, JobsGrow
  <1> QED
    BY <1>6, <1>8, <1>9, <1>10 DEF Kept

LEMMA LinksStep ==
  ASSUME TypeInv, Hands, Rows, Listing, ResultsQueued, NoLinkLost, [Next]_vars
  PROVE  NoLinkLost'
  <1> SUFFICES ASSUME faults' = 0, NEW k \in Key, results'[k].page > 0, MaxPages[k[1]] = 0,
                      NEW x \in DOMAIN Links[k[2]], NEW u, u = Links[k[2]][x],
                      InScope(k[1], u, rec'[k].depth + 1)
               PROVE  Kept(k[1], u)'
    BY DEF NoLinkLost, Kept
  <1>t. /\ results \in [Key -> ResultCount] /\ sub \in [Handler -> SubmitState]
        /\ faults \in Nat
    BY DEF TypeInv, TypeOK, TrTypeOK
  <1>0. faults = 0 /\ faults' = faults
    BY <1>t, FaultsGrow
  <1>u. k[1] \in Domain /\ u \in Url
    <2>1. Links[k[2]] \in Seq(Url) /\ k[1] \in Domain
      BY UrlQueueAssumption DEF Key
    <2> QED
      BY <2>1
  <1>1. CASE results[k].page > 0
    <2>1. k \in Present(rec) /\ rec'[k].depth = rec[k].depth
      BY <1>1, GrowthStep DEF ResultsQueued, Grows
    <2>2. Kept(k[1], u)
      BY <1>0, <1>1, <2>1 DEF NoLinkLost, Kept
    <2> QED
      BY <1>0, <1>u, <2>2, KeptStep
  <1>2. CASE ~(results[k].page > 0)
    <2>1. PICK h \in Handler, ok \in BOOLEAN : \E i \in sub[h].cur : SaveResult(h, i, ok)
      BY <1>2, ResultSteps
    <2>2. PICK i \in sub[h].cur : SaveResult(h, i, ok)
      BY <2>1
    <2>3. ok
      BY <1>t, <1>0, <2>2 DEF SaveResult, CountFault
    <2>4. i \in Item
      BY <1>t DEF SubmitState
    <2>5. results' = [results EXCEPT ![i.key] = [results[i.key] EXCEPT ![i.out] = @ + 1]]
      BY <2>2, <2>3 DEF SaveResult
    <2>6. k = i.key
      BY <1>t, <1>2, <2>5
    <2>7. i.out = "page"
      BY <1>t, <1>2, <2>5, <2>6 DEF ResultCount
    <2>8. rec' = rec
      BY <2>2 DEF SaveResult
    <2> QED
      BY <2>2, <2>3, <2>6, <2>7, <2>8, LinksListed
  <1> QED
    BY <1>1, <1>2

(* NoLinkLost: unless a statement failed or a handler was cut off, every link in
   scope of a stored page is in the queue or about to be (usecases.go:310-335). *)
THEOREM LinksKept == Spec => []NoLinkLost
  <1>1. Init => Listing /\ ResultsQueued /\ NoLinkLost
    BY DEF Init, TrInit, Listing, ResultsQueued, NoLinkLost, IdleSubmit, NoOut
  <1>2. Origin => Rows
    BY DEF Origin
  <1>3. TypeInv /\ Hands /\ Rows /\ Listing /\ ResultsQueued /\ NoLinkLost /\ [Next]_vars
          => NoLinkLost'
    BY LinksStep
  <1> QED
    BY <1>1, <1>2, <1>3, TypeInvariant, HandsInvariant, OriginInvariant, ListingStep,
       PTL DEF Spec

-----------------------------------------------------------------------------
(* The queue implements the abstract frontier.                              *)

Front == [k \in Key |-> KnownAs(rec[k])]

LEMMA FrontTyped ==
  ASSUME TypeInv
  PROVE  Front \in [Key -> F!Cell]
  BY DEF TypeInv, TypeOK, TrTypeOK, Front, KnownAs, F!Cell, Row

LEMMA Update ==
  ASSUME NEW T, NEW f \in [Key -> T], NEW k \in Key, NEW v
  PROVE  [f EXCEPT ![k] = v] = [j \in Key |-> IF j = k THEN v ELSE f[j]]
  OBVIOUS

(* A step that adds only reachable rows and settles none discovers URLs.    *)
LEMMA Discovers ==
  ASSUME TypeInv, TypeInv',
         \A k \in Key :
           \/ KnownAs(rec'[k]) = KnownAs(rec[k])
           \/ /\ rec[k].st = "none" /\ rec'[k].st = "pending"
              /\ F!Justified(k, rec'[k].depth)
  PROVE  F!Discover
  <1>1. Front' \in [Key -> F!Cell]
    BY DEF TypeInv, TypeOK, TrTypeOK, Front, KnownAs, F!Cell, Row
  <1>2. ASSUME NEW k \in Key
        PROVE  \/ Front'[k] = Front[k]
               \/ /\ Front[k].st = "unknown" /\ Front'[k].st = "open"
                  /\ F!Justified(k, Front'[k].hop)
    BY DEF Front, KnownAs
  <1> QED
    BY <1>1, <1>2 DEF F!Discover, Front, Key

LEMMA RowJustified ==
  ASSUME TypeInv, Hands, Listings, [Next]_vars, NEW k \in Key,
         k \in Present(rec') \ Present(rec)
  PROVE  F!Justified(k, rec'[k].depth)
  <1>1. ASSUME NEW c \in Caller, k = SeedKey(tr[c].dom), rec'[k].depth = 0
        PROVE  F!Justified(k, rec'[k].depth)
    BY <1>1 DEF F!Justified, SeedKey
  <1>2. ASSUME NEW h \in Handler, k[1] = jobs[sub[h].job].dom, sub[h].out[k[2]] > 0,
               rec'[k].depth = sub[h].out[k[2]]
        PROVE  F!Justified(k, rec'[k].depth)
    <2>1. k[2] \in Url
      BY DEF Key
    <2>2. LinkedFrom(k[1], k[2], rec'[k].depth)
      BY <1>2, <2>1 DEF Listings
    <2>3. PICK p \in Present(rec) :
            /\ p[1] = k[1] /\ rec'[k].depth = rec[p].depth + 1
            /\ \E x \in DOMAIN Links[p[2]] : Links[p[2]][x] = k[2]
      BY <2>2 DEF LinkedFrom
    <2>4. p \in Key /\ Front[p].st # "unknown" /\ Front[p].hop = rec[p].depth
      BY DEF Present, Front, KnownAs
    <2> QED
      BY <2>2, <2>3, <2>4 DEF F!Justified, LinkedFrom, Front, Key
  <1> QED
    BY <1>1, <1>2, NewRows

LEMMA FrontierStep ==
  ASSUME TypeInv, Hands, Origin, [Next]_vars
  PROVE  F!Next \/ Front' = Front
  <1>t. /\ rec \in [Key -> Row] /\ rec' \in [Key -> Row] /\ TypeInv'
        /\ sub \in [Handler -> SubmitState] /\ Listings
    BY TypeStep DEF TypeInv, TypeOK, TrTypeOK, Origin
  <1>1. ASSUME \A k \in Key : \/ KnownAs(rec'[k]) = KnownAs(rec[k])
                              \/ rec[k].st = "none" /\ rec'[k].st = "pending"
        PROVE  F!Next
    <2>1. ASSUME NEW k \in Key, rec[k].st = "none", rec'[k].st = "pending"
          PROVE  F!Justified(k, rec'[k].depth)
      BY <1>t, <2>1, RowJustified DEF Present
    <2> QED
      BY <1>1, <1>t, <2>1, Discovers DEF F!Next
  <1>2. ASSUME NEW c \in Caller, SeedQueue(c) PROVE F!Next
    BY <1>1, <1>2 DEF SeedQueue, SeedRow, Enqueue
  <1>3. ASSUME NEW h \in Handler, ClaimTasks(h) PROVE F!Next
    <2>1. \A k \in Key : KnownAs(rec'[k]) = KnownAs(rec[k])
      BY <1>t, <1>3 DEF ClaimTasks, Claim, Batches, PendingOf, WithStatus, KnownAs, Row
    <2> QED
      BY <1>1, <2>1
  <1>4. ASSUME NEW h \in Handler, NEW ok \in BOOLEAN, NEW i \in sub[h].items,
               MarkItem(h, i, ok)
        PROVE  F!Next \/ Front' = Front
    <2>1. i.key \in Key /\ rec[i.key].st # "none"
      BY <1>t DEF SubmitState, Item, Hands, SubmitHands, TaskOf, Present
    <2>2. Settled(i.out) \in {"done", "failed"}
      BY DEF Settled
    <2>3. CASE rec' = rec
      BY <2>3 DEF Front
    <2>4. CASE rec' = Mark(rec, i.key, Settled(i.out))
      <3>1. /\ rec'[i.key].st \in {"done", "failed"}
            /\ rec'[i.key].depth = rec[i.key].depth
            /\ \A k \in Key : k # i.key => rec'[k] = rec[k]
        BY <1>t, <2>1, <2>2, <2>4 DEF Mark, Row
      <3>2. CASE rec[i.key].st \in {"done", "failed"}
        BY <2>1, <3>1, <3>2 DEF Front, KnownAs
      <3>3. CASE rec[i.key].st \notin {"done", "failed"}
        <4>1. Front[i.key] = [st |-> "open", hop |-> rec[i.key].depth]
          BY <2>1, <3>3 DEF Front, KnownAs
        <4>2. Front' = [Front EXCEPT ![i.key] = [st |-> "settled", hop |-> rec[i.key].depth]]
          <5>1. KnownAs(rec'[i.key]) = [st |-> "settled", hop |-> rec[i.key].depth]
            BY <3>1 DEF KnownAs
          <5>2. \A k \in Key : k # i.key => KnownAs(rec'[k]) = KnownAs(rec[k])
            BY <3>1
          <5>3. Front' = [k \in Key |-> KnownAs(rec'[k])]
            BY DEF Front
          <5>4. Front' = [k \in Key |->
                            IF k = i.key THEN [st |-> "settled", hop |-> rec[i.key].depth]
                            ELSE Front[k]]
            BY <5>1, <5>2, <5>3 DEF Front
          <5>5. Front \in [Key -> F!Cell]
            BY FrontTyped
          <5> HIDE DEF Front
          <5> QED
            BY <2>1, <5>4, <5>5, Update
        <4>3. Front' = [Front EXCEPT ![i.key] = [Front[i.key] EXCEPT !.st = "settled"]]
          <5>1. [[st |-> "open", hop |-> rec[i.key].depth] EXCEPT !.st = "settled"]
                  = [st |-> "settled", hop |-> rec[i.key].depth]
            OBVIOUS
          <5> HIDE DEF Front
          <5> QED
            BY <4>1, <4>2, <5>1
        <4>4. F!Settle(i.key)
          BY <4>1, <4>3 DEF F!Settle, Front
        <4> QED
          BY <2>1, <4>4 DEF F!Next, Key
      <3> QED
        BY <3>2, <3>3
    <2> QED
      BY <1>4, <2>3, <2>4 DEF MarkItem
  <1>5. ASSUME NEW h \in Handler, NEW ok \in BOOLEAN, EnqueueLinks(h, ok) PROVE F!Next
    BY <1>1, <1>5 DEF EnqueueLinks, Enqueue
  <1>6. ASSUME NEW old \in SUBSET Present(rec), ReclaimStale(old) PROVE F!Next
    <2>1. \A k \in Key : KnownAs(rec'[k]) = KnownAs(rec[k])
      BY <1>t, <1>6 DEF ReclaimStale, Reclaim, KnownAs, Row
    <2> QED
      BY <1>1, <2>1
  <1>7. CASE rec' = rec
    BY <1>7 DEF Front
  <1> QED
    BY <1>2, <1>3, <1>4, <1>5, <1>6, <1>7, RecSteps

(* FrontierSpec: CrawlMaster implements Frontier, with every worker, handler,
   trigger, reclaim and fault (usecases.go:85-340, url_repo.go:27-105). *)
THEOREM ImplementsFrontier == Spec => FrontierSpec
  <1>1. Init => F!Init
    BY DEF Init, TrInit, F!Init, KnownAs, NoRow, Key
  <1>2. TypeInv /\ Hands /\ Origin /\ [Next]_vars
          => [F!Next]_[k \in Key |-> KnownAs(rec[k])]
    BY FrontierStep DEF Front
  <1> QED
    BY <1>1, <1>2, TypeInvariant, HandsInvariant, OriginInvariant,
       PTL DEF Spec, FrontierSpec, F!Spec

-----------------------------------------------------------------------------
(* How far overlapping polls exceed the cap.                                *)

Claimers == {h \in Handler : poll[h].pc = "claim"}
Others == Handler \ Claimers

(* c is the cap of all domains, r their root.  What is in progress fits the caps
   of the handlers that are not claiming, or one of those that are read the
   count when it was low enough to make up for the rest. *)
CapInv(c, r) ==
  LET used == Cardinality(InProgressUnder(rec, r))
      free == Cardinality(Others)
  IN /\ \A h \in Claimers : poll[h].cap <= c
     /\ \/ used <= free * c
        \/ \E h \in Claimers : used + poll[h].cap <= (free + 1) * c

LEMMA HandlersFinite ==
  ASSUME NEW A \in SUBSET Handler
  PROVE  IsFiniteSet(A) /\ Cardinality(A) \in Nat /\ Cardinality(A) <= Cardinality(Handler)
  BY CrawlAssumption, FS_Subset, FS_CardinalityType

LEMMA UsedFinite ==
  ASSUME NEW t, NEW r
  PROVE  /\ IsFiniteSet(InProgressUnder(t, r))
         /\ Cardinality(InProgressUnder(t, r)) \in Nat
  <1>1. InProgressUnder(t, r) \in SUBSET Key
    BY DEF InProgressUnder, WithStatus
  <1> QED
    BY <1>1, KeysFinite

(* Multiples of the cap grow with their factor. *)
LEMMA Times ==
  ASSUME NEW c \in Nat, NEW m \in Nat, NEW n \in Nat
  PROVE  /\ m * c \in Nat /\ (m + 1) * c = m * c + c
         /\ m <= n => m * c <= n * c
  <1>1. m * c \in Nat /\ (m + 1) * c = m * c + c
    OBVIOUS
  <1>2. ASSUME m <= n PROVE m * c <= n * c
    <2>1. PICK k \in Nat : n = m + k
      <3>1. n - m \in Nat /\ n = m + (n - m)
        BY <1>2
      <3> QED
        BY <3>1
    <2>2. n * c = m * c + k * c /\ k * c \in Nat
      BY <2>1
    <2> QED
      BY <1>1, <2>2
  <1> QED
    BY <1>1, <1>2

(* Only a claim brings more tasks in progress.                              *)
LEMMA UsedShrinks ==
  ASSUME TypeInv, [Next]_vars, NEW r, \A h \in Handler : ~ClaimTasks(h)
  PROVE  InProgressUnder(rec', r) \subseteq InProgressUnder(rec, r)
  <1>1. rec \in [Key -> Row]
    BY DEF TypeInv, TypeOK, TrTypeOK
  <1>2. \A d, us, j, depth :
          InProgressUnder(Enqueue(rec, d, j, us, depth), r) \subseteq InProgressUnder(rec, r)
    BY DEF InProgressUnder, WithStatus, Enqueue
  <1>3. \A k \in Key, s \in {"done", "failed"} :
          InProgressUnder(Mark(rec, k, s), r) \subseteq InProgressUnder(rec, r)
    BY <1>1 DEF InProgressUnder, WithStatus, Mark, Row
  <1>4. \A old : InProgressUnder(Reclaim(rec, old), r) \subseteq InProgressUnder(rec, r)
    BY <1>1 DEF InProgressUnder, WithStatus, Reclaim, Row
  <1>5. ASSUME NEW h \in Handler, NEW ok \in BOOLEAN, NEW i \in sub[h].items,
               MarkItem(h, i, ok)
        PROVE  InProgressUnder(rec', r) \subseteq InProgressUnder(rec, r)
    <2>1. i.key \in Key
      BY DEF TypeInv, TypeOK, SubmitState, Item
    <2> QED
      BY <1>3, <1>5, <2>1 DEF MarkItem, Settled
  <1>6. ASSUME NEW c \in Caller, SeedQueue(c)
        PROVE  InProgressUnder(rec', r) \subseteq InProgressUnder(rec, r)
    BY <1>2, <1>6 DEF SeedQueue, SeedRow
  <1>7. ASSUME NEW h \in Handler, NEW ok \in BOOLEAN, EnqueueLinks(h, ok)
        PROVE  InProgressUnder(rec', r) \subseteq InProgressUnder(rec, r)
    BY <1>2, <1>7 DEF EnqueueLinks
  <1>8. ASSUME NEW old \in SUBSET Present(rec), ReclaimStale(old)
        PROVE  InProgressUnder(rec', r) \subseteq InProgressUnder(rec, r)
    BY <1>4, <1>8 DEF ReclaimStale
  <1> QED
    BY <1>5, <1>6, <1>7, <1>8, RecSteps

(* Only the count of a scan lets a handler claim, and a claim's room stays. *)
LEMMA ClaimingSteps ==
  ASSUME TypeInv, [Next]_vars, \A h \in Handler : ~ScanJob(h)
  PROVE  \A h \in Claimers' : h \in Claimers /\ poll'[h].cap = poll[h].cap
  <1>0. poll \in [Handler -> PollState]
    BY DEF TypeInv, TypeOK
  <1> DEFINE Goal == \A h \in Claimers' : h \in Claimers /\ poll'[h].cap = poll[h].cap
  <1>1. poll' = poll => Goal
    BY DEF Claimers
  <1>2. ASSUME NEW h \in Handler, NEW w \in Worker, Poll(w, h) PROVE Goal
    <2> DEFINE new == [IdlePoll EXCEPT !.pc = "scan", !.client = w,
                                       !.jobs = RunningJobs(OnlyDomain[w])]
    <2>1. poll' = [poll EXCEPT ![h] = new] /\ new.pc = "scan"
      BY <1>2 DEF Poll, IdlePoll
    <2> HIDE DEF new
    <2> QED
      BY <1>0, <2>1 DEF Claimers
  <1>3. ASSUME NEW h \in Handler, PollEmpty(h) \/ PollCancelled(h) PROVE Goal
    BY <1>0, <1>3 DEF PollEmpty, PollCancelled, Claimers, IdlePoll
  <1>4. ASSUME NEW h \in Handler, ClaimTasks(h) \/ PollStatementFails(h) PROVE Goal
    <2>1. \/ poll' = [poll EXCEPT ![h].pc = "scan"]
          \/ poll' = [poll EXCEPT ![h] = IdlePoll]
      BY <1>4 DEF ClaimTasks, PollStatementFails
    <2> QED
      BY <1>0, <2>1 DEF Claimers, IdlePoll, PollState
  <1>5. ASSUME NEW w \in Worker, WorkerLost(w) PROVE Goal
    BY <1>0, <1>5 DEF WorkerLost, Claimers, PollState
  <1>6. ASSUME ServerRestart PROVE Goal
    BY <1>0, <1>6 DEF ServerRestart, Claimers, IdlePoll
  <1>7. ASSUME NEW w \in Worker, WorkerStep(w) PROVE Goal
    BY <1>1, <1>2, <1>7 DEF WorkerStep, Fetch, Submit, SubmitRejected
  <1>8. ASSUME NEW h \in Handler, SubmitStep(h) \/ SubmitCancelled(h) PROVE poll' = poll
    BY <1>8 DEF SubmitStep, MarkItem, SaveResult, EnqueueLinks, CountPages, SubmitCancelled
  <1>9. ASSUME NEW old \in SUBSET Present(rec), ReclaimStale(old) PROVE poll' = poll
    BY <1>9 DEF ReclaimStale
  <1>10. UNCHANGED vars => poll' = poll
    BY DEF vars
  <1>11. UNCHANGED crawlVars => poll' = poll
    BY DEF crawlVars
  <1> HIDE DEF Goal
  <1>12. Goal
    BY <1>1, <1>3, <1>4, <1>5, <1>6, <1>7, <1>8, <1>9, <1>10, <1>11 DEF Next, PollStep
  <1> QED
    BY <1>12 DEF Goal

(* A handler that stops claiming leaves its cap to what is in progress.     *)
LEMMA CapCalm ==
  ASSUME NEW c \in Nat, NEW r, TypeInv, TypeInv', CapInv(c, r),
         InProgressUnder(rec', r) \subseteq InProgressUnder(rec, r),
         \A h \in Claimers' : h \in Claimers /\ poll'[h].cap = poll[h].cap
  PROVE  CapInv(c, r)'
  <1> DEFINE used == Cardinality(InProgressUnder(rec, r))
             new == Cardinality(InProgressUnder(rec', r))
             free == Cardinality(Others)
             more == Cardinality(Others')
  <1>0. poll \in [Handler -> PollState] /\ poll' \in [Handler -> PollState]
    BY DEF TypeInv, TypeOK
  <1>1. used \in Nat /\ new \in Nat /\ new <= used
    BY UsedFinite, FS_Subset
  <1>2. Others \subseteq Others' /\ Others' \in SUBSET Handler /\ Others \in SUBSET Handler
    BY DEF Others, Claimers
  <1>3. free \in Nat /\ more \in Nat /\ free <= more /\ IsFiniteSet(Others)
    BY <1>2, HandlersFinite, FS_Subset
  <1>4. free * c <= more * c /\ (free + 1) * c = free * c + c /\ (more + 1) * c = more * c + c
        /\ free * c \in Nat /\ more * c \in Nat
    BY <1>3, Times
  <1>5. \A h \in Claimers : poll[h].cap \in Nat
    BY <1>0 DEF Claimers, PollState
  <1>6. \A h \in Claimers' : poll'[h].cap <= c
    BY DEF CapInv
  <1>7. CASE used <= free * c
    <2>1. new <= more * c
      BY <1>1, <1>4, <1>7
    <2> QED
      BY <1>6, <2>1 DEF CapInv
  <1>8. CASE \E h \in Claimers : used + poll[h].cap <= (free + 1) * c
    <2>1. PICK h \in Claimers : used + poll[h].cap <= (free + 1) * c
      BY <1>8
    <2>2. CASE h \in Claimers'
      <3>1. new + poll'[h].cap <= (more + 1) * c
        BY <1>1, <1>4, <1>5, <2>1, <2>2
      <3> QED
        BY <1>6, <2>2, <3>1 DEF CapInv
    <2>3. CASE h \notin Claimers'
      <3>1. h \notin Others /\ Others \cup {h} \subseteq Others'
        BY <1>2, <2>1, <2>3 DEF Others, Claimers
      <3>2. Cardinality(Others \cup {h}) = free + 1
        BY <1>3, <3>1, FS_AddElement
      <3>3. free + 1 <= more
        BY <1>2, <3>1, <3>2, HandlersFinite, FS_Subset
      <3>4. (free + 1) * c <= more * c
        BY <1>3, <3>3, Times
      <3>5. new <= more * c
        BY <1>1, <1>4, <1>5, <2>1, <3>4
      <3> QED
        BY <1>6, <3>5 DEF CapInv
    <2> QED
      BY <2>2, <2>3
  <1> QED
    BY <1>7, <1>8 DEF CapInv

(* A scan that finds room read a count below the cap.                       *)
LEMMA CapScan ==
  ASSUME NEW c \in Nat \ {0}, NEW r, TypeInv, TypeInv', CapInv(c, r),
         \A d \in Domain : GlobalCap[d] = c /\ RootOf[Seed[d]] = r,
         NEW h \in Handler, ScanJob(h)
  PROVE  CapInv(c, r)'
  <1> DEFINE used == Cardinality(InProgressUnder(rec, r))
             free == Cardinality(Others)
             more == Cardinality(Others')
  <1>0. poll \in [Handler -> PollState] /\ rec' = rec /\ h \notin Claimers
    BY DEF TypeInv, TypeOK, ScanJob, trVars, Claimers
  <1>1. PICK j \in poll[h].jobs :
          poll' = [poll EXCEPT ![h] =
                     IF jobs[j].dom \in domains /\ Room(jobs[j].dom) > 0
                     THEN Claiming(poll[h], j, Room(jobs[j].dom))
                     ELSE Skipping(poll[h], j)]
    BY DEF ScanJob
  <1>2. CASE ~(jobs[j].dom \in domains /\ Room(jobs[j].dom) > 0)
    <2>1. Skipping(poll[h], j).pc = "scan"
      BY <1>0 DEF Skipping, ScanJob, PollState
    <2>2. \A g \in Claimers' : g \in Claimers /\ poll'[g].cap = poll[g].cap
      BY <1>0, <1>1, <1>2, <2>1 DEF Claimers
    <2> QED
      BY <1>0, <2>2, CapCalm
  <1>3. CASE jobs[j].dom \in domains /\ Room(jobs[j].dom) > 0
    <2> DEFINE d == jobs[j].dom
               room == Room(d)
               new == Claiming(poll[h], j, room)
    <2>1. d \in Domain
      BY <1>1, JobTable DEF TypeInv, Refs, PollRefs
    <2>2. used \in Nat
      BY UsedFinite
    <2>3. room \in Nat /\ used + room <= c /\ room <= c
      BY <1>3, <2>1, <2>2, CrawlAssumption DEF Room
    <2>4. new.pc = "claim" /\ new.cap = room
      BY <1>0 DEF Claiming, PollState
    <2>5. poll' = [poll EXCEPT ![h] = new]
      BY <1>1, <1>3
    <2> HIDE DEF new, room, d
    <2>6. /\ Claimers' = Claimers \cup {h} /\ poll'[h].cap = room
          /\ \A g \in Claimers : poll'[g].cap = poll[g].cap
      BY <1>0, <2>4, <2>5 DEF Claimers
    <2>7. more \in Nat /\ (more + 1) * c = more * c + c /\ more * c \in Nat
      BY HandlersFinite, Times DEF Others
    <2>8. used + poll'[h].cap <= (more + 1) * c
      BY <2>2, <2>3, <2>6, <2>7
    <2>9. \A g \in Claimers' : poll'[g].cap <= c
      BY <2>3, <2>6 DEF CapInv
    <2> QED
      BY <1>0, <2>6, <2>8, <2>9 DEF CapInv
  <1> QED
    BY <1>2, <1>3

(* A claim takes no more than the room its handler found.                   *)
LEMMA CapClaim ==
  ASSUME NEW c \in Nat, NEW r, TypeInv, TypeInv', CapInv(c, r),
         NEW h \in Handler, ClaimTasks(h)
  PROVE  CapInv(c, r)'
  <1> DEFINE used == Cardinality(InProgressUnder(rec, r))
             new == Cardinality(InProgressUnder(rec', r))
             free == Cardinality(Others)
             more == Cardinality(Others')
  <1>0. poll \in [Handler -> PollState] /\ rec \in [Key -> Row] /\ h \in Claimers
    BY DEF TypeInv, TypeOK, TrTypeOK, ClaimTasks, Claimers
  <1>1. PICK S \in Batches(rec, poll[h].job, poll[h].cap) :
          /\ rec' = Claim(rec, S)
          /\ \/ poll' = [poll EXCEPT ![h].pc = "scan"]
             \/ poll' = [poll EXCEPT ![h] = IdlePoll]
    BY DEF ClaimTasks
  <1>2. S \in SUBSET Key
    BY DEF Batches, PendingOf, WithStatus
  <1>3. IsFiniteSet(S) /\ Cardinality(S) \in Nat /\ Cardinality(S) <= poll[h].cap
    <2>1. PendingOf(rec, poll[h].job) \in SUBSET Key
      BY DEF PendingOf, WithStatus
    <2>2. Cardinality(PendingOf(rec, poll[h].job)) \in Nat /\ poll[h].cap \in Nat
      BY <1>0, <2>1, KeysFinite DEF PollState
    <2> QED
      BY <1>2, <2>2, KeysFinite DEF Batches
  <1>4. InProgressUnder(rec', r) \subseteq InProgressUnder(rec, r) \cup S
    BY <1>0, <1>1 DEF InProgressUnder, WithStatus, Claim, Row
  <1>5. used \in Nat /\ new \in Nat /\ new <= used + Cardinality(S)
    <2>1. /\ IsFiniteSet(InProgressUnder(rec, r) \cup S)
          /\ Cardinality(InProgressUnder(rec, r) \cup S) <= used + Cardinality(S)
      <3> DEFINE T == InProgressUnder(rec, r)
      <3>1. IsFiniteSet(T) /\ Cardinality(T) \in Nat
        BY UsedFinite
      <3> HIDE DEF T
      <3>2. Cardinality(T \cap S) \in Nat
        BY <3>1, FS_Intersection, FS_CardinalityType
      <3>3. /\ IsFiniteSet(T \cup S)
            /\ Cardinality(T \cup S) = Cardinality(T) + Cardinality(S) - Cardinality(T \cap S)
        BY <1>3, <3>1, FS_Union
      <3>4. Cardinality(T \cup S) <= Cardinality(T) + Cardinality(S)
        BY <1>3, <3>1, <3>2, <3>3
      <3> QED
        BY <3>3, <3>4 DEF T
    <2>2. /\ Cardinality(InProgressUnder(rec, r) \cup S) \in Nat
          /\ new <= Cardinality(InProgressUnder(rec, r) \cup S)
      BY <1>4, <2>1, FS_Subset, FS_CardinalityType
    <2> QED
      BY <1>3, <2>1, <2>2, UsedFinite
  <1>6. /\ Claimers' = Claimers \ {h}
        /\ \A g \in Claimers' : poll'[g].cap = poll[g].cap
    BY <1>0, <1>1 DEF Claimers, IdlePoll, PollState
  <1>7. free \in Nat /\ more = free + 1
    <2>1. Others' = Others \cup {h} /\ h \notin Others
      BY <1>0, <1>6 DEF Others, Claimers
    <2>2. Others \in SUBSET Handler
      BY DEF Others
    <2> QED
      BY <2>1, <2>2, HandlersFinite, FS_AddElement
  <1>8. /\ (free + 1) * c = free * c + c /\ (more + 1) * c = more * c + c
        /\ free * c \in Nat /\ more * c \in Nat /\ more * c = free * c + c
    BY <1>7, Times
  <1>9. \A g \in Claimers : poll[g].cap \in Nat /\ poll[g].cap <= c
    BY <1>0 DEF Claimers, PollState, CapInv
  <1>10. CASE used <= free * c
    <2>1. new <= more * c
      BY <1>0, <1>3, <1>5, <1>8, <1>9, <1>10
    <2> QED
      BY <1>6, <1>9, <2>1 DEF CapInv
  <1>11. CASE \E g \in Claimers : used + poll[g].cap <= (free + 1) * c
    <2>1. PICK g \in Claimers : used + poll[g].cap <= (free + 1) * c
      BY <1>11
    <2>2. CASE g = h
      <3>1. new <= more * c
        BY <1>3, <1>5, <1>8, <1>9, <2>1, <2>2
      <3> QED
        BY <1>6, <1>9, <3>1 DEF CapInv
    <2>3. CASE g # h
      <3>1. g \in Claimers' /\ poll'[g].cap = poll[g].cap
        BY <1>6, <2>1, <2>3
      <3>2. new + poll'[g].cap <= (more + 1) * c
        BY <1>0, <1>3, <1>5, <1>8, <1>9, <2>1, <3>1
      <3> QED
        BY <1>6, <1>9, <3>1, <3>2 DEF CapInv
    <2> QED
      BY <2>2, <2>3
  <1> QED
    BY <1>10, <1>11 DEF CapInv

(* CapOverrunBounded: polls that overlap between CountInProgress and ClaimBatch
   exceed the cap by one cap each at most, if the domains of one root have one
   cap (usecases.go:193-206). *)
THEOREM CapOverrun ==
  ASSUME NEW c \in Nat \ {0}, NEW r,
         \A d \in Domain : GlobalCap[d] = c /\ RootOf[Seed[d]] = r
  PROVE  Spec => []CapOverrunBounded
  <1>1. Init => CapInv(c, r)
    <2> SUFFICES ASSUME Init PROVE CapInv(c, r)
      OBVIOUS
    <2>1. Claimers = {} /\ InProgressUnder(rec, r) = {}
      BY DEF Init, TrInit, Claimers, IdlePoll, InProgressUnder, WithStatus, NoRow
    <2>2. 0 <= Cardinality(Others) * c
      BY HandlersFinite, Times DEF Others
    <2> QED
      BY <2>1, <2>2, FS_EmptySet DEF CapInv
  <1>2. TypeInv /\ TypeInv' /\ CapInv(c, r) /\ [Next]_vars => CapInv(c, r)'
    <2> SUFFICES ASSUME TypeInv, TypeInv', CapInv(c, r), [Next]_vars PROVE CapInv(c, r)'
      OBVIOUS
    <2>1. CASE \E h \in Handler : ScanJob(h)
      BY <2>1, CapScan
    <2>2. CASE \E h \in Handler : ClaimTasks(h)
      BY <2>2, CapClaim
    <2>3. CASE \A h \in Handler : ~ScanJob(h) /\ ~ClaimTasks(h)
      BY <2>3, UsedShrinks, ClaimingSteps, CapCalm
    <2> QED
      BY <2>1, <2>2, <2>3
  <1>3. TypeInv /\ CapInv(c, r) => CapOverrunBounded
    <2> SUFFICES ASSUME TypeInv, CapInv(c, r)
                 PROVE  Cardinality(InProgressUnder(rec, r)) <= Cardinality(Handler) * c
      BY DEF CapOverrunBounded
    <2> DEFINE used == Cardinality(InProgressUnder(rec, r))
               free == Cardinality(Others)
               all == Cardinality(Handler)
    <2>0. poll \in [Handler -> PollState]
      BY DEF TypeInv, TypeOK
    <2>1. /\ IsFiniteSet(Others) /\ free \in Nat /\ all \in Nat /\ free <= all
      BY HandlersFinite DEF Others
    <2>2. used \in Nat /\ free * c \in Nat /\ all * c \in Nat /\ free * c <= all * c
      BY <2>1, UsedFinite, Times
    <2>3. CASE used <= free * c
      BY <2>2, <2>3
    <2>4. CASE \E h \in Claimers : used + poll[h].cap <= (free + 1) * c
      <3>1. PICK h \in Claimers : used + poll[h].cap <= (free + 1) * c
        BY <2>4
      <3>2. Others \cup {h} \in SUBSET Handler /\ Cardinality(Others \cup {h}) = free + 1
        BY <2>1, <3>1, FS_AddElement DEF Others, Claimers
      <3>3. free + 1 <= all
        BY <3>2, HandlersFinite
      <3>4. (free + 1) * c <= all * c /\ (free + 1) * c \in Nat
        BY <2>1, <3>3, Times
      <3>5. poll[h].cap \in Nat
        BY <2>0, <3>1 DEF Claimers, PollState
      <3> QED
        BY <2>2, <3>1, <3>4, <3>5
    <2> QED
      BY <2>3, <2>4 DEF CapInv
  <1> QED
    BY <1>1, <1>2, <1>3, TypeInvariant, PTL DEF Spec
=============================================================================
