---------------------------- MODULE WorkerRunner ----------------------------
(***************************************************************************)
(* The goroutines of a worker (infrastructure/worker/runner.go and         *)
(* robots.go): the loop hands the tasks of a batch to goroutines, at most  *)
(* Slots at a time, waits for all of them and submits what they found.     *)
(* The goroutines share the result slice, under a mutex, and the cache of  *)
(* robots.txt, which outlives the batch.                                   *)
(*                                                                         *)
(* What a page or a robots.txt says is abstracted; how old the rules are   *)
(* that a goroutine goes by is kept.                                       *)
(***************************************************************************)
EXTENDS Naturals, FiniteSets, Sequences

CONSTANTS
  Task,        \* task ids
  Host,        \* hosts of the tasks' URLs
  HostOf,      \* HostOf[t]
  Polite,      \* tasks whose domain has respect_robots_txt
  Slots,       \* --concurrency, the capacity of sem
  Nobody,      \* "no task"
  TTL,         \* lifetime of a cache entry
  Delay,       \* crawl_delay_ms of the tasks
  MaxTime,     \* bound: the clock's last tick, that stands for all later times
  MaxBatches   \* bound: batches polled

ASSUME RunnerAssumption ==
  /\ IsFiniteSet(Task) /\ Nobody \notin Task
  /\ HostOf \in [Task -> Host] /\ Polite \subseteq Task
  /\ Slots \in Nat \ {0} /\ TTL \in Nat /\ Delay \in Nat
  /\ MaxTime \in Nat /\ MaxBatches \in Nat

VARIABLES
  pc,        \* the loop of Run
  batch,     \* tasks of the batch in hand, {} between two batches
  left,      \* those no goroutine was started for
  sem, wg,   \* elements in the channel sem; counter of the WaitGroup
  g,         \* g[t]: the goroutine of task t
  mu,        \* who holds the mutex of results
  results,   \* the slice: the tasks results belong to
  cache,     \* RobotsCache.cache
  now,       \* the clock
  stopping,  \* the context is cancelled
  batches

loopVars == <<pc, batch, left, stopping, batches>>
vars == <<pc, batch, left, sem, wg, g, mu, results, cache, now, stopping, batches>>

Time == 0..MaxTime

(* at: fetchedAt; read: history, when the rules were read, or that reading
   them failed and the entry allows everything. *)
CacheEntry == [known : BOOLEAN, at : Time, read : Time, failed : BOOLEAN]
NoEntry == [known |-> FALSE, at |-> 0, read |-> 0, failed |-> FALSE]

(* since: when it went to sleep; entry: the rules it goes by; asked: when it
   looked for them; seen: results as read under the mutex. *)
Goroutine ==
  [pc    : {"off", "start", "robots", "store", "page", "lock", "append",
            "release", "done"},
   since : Time, entry : CacheEntry, asked : Time, seen : Seq(Task)]
Off == [pc |-> "off", since |-> 0, entry |-> NoEntry, asked |-> 0, seen |-> <<>>]

RunnerTypeOK ==
  /\ pc \in {"poll", "spawn", "submit", "stopped"}
  /\ batch \subseteq Task /\ left \subseteq Task
  /\ sem \in 0..Slots /\ wg \in Nat
  /\ g \in [Task -> Goroutine]
  /\ mu \in Task \cup {Nobody}
  /\ results \in Seq(Task)
  /\ cache \in [Host -> CacheEntry]
  /\ now \in Time
  /\ stopping \in BOOLEAN
  /\ batches \in 0..MaxBatches

Init ==
  /\ pc = "poll" /\ batch = {} /\ left = {}
  /\ sem = 0 /\ wg = 0
  /\ g = [t \in Task |-> Off]
  /\ mu = Nobody /\ results = <<>>
  /\ cache = [h \in Host |-> NoEntry]
  /\ now = 0 /\ stopping = FALSE /\ batches = 0

-----------------------------------------------------------------------------
(* The loop of Run.                                                         *)

(* A poll that yields tasks; one that fails or yields none changes nothing.
   The request dies with the context. *)
Poll(S) ==
  /\ pc = "poll" /\ ~stopping /\ S # {} /\ batches < MaxBatches
  /\ pc' = "spawn" /\ batch' = S /\ left' = S /\ results' = <<>>
  /\ batches' = batches + 1
  /\ UNCHANGED <<sem, wg, g, mu, cache, now, stopping>>

(* wg.Add(1); sem <- struct{}{}; go func                                    *)
MutSpawn_NotAdded(t) ==
  /\ pc = "spawn" /\ t \in left /\ sem < Slots
  /\ left' = left \ {t}
  /\ UNCHANGED wg /\ sem' = sem + 1
  /\ g' = [g EXCEPT ![t] = [Off EXCEPT !.pc = "start", !.since = now]]
  /\ UNCHANGED <<pc, batch, mu, results, cache, now, stopping, batches>>

Spawn(t) ==
  /\ pc = "spawn" /\ t \in left /\ sem < Slots
  /\ left' = left \ {t}
  /\ wg' = wg + 1 /\ sem' = sem + 1
  /\ g' = [g EXCEPT ![t] = [Off EXCEPT !.pc = "start", !.since = now]]
  /\ UNCHANGED <<pc, batch, mu, results, cache, now, stopping, batches>>

(* wg.Wait()                                                                *)
MutWait_ForSlots ==
  /\ pc = "spawn" /\ left = {} /\ sem = 0
  /\ pc' = "submit"
  /\ UNCHANGED <<batch, left, sem, wg, g, mu, results, cache, now, stopping, batches>>

Wait ==
  /\ pc = "spawn" /\ left = {} /\ wg = 0
  /\ pc' = "submit"
  /\ UNCHANGED <<batch, left, sem, wg, g, mu, results, cache, now, stopping, batches>>

(* An error is logged, and the results are dropped either way.              *)
Submit ==
  /\ pc = "submit"
  /\ pc' = "poll" /\ batch' = {}
  /\ UNCHANGED <<left, sem, wg, g, mu, results, cache, now, stopping, batches>>

Return ==
  /\ pc = "poll" /\ stopping
  /\ pc' = "stopped"
  /\ UNCHANGED <<batch, left, sem, wg, g, mu, results, cache, now, stopping, batches>>

-----------------------------------------------------------------------------
(* A goroutine: the crawl delay, IsAllowed, the page, the result.           *)

Goto(t, label) == [g EXCEPT ![t].pc = label]
(* What the goroutine went by no longer matters at label.                   *)
Through(t, label) == [g EXCEPT ![t] = [Off EXCEPT !.pc = label]]

Fresh(e) == e.known /\ now <= e.at + TTL

(* time.Sleep, with the slot in hand *)
MutAwake_Unpaced(t) == now \in Time
Awake(t) == now >= g[t].since + Delay \/ now = MaxTime

(* After the delay: the rules in the cache are fresh, or IsAllowed calls
   fetch, which takes the time before it sends the request. *)
Start(t) ==
  /\ g[t].pc = "start" /\ Awake(t)
  /\ LET e == cache[HostOf[t]] IN
     \/ t \notin Polite /\ g' = Goto(t, "page")
     \/ /\ t \in Polite /\ Fresh(e)
        /\ \/ g' = [g EXCEPT ![t].pc = "page", ![t].entry = e, ![t].asked = now]
           \/ ~e.failed /\ g' = Through(t, "lock")
     \/ /\ t \in Polite /\ ~Fresh(e)
        /\ g' = [g EXCEPT ![t].pc = "robots", ![t].asked = now,
                          ![t].entry = [NoEntry EXCEPT !.known = TRUE, !.at = now]]
  /\ UNCHANGED <<loopVars, sem, wg, mu, results, cache, now>>

(* The host answers, or there is an error or a timeout: then nothing is
   disallowed. *)
ReadRobots(t) ==
  /\ g[t].pc = "robots"
  /\ \E ok \in BOOLEAN :
       g' = [g EXCEPT ![t].pc = "store", ![t].entry.read = now,
                          ![t].entry.failed = ~ok]
  /\ UNCHANGED <<loopVars, sem, wg, mu, results, cache, now>>

(* The entry goes into the cache, over whatever others stored meanwhile, and
   decides: a failed one allows the page. *)
MutStoreRobots_StampsLate(t) ==
  /\ g[t].pc = "store"
  /\ cache' = [cache EXCEPT ![HostOf[t]] = [g[t].entry EXCEPT !.at = now]]
  /\ \/ g' = Goto(t, "page")
     \/ ~g[t].entry.failed /\ g' = Through(t, "lock")
  /\ UNCHANGED <<loopVars, sem, wg, mu, results, now>>

StoreRobots(t) ==
  /\ g[t].pc = "store"
  /\ cache' = [cache EXCEPT ![HostOf[t]] = g[t].entry]
  /\ \/ g' = Goto(t, "page")
     \/ ~g[t].entry.failed /\ g' = Through(t, "lock")
  /\ UNCHANGED <<loopVars, sem, wg, mu, results, now>>

(* The page arrives, or an error; the client's timeout ends both.           *)
FetchPage(t) ==
  /\ g[t].pc = "page"
  /\ g' = Through(t, "lock")
  /\ UNCHANGED <<loopVars, sem, wg, mu, results, cache, now>>

(* mu.Lock(); results = append(results, res); mu.Unlock()                   *)
MutLock_NotHeld(t) ==
  /\ g[t].pc = "lock"
  /\ mu' = t
  /\ g' = [g EXCEPT ![t].pc = "append", ![t].seen = results]
  /\ UNCHANGED <<loopVars, sem, wg, results, cache, now>>

Lock(t) ==
  /\ g[t].pc = "lock" /\ mu = Nobody
  /\ mu' = t
  /\ g' = [g EXCEPT ![t].pc = "append", ![t].seen = results]
  /\ UNCHANGED <<loopVars, sem, wg, results, cache, now>>

MutAppendResult_NoUnlock(t) ==
  /\ g[t].pc = "append"
  /\ results' = Append(g[t].seen, t)
  /\ g' = Through(t, "release")
  /\ UNCHANGED <<loopVars, sem, wg, mu, cache, now>>

AppendResult(t) ==
  /\ g[t].pc = "append"
  /\ results' = Append(g[t].seen, t)
  /\ mu' = Nobody
  /\ g' = Through(t, "release")
  /\ UNCHANGED <<loopVars, sem, wg, cache, now>>

(* The deferred calls, last first: <-sem, then wg.Done().                   *)
MutRelease_Leaks(t) ==
  /\ g[t].pc = "release"
  /\ UNCHANGED sem
  /\ g' = Goto(t, "done")
  /\ UNCHANGED <<loopVars, wg, mu, results, cache, now>>

Release(t) ==
  /\ g[t].pc = "release" /\ sem > 0
  /\ sem' = sem - 1
  /\ g' = Goto(t, "done")
  /\ UNCHANGED <<loopVars, wg, mu, results, cache, now>>

Done(t) ==
  /\ g[t].pc = "done"
  /\ wg' = wg - 1
  /\ g' = [g EXCEPT ![t] = Off]
  /\ UNCHANGED <<loopVars, sem, mu, results, cache, now>>

-----------------------------------------------------------------------------
Tick ==
  /\ now < MaxTime
  /\ now' = now + 1
  /\ UNCHANGED <<loopVars, sem, wg, g, mu, results, cache>>

(* SIGINT or SIGTERM cancels the context: requests of the loop and page
   fetches fail from now on, robots.txt is still asked for. *)
Stop ==
  /\ ~stopping /\ pc # "stopped"
  /\ stopping' = TRUE
  /\ UNCHANGED <<pc, batch, left, sem, wg, g, mu, results, cache, now, batches>>

LoopStep == (\E t \in Task : Spawn(t)) \/ Wait \/ Submit \/ Return

TaskStep(t) ==
  \/ Start(t) \/ ReadRobots(t) \/ StoreRobots(t) \/ FetchPage(t)
  \/ Lock(t) \/ AppendResult(t) \/ Release(t) \/ Done(t)

Next ==
  \/ \E S \in SUBSET Task : Poll(S)
  \/ LoopStep
  \/ \E t \in Task : TaskStep(t)
  \/ Tick \/ Stop

Spec == Init /\ [][Next]_vars

(* Goroutines keep running, every request ends, for the client has a timeout,
   and time goes on. *)
Fairness ==
  /\ WF_vars(LoopStep) /\ WF_vars(Tick)
  /\ \A t \in Task : WF_vars(TaskStep(t))

FairSpec == Spec /\ Fairness

-----------------------------------------------------------------------------
(* At most --concurrency goroutines work on pages, and between two batches
   none is left, so that a batch starts with all slots free (runner.go:122-148). *)
Working(t) == g[t].pc \notin {"off", "done"}

SlotsBound ==
  /\ Cardinality({t \in Task : Working(t)}) <= Slots
  /\ pc # "spawn" => sem = 0 /\ \A t \in Task : g[t].pc = "off"

(* The rules a page is fetched under were read at most a TTL before they were
   asked for, whichever of several overlapping requests stored its entry last;
   unless reading them failed (robots.go:33-63). *)
RulesFresh ==
  \A t \in Polite :
    g[t].pc = "page" => g[t].entry.failed \/ g[t].asked <= g[t].entry.read + TTL

(* What a goroutine waits for.  One that sleeps or has sent a request waits for
   nobody: the time and the client's timeout end that. *)
Blocked(t) ==
  \/ g[t].pc = "off"
  \/ g[t].pc = "lock" /\ mu # Nobody
  \/ g[t].pc = "release" /\ sem = 0

(* The loop waits for a slot, or for the WaitGroup, the goroutines for the mutex
   and for the channel; they never all wait at once (runner.go:128-146). *)
NeverStuck ==
  pc = "spawn" => \/ left # {} /\ sem < Slots
                  \/ left = {} /\ wg = 0
                  \/ \E t \in Task : ~Blocked(t)

(* Every batch is submitted, whatever its pages do, also when the worker is
   told to stop meanwhile (runner.go:117-151). *)
BatchEnds == pc = "spawn" ~> pc = "submit"

(* A worker that is told to stop returns from Run.                          *)
StopEnds == stopping ~> pc = "stopped"

(* Every task of a batch has one result when the batch is submitted, and no
   result is lost or doubled on the way, although goroutines append to one
   slice and end in any order. *)
L == INSTANCE WorkerLoop WITH
  todo <- {t \in batch : \A i \in 1..Len(results) : results[i] # t},
  got  <- IF batch = {} THEN <<>> ELSE results

LoopSpec == L!Spec
=============================================================================
