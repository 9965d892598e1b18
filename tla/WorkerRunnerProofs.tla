------------------------- MODULE WorkerRunnerProofs -------------------------
(* WorkerRunner and WorkerPace for any tasks, hosts, slots and delays. *)
EXTENDS WorkerPace, FiniteSetTheorems, TLAPS

Running == {t \in Task : g[t].pc # "off"}
Holding == {t \in Task : Working(t)}

(* The channel and the WaitGroup count what they are meant to count, and a
   goroutine belongs to the batch in hand. *)
Counted ==
  /\ sem = Cardinality(Holding) /\ wg = Cardinality(Running)
  /\ left \subseteq batch /\ Running \subseteq batch \ left
  /\ pc # "spawn" => left = {} /\ Running = {}
  /\ pc \notin {"spawn", "submit"} => batch = {}

HasResult(t) == \E i \in 1..Len(results) : results[i] = t

(* The slice under the mutex: who is about to write it has read it as it is,
   and a task has a result once its goroutine is through with it. *)
Appended ==
  /\ \A t \in Task : g[t].pc = "append" => mu = t /\ g[t].seen = results
  /\ \A t \in batch :
       HasResult(t) <=> t \notin left /\ g[t].pc \in {"release", "done", "off"}

(* An entry is as old as it says or younger, in the cache and in the hands of
   the goroutine that reads it. *)
RulesOf(t) ==
  CASE g[t].pc = "robots" -> g[t].asked <= g[t].entry.at /\ g[t].entry.at <= now
    [] g[t].pc = "store" -> \/ g[t].entry.failed
                            \/ /\ g[t].asked <= g[t].entry.at
                               /\ g[t].entry.at <= g[t].entry.read
    [] g[t].pc = "page" -> \/ g[t].entry.failed
                           \/ g[t].asked <= g[t].entry.read + TTL
    [] OTHER -> TRUE

Dated ==
  /\ \A h \in Host : cache[h].known => cache[h].failed \/ cache[h].at <= cache[h].read
  /\ \A t \in Polite : RulesOf(t)
  /\ \A t \in Task : g[t].pc \in {"robots", "store"} => t \in Polite

-----------------------------------------------------------------------------
(* What a step of the goroutine of t does to g: it writes its own record.    *)
Sets(t, r) == r \in Goroutine /\ g' = [g EXCEPT ![t] = r]

LEMMA OffTyped ==
  /\ NoEntry \in CacheEntry /\ Off \in Goroutine /\ Off.pc = "off"
  /\ \A l \in {"start", "page", "lock", "release"} :
       /\ [Off EXCEPT !.pc = l] \in Goroutine
       /\ [Off EXCEPT !.pc = l].pc = l
  <1>1. 0 \in Time
    BY RunnerAssumption DEF Time
  <1>2. NoEntry \in CacheEntry
    BY <1>1 DEF NoEntry, CacheEntry
  <1>3. <<>> \in Seq(Task)
    OBVIOUS
  <1>4. Off \in Goroutine /\ Off.pc = "off"
    BY <1>1, <1>2, <1>3 DEF Off, Goroutine
  <1> QED
    BY <1>2, <1>4 DEF Goroutine

(* Each step, as the record it leaves.                                       *)
LEMMA StartSets ==
  ASSUME RunnerTypeOK, NEW t \in Task, Start(t)
  PROVE  \E r : /\ Sets(t, r) /\ r.pc \in {"page", "lock", "robots"}
                /\ t \in Polite /\ r.pc = "page" =>
                     /\ r.entry = cache[HostOf[t]] /\ r.asked = now
                     /\ Fresh(cache[HostOf[t]])
                /\ r.pc = "robots" =>
                     t \in Polite /\ r.entry.at = now /\ r.asked = now
  <1>1. g[t] \in Goroutine /\ cache[HostOf[t]] \in CacheEntry /\ now \in Time
    BY RunnerAssumption DEF RunnerTypeOK
  <1>2. CASE t \notin Polite /\ g' = Goto(t, "page")
    <2> DEFINE r == [g[t] EXCEPT !.pc = "page"]
    <2>1. r \in Goroutine /\ r.pc = "page"
      BY <1>1 DEF Goroutine
    <2>2. g' = [g EXCEPT ![t] = r]
      BY <1>2 DEF Goto
    <2> QED
      BY <1>2, <2>1, <2>2 DEF Sets
  <1>3. CASE /\ t \in Polite /\ Fresh(cache[HostOf[t]])
             /\ g' = [g EXCEPT ![t].pc = "page", ![t].entry = cache[HostOf[t]],
                               ![t].asked = now]
    <2> DEFINE r == [g[t] EXCEPT !.pc = "page", !.entry = cache[HostOf[t]],
                                 !.asked = now]
    <2>1. r \in Goroutine /\ r.pc = "page" /\ r.entry = cache[HostOf[t]] /\ r.asked = now
      BY <1>1 DEF Goroutine
    <2>2. g' = [g EXCEPT ![t] = r]
      BY <1>1, <1>3 DEF RunnerTypeOK, Goroutine
    <2> QED
      BY <1>3, <2>1, <2>2 DEF Sets
  <1>4. CASE g' = Through(t, "lock")
    BY <1>4, OffTyped DEF Sets, Through
  <1>5. CASE /\ t \in Polite
             /\ g' = [g EXCEPT ![t].pc = "robots", ![t].asked = now,
                          ![t].entry = [NoEntry EXCEPT !.known = TRUE, !.at = now]]
    <2> DEFINE e == [NoEntry EXCEPT !.known = TRUE, !.at = now]
               r == [g[t] EXCEPT !.pc = "robots", !.asked = now, !.entry = e]
    <2>1. e \in CacheEntry /\ e.at = now
      BY <1>1, OffTyped DEF CacheEntry
    <2>2. r \in Goroutine /\ r.pc = "robots" /\ r.entry.at = now /\ r.asked = now
      BY <1>1, <2>1 DEF Goroutine
    <2>3. g' = [g EXCEPT ![t] = r]
      BY <1>1, <1>5 DEF RunnerTypeOK, Goroutine
    <2> QED
      BY <1>5, <2>2, <2>3 DEF Sets
  <1> QED
    BY <1>2, <1>3, <1>4, <1>5 DEF Start

LEMMA ReadSets ==
  ASSUME RunnerTypeOK, NEW t \in Task, ReadRobots(t)
  PROVE  \E r : /\ Sets(t, r) /\ r.pc = "store"
                /\ r.entry.at = g[t].entry.at /\ r.entry.read = now
                /\ r.asked = g[t].asked
  <1>1. g[t] \in Goroutine /\ g[t].entry \in CacheEntry /\ now \in Time
    BY DEF RunnerTypeOK, Goroutine
  <1>2. PICK ok \in BOOLEAN :
          g' = [g EXCEPT ![t].pc = "store", ![t].entry.read = now,
                         ![t].entry.failed = ~ok]
    BY DEF ReadRobots
  <1> DEFINE e == [g[t].entry EXCEPT !.read = now, !.failed = ~ok]
             r == [g[t] EXCEPT !.pc = "store", !.entry = e]
  <1>3. e \in CacheEntry /\ e.at = g[t].entry.at /\ e.read = now
    BY <1>1 DEF CacheEntry
  <1>4. r \in Goroutine /\ r.pc = "store" /\ r.entry = e /\ r.asked = g[t].asked
    BY <1>1, <1>3 DEF Goroutine
  <1>5. g' = [g EXCEPT ![t] = r]
    BY <1>1, <1>2 DEF RunnerTypeOK, Goroutine, CacheEntry
  <1> QED
    BY <1>3, <1>4, <1>5 DEF Sets

LEMMA StoreSets ==
  ASSUME RunnerTypeOK, NEW t \in Task, StoreRobots(t)
  PROVE  \E r : /\ Sets(t, r) /\ r.pc \in {"page", "lock"}
                /\ r.pc = "page" => r.entry = g[t].entry /\ r.asked = g[t].asked
  <1>1. g[t] \in Goroutine
    BY DEF RunnerTypeOK
  <1>2. CASE g' = Goto(t, "page")
    <2> DEFINE r == [g[t] EXCEPT !.pc = "page"]
    <2>1. r \in Goroutine /\ r.pc = "page" /\ r.entry = g[t].entry /\ r.asked = g[t].asked
      BY <1>1 DEF Goroutine
    <2>2. g' = [g EXCEPT ![t] = r]
      BY <1>2 DEF Goto
    <2> QED
      BY <2>1, <2>2 DEF Sets
  <1>3. CASE g' = Through(t, "lock")
    BY <1>3, OffTyped DEF Sets, Through
  <1> QED
    BY <1>2, <1>3 DEF StoreRobots

LEMMA LastSets ==
  ASSUME RunnerTypeOK, NEW t \in Task
  PROVE  /\ FetchPage(t) => \E r : Sets(t, r) /\ r.pc = "lock"
         /\ Lock(t) => \E r : Sets(t, r) /\ r.pc = "append" /\ r.seen = results
         /\ AppendResult(t) => \E r : Sets(t, r) /\ r.pc = "release"
         /\ Release(t) => \E r : Sets(t, r) /\ r.pc = "done"
         /\ Done(t) => \E r : Sets(t, r) /\ r.pc = "off"
         /\ Spawn(t) => \E r : Sets(t, r) /\ r.pc = "start"
  <1>1. g[t] \in Goroutine /\ results \in Seq(Task)
    BY DEF RunnerTypeOK
  <1>2. ASSUME Lock(t) PROVE \E r : Sets(t, r) /\ r.pc = "append" /\ r.seen = results
    <2> DEFINE r == [g[t] EXCEPT !.pc = "append", !.seen = results]
    <2>1. r \in Goroutine /\ r.pc = "append" /\ r.seen = results
      BY <1>1 DEF Goroutine
    <2>2. g' = [g EXCEPT ![t] = r]
      BY <1>1, <1>2 DEF Lock, RunnerTypeOK, Goroutine
    <2> QED
      BY <2>1, <2>2 DEF Sets
  <1>3. ASSUME Release(t) PROVE \E r : Sets(t, r) /\ r.pc = "done"
    <2> DEFINE r == [g[t] EXCEPT !.pc = "done"]
    <2>1. r \in Goroutine /\ r.pc = "done"
      BY <1>1 DEF Goroutine
    <2>2. g' = [g EXCEPT ![t] = r]
      BY <1>3 DEF Release, Goto
    <2> QED
      BY <2>1, <2>2 DEF Sets
  <1>4. /\ FetchPage(t) => g' = [g EXCEPT ![t] = [Off EXCEPT !.pc = "lock"]]
        /\ AppendResult(t) => g' = [g EXCEPT ![t] = [Off EXCEPT !.pc = "release"]]
        /\ Done(t) => g' = [g EXCEPT ![t] = Off]
    BY DEF FetchPage, AppendResult, Done, Through
  <1>5. ASSUME Spawn(t) PROVE \E r : Sets(t, r) /\ r.pc = "start"
    <2> DEFINE r == [Off EXCEPT !.pc = "start", !.since = now]
    <2>1. r \in Goroutine /\ r.pc = "start"
      BY OffTyped DEF RunnerTypeOK, Goroutine
    <2>2. g' = [g EXCEPT ![t] = r]
      BY <1>5 DEF Spawn
    <2> QED
      BY <2>1, <2>2 DEF Sets
  <1> QED
    BY <1>2, <1>3, <1>4, <1>5, OffTyped DEF Sets

-----------------------------------------------------------------------------
(* Counting.                                                                 *)
LEMMA Sizes ==
  ASSUME NEW S \in SUBSET Task, NEW t \in Task
  PROVE  /\ Cardinality(S) \in Nat
         /\ t \notin S => Cardinality(S \cup {t}) = Cardinality(S) + 1
         /\ t \in S => Cardinality(S \ {t}) = Cardinality(S) - 1 /\ Cardinality(S) > 0
  <1>1. IsFiniteSet(S)
    BY RunnerAssumption, FS_Subset
  <1>2. Cardinality(S) \in Nat
    BY <1>1, FS_CardinalityType
  <1>3. t \notin S => Cardinality(S \cup {t}) = Cardinality(S) + 1
    BY <1>1, FS_AddElement
  <1>4. t \in S => Cardinality(S \ {t}) = Cardinality(S) - 1
    BY <1>1, FS_RemoveElement
  <1>5. t \in S => Cardinality(S) # 0
    BY <1>1, FS_EmptySet
  <1> QED
    BY <1>2, <1>3, <1>4, <1>5

LEMMA SetsCount ==
  ASSUME RunnerTypeOK, NEW t \in Task, NEW r, Sets(t, r)
  PROVE  /\ g' \in [Task -> Goroutine] /\ g'[t] = r
         /\ \A u \in Task \ {t} : g'[u] = g[u]
         /\ Running' = IF r.pc = "off" THEN Running \ {t} ELSE Running \cup {t}
         /\ Holding' = IF r.pc \in {"off", "done"} THEN Holding \ {t}
                       ELSE Holding \cup {t}
  <1>1. /\ g' \in [Task -> Goroutine] /\ g'[t] = r
        /\ \A u \in Task \ {t} : g'[u] = g[u]
    BY DEF Sets, RunnerTypeOK
  <1>2. Running' = IF r.pc = "off" THEN Running \ {t} ELSE Running \cup {t}
    BY <1>1 DEF Running
  <1>3. Holding' = IF r.pc \in {"off", "done"} THEN Holding \ {t}
                   ELSE Holding \cup {t}
    BY <1>1 DEF Holding, Working
  <1> QED
    BY <1>1, <1>2, <1>3

(* A step between the two ends of a goroutine keeps the counts.              *)
LEMMA InnerCount ==
  ASSUME RunnerTypeOK, Counted, NEW t \in Task, NEW r, Sets(t, r),
         g[t].pc \notin {"off", "done"}, r.pc \notin {"off", "done"},
         UNCHANGED <<loopVars, sem, wg>>
  PROVE  Counted'
  <1>1. Running' = Running /\ Holding' = Holding
    BY SetsCount DEF Running, Holding, Working
  <1> QED
    BY <1>1 DEF Counted, loopVars

CoreInv == RunnerTypeOK /\ Counted

LEMMA CoreInit == Init => CoreInv
  <1> SUFFICES ASSUME Init PROVE CoreInv
    OBVIOUS
  <1>1. 0 \in Time /\ NoEntry \in CacheEntry /\ Off \in Goroutine /\ Off.pc = "off"
    BY OffTyped, RunnerAssumption DEF Time
  <1>2. RunnerTypeOK
    <2>1. /\ g \in [Task -> Goroutine] /\ cache \in [Host -> CacheEntry]
          /\ now \in Time /\ results \in Seq(Task)
      BY <1>1 DEF Init
    <2>2. sem \in 0..Slots /\ wg \in Nat /\ batches \in 0..MaxBatches
      BY RunnerAssumption DEF Init
    <2> QED
      BY <2>1, <2>2 DEF Init, RunnerTypeOK
  <1>3. Running = {} /\ Holding = {}
    BY <1>1 DEF Init, Running, Holding, Working
  <1> QED
    BY <1>2, <1>3, FS_EmptySet DEF Init, CoreInv, Counted

LEMMA CoreLoop ==
  ASSUME CoreInv, NEW t \in Task, Spawn(t)
  PROVE  CoreInv'
  <1> USE DEF CoreInv
  <1>1. PICK r : Sets(t, r) /\ r.pc = "start"
    BY LastSets
  <1>2. t \notin Running /\ t \notin Holding
    BY DEF Spawn, Counted, Running, Holding, Working
  <1>3. Running' = Running \cup {t} /\ Holding' = Holding \cup {t}
    BY <1>1, SetsCount
  <1>4. Running \in SUBSET Task /\ Holding \in SUBSET Task
    BY DEF Running, Holding
  <1>5. wg' = Cardinality(Running') /\ sem' = Cardinality(Holding')
    BY <1>2, <1>3, <1>4, Sizes DEF Counted, Spawn
  <1>6. wg' \in Nat /\ sem' \in 0..Slots
    BY RunnerAssumption DEF Spawn, RunnerTypeOK
  <1>7. RunnerTypeOK'
    BY <1>1, <1>6, SetsCount DEF Spawn, RunnerTypeOK
  <1>8. /\ left' \subseteq batch' /\ Running' \subseteq batch' \ left'
        /\ pc' = "spawn"
    BY <1>2, <1>3 DEF Spawn, Counted, RunnerTypeOK
  <1> QED
    BY <1>5, <1>7, <1>8 DEF Counted

LEMMA CoreTask ==
  ASSUME CoreInv, NEW t \in Task, TaskStep(t)
  PROVE  CoreInv'
  <1> USE DEF CoreInv
  <1>0. Running \in SUBSET Task /\ Holding \in SUBSET Task
    BY DEF Running, Holding
  <1>1. ASSUME Start(t) \/ ReadRobots(t) \/ FetchPage(t) PROVE CoreInv'
    <2>1. PICK r : Sets(t, r) /\ r.pc \in {"page", "lock", "robots", "store"}
      BY <1>1, StartSets, ReadSets, LastSets
    <2>2. /\ g[t].pc \in {"start", "robots", "page"}
          /\ UNCHANGED <<loopVars, sem, wg, mu, results, cache, now>>
      BY <1>1 DEF Start, ReadRobots, FetchPage
    <2>3. RunnerTypeOK'
      BY <2>1, <2>2, SetsCount DEF RunnerTypeOK, loopVars
    <2> QED
      BY <2>1, <2>2, <2>3, InnerCount
  <1>2. ASSUME StoreRobots(t) PROVE CoreInv'
    <2>1. PICK r : Sets(t, r) /\ r.pc \in {"page", "lock"}
      BY <1>2, StoreSets
    <2>2. g[t].pc = "store" /\ UNCHANGED <<loopVars, sem, wg, mu, results, now>>
      BY <1>2 DEF StoreRobots
    <2>3. cache' \in [Host -> CacheEntry]
      BY <1>2, RunnerAssumption DEF StoreRobots, RunnerTypeOK, Goroutine
    <2>4. RunnerTypeOK'
      BY <2>1, <2>2, <2>3, SetsCount DEF RunnerTypeOK, loopVars
    <2> QED
      BY <2>1, <2>2, <2>4, InnerCount
  <1>3. ASSUME Lock(t) \/ AppendResult(t) PROVE CoreInv'
    <2>1. PICK r : Sets(t, r) /\ r.pc \in {"append", "release"}
      BY <1>3, LastSets
    <2>2. /\ g[t].pc \in {"lock", "append"}
          /\ UNCHANGED <<loopVars, sem, wg, cache, now>>
      BY <1>3 DEF Lock, AppendResult
    <2>3. mu' \in Task \cup {Nobody} /\ results' \in Seq(Task)
      <3>1. g[t].seen \in Seq(Task) /\ results \in Seq(Task)
        BY DEF RunnerTypeOK, Goroutine
      <3>2. CASE Lock(t)
        BY <3>1, <3>2 DEF Lock
      <3>3. CASE AppendResult(t)
        BY <3>1, <3>3 DEF AppendResult
      <3> QED
        BY <1>3, <3>2, <3>3
    <2>4. RunnerTypeOK'
      BY <2>1, <2>2, <2>3, SetsCount DEF RunnerTypeOK, loopVars
    <2> QED
      BY <2>1, <2>2, <2>4, InnerCount
  <1>4. ASSUME Release(t) PROVE CoreInv'
    <2>1. PICK r : Sets(t, r) /\ r.pc = "done"
      BY <1>4, LastSets
    <2>2. t \in Holding /\ t \in Running
      BY <1>4 DEF Release, Holding, Running, Working
    <2>3. Running' = Running /\ Holding' = Holding \ {t}
      BY <2>1, <2>2, SetsCount
    <2>4. sem' = Cardinality(Holding') /\ sem' \in 0..Slots
      BY <1>0, <1>4, <2>2, <2>3, Sizes, RunnerAssumption
      DEF Release, Counted, RunnerTypeOK
    <2>5. RunnerTypeOK'
      BY <1>4, <2>1, <2>4, SetsCount DEF Release, RunnerTypeOK, loopVars
    <2> QED
      BY <1>4, <2>3, <2>4, <2>5 DEF Release, Counted, loopVars
  <1>5. ASSUME Done(t) PROVE CoreInv'
    <2>1. PICK r : Sets(t, r) /\ r.pc = "off"
      BY <1>5, LastSets
    <2>2. t \notin Holding /\ t \in Running
      BY <1>5 DEF Done, Holding, Running, Working
    <2>3. Running' = Running \ {t} /\ Holding' = Holding
      BY <2>1, <2>2, SetsCount
    <2>4. wg' = Cardinality(Running') /\ wg' \in Nat
      BY <1>0, <1>5, <2>2, <2>3, Sizes DEF Done, Counted
    <2>5. RunnerTypeOK'
      BY <1>5, <2>1, <2>4, SetsCount DEF Done, RunnerTypeOK, loopVars
    <2> QED
      BY <1>5, <2>3, <2>4, <2>5 DEF Done, Counted, loopVars
  <1> QED
    BY <1>1, <1>2, <1>3, <1>4, <1>5 DEF TaskStep

LEMMA CoreOther ==
  ASSUME CoreInv,
         (\E S \in SUBSET Task : Poll(S)) \/ Wait \/ Submit \/ Return \/ Tick \/ Stop
           \/ UNCHANGED vars
  PROVE  CoreInv'
  <1> USE DEF CoreInv
  <1>1. UNCHANGED <<g, sem, wg>> /\ Running' = Running /\ Holding' = Holding
    BY DEF Poll, Wait, Submit, Return, Tick, Stop, vars, loopVars, Running, Holding,
       Working
  <1>2. ASSUME NEW S \in SUBSET Task, Poll(S) PROVE CoreInv'
    <2>1. /\ Running = {} /\ pc' = "spawn" /\ batch' = S /\ left' = S
          /\ results' = <<>> /\ batches' \in 0..MaxBatches
          /\ UNCHANGED <<mu, cache, now, stopping>>
      BY <1>2, RunnerAssumption DEF Poll, RunnerTypeOK, Counted
    <2>2. <<>> \in Seq(Task)
      OBVIOUS
    <2>3. RunnerTypeOK'
      BY <1>1, <2>1, <2>2 DEF RunnerTypeOK
    <2>4. Counted'
      BY <1>1, <2>1 DEF Counted
    <2> QED
      BY <2>3, <2>4
  <1>3. ASSUME Wait PROVE CoreInv'
    <2>1. Running = {}
      <3>1. IsFiniteSet(Running)
        BY RunnerAssumption, FS_Subset DEF Running
      <3> QED
        BY <1>3, <3>1, FS_EmptySet DEF Wait, Counted
    <2> QED
      BY <1>1, <1>3, <2>1 DEF Wait, RunnerTypeOK, Counted
  <1>4. CASE Submit \/ Return
    BY <1>1, <1>4 DEF Submit, Return, RunnerTypeOK, Counted
  <1>5. ASSUME Tick \/ Stop \/ UNCHANGED vars PROVE CoreInv'
    <2>1. UNCHANGED <<pc, batch, left, batches, mu, results, cache>>
      BY <1>5 DEF Tick, Stop, vars, loopVars
    <2>2. now' \in Time
      BY <1>5, RunnerAssumption DEF Tick, Stop, vars, RunnerTypeOK, Time
    <2>3. stopping' \in BOOLEAN
      BY <1>5 DEF Tick, Stop, vars, loopVars, RunnerTypeOK
    <2> QED
      BY <1>1, <2>1, <2>2, <2>3 DEF RunnerTypeOK, Counted
  <1> QED
    BY <1>2, <1>3, <1>4, <1>5

LEMMA CoreStep == CoreInv /\ [Next]_vars => CoreInv'
  BY CoreLoop, CoreTask, CoreOther DEF Next, LoopStep

LEMMA CoreAlways == Spec => []CoreInv
  BY CoreInit, CoreStep, PTL DEF Spec

(* Type correctness of the worker.                                          *)
THEOREM RunnerTyped == Spec => []RunnerTypeOK
  BY CoreAlways, PTL DEF CoreInv

(* At most --concurrency goroutines are at work, and no slot is taken and none
   runs between two batches. *)
THEOREM SlotsKept == Spec => []SlotsBound
  <1>1. CoreInv => SlotsBound
    <2> SUFFICES ASSUME CoreInv PROVE SlotsBound
      OBVIOUS
    <2>1. Cardinality({t \in Task : Working(t)}) <= Slots
      BY RunnerAssumption DEF CoreInv, Counted, RunnerTypeOK, Holding
    <2>2. pc # "spawn" => \A t \in Task : g[t].pc = "off"
      BY DEF CoreInv, Counted, Running
    <2>3. pc # "spawn" => Holding = {}
      BY <2>2 DEF Holding, Working
    <2>4. pc # "spawn" => sem = 0
      BY <2>3, FS_EmptySet DEF CoreInv, Counted
    <2> QED
      BY <2>1, <2>2, <2>4 DEF SlotsBound
  <1> QED
    BY <1>1, CoreAlways, PTL

-----------------------------------------------------------------------------
(* Appending.                                                                *)
LoopInv == CoreInv /\ Appended

(* A goroutine that does not touch the slice and neither reaches nor leaves
   the part in which its task has a result. *)
LEMMA AsideAppended ==
  ASSUME LoopInv, NEW t \in Task, NEW r, Sets(t, r),
         r.pc # "append", UNCHANGED <<batch, left, results, mu>>,
         g[t].pc \in {"release", "done", "off"} <=> r.pc \in {"release", "done", "off"}
  PROVE  Appended'
  <1> USE DEF LoopInv, CoreInv
  <1>1. g'[t] = r /\ \A u \in Task \ {t} : g'[u] = g[u]
    BY SetsCount
  <1>2. \A u \in Task : g'[u].pc = "append" => mu' = u /\ g'[u].seen = results'
    BY <1>1 DEF Appended
  <1>3. \A u \in Task : g'[u].pc \in {"release", "done", "off"}
                          <=> g[u].pc \in {"release", "done", "off"}
    BY <1>1
  <1>4. batch \subseteq Task
    BY DEF RunnerTypeOK
  <1>5. \A u \in batch : HasResult(u)' <=> HasResult(u)
    BY DEF HasResult
  <1> QED
    BY <1>2, <1>3, <1>4, <1>5 DEF Appended

LEMMA AppendInit == Init => Appended
  BY OffTyped DEF Init, Appended, HasResult

LEMMA AppendSpawn ==
  ASSUME LoopInv, NEW t \in Task, Spawn(t)
  PROVE  Appended'
  <1> USE DEF LoopInv, CoreInv
  <1>1. PICK r : Sets(t, r) /\ r.pc = "start"
    BY LastSets
  <1>2. g'[t].pc = "start" /\ \A u \in Task \ {t} : g'[u] = g[u]
    BY <1>1, SetsCount
  <1>3. /\ UNCHANGED <<batch, results, mu>> /\ left' = left \ {t} /\ t \in left
    BY DEF Spawn
  <1>4. \A u \in batch : HasResult(u)' <=> HasResult(u)
    BY <1>3 DEF HasResult
  <1>5. batch \subseteq Task
    BY DEF RunnerTypeOK
  <1> QED
    BY <1>2, <1>3, <1>4, <1>5 DEF Appended

LEMMA AppendLock ==
  ASSUME LoopInv, NEW t \in Task, Lock(t)
  PROVE  Appended'
  <1> USE DEF LoopInv, CoreInv
  <1>1. PICK r : Sets(t, r) /\ r.pc = "append" /\ r.seen = results
    BY LastSets
  <1>2. g'[t] = r /\ \A u \in Task \ {t} : g'[u] = g[u]
    BY <1>1, SetsCount
  <1>3. /\ mu = Nobody /\ mu' = t /\ g[t].pc = "lock"
        /\ UNCHANGED <<batch, left, results>>
    BY DEF Lock, loopVars
  <1>4. \A u \in batch : HasResult(u)' <=> HasResult(u)
    BY <1>3 DEF HasResult
  <1>5. batch \subseteq Task /\ Nobody \notin Task
    BY RunnerAssumption DEF RunnerTypeOK
  <1> QED
    BY <1>1, <1>2, <1>3, <1>4, <1>5 DEF Appended

(* The result of t joins those there are, and nobody else holds the slice.   *)
LEMMA AppendKnown ==
  ASSUME LoopInv, NEW t \in Task, AppendResult(t)
  PROVE  /\ results' = Append(results, t)
         /\ \A u \in Task : HasResult(u)' <=> HasResult(u) \/ u = t
         /\ t \in batch /\ ~HasResult(t)
  <1> USE DEF LoopInv, CoreInv
  <1>1. results \in Seq(Task) /\ results' = Append(results, t) /\ g[t].pc = "append"
    BY DEF AppendResult, Appended, RunnerTypeOK
  <1>2. \A u \in Task : HasResult(u)' <=> HasResult(u) \/ u = t
    <2>1. Len(results') = Len(results) + 1 /\ Len(results) \in Nat
      BY <1>1
    <2>2. \A i \in 1..Len(results) : results'[i] = results[i]
      BY <1>1
    <2>3. results'[Len(results) + 1] = t
      BY <1>1
    <2>4. 1..Len(results') = 1..Len(results) \cup {Len(results) + 1}
      BY <2>1
    <2> QED
      BY <2>2, <2>3, <2>4 DEF HasResult
  <1>3. t \in batch /\ t \notin left
    BY <1>1 DEF Counted, Running
  <1> QED
    BY <1>1, <1>2, <1>3 DEF Appended

LEMMA AppendAppend ==
  ASSUME LoopInv, NEW t \in Task, AppendResult(t)
  PROVE  Appended'
  <1> USE DEF LoopInv, CoreInv
  <1>1. PICK r : Sets(t, r) /\ r.pc = "release"
    BY LastSets
  <1>2. g'[t].pc = "release" /\ \A u \in Task \ {t} : g'[u] = g[u]
    BY <1>1, SetsCount
  <1>3. g[t].pc = "append" /\ UNCHANGED <<batch, left>>
    BY DEF AppendResult, loopVars
  <1>4. \A u \in Task : g'[u].pc # "append"
    BY <1>2, <1>3 DEF Appended
  <1>5. batch \subseteq Task /\ t \in batch \ left
    BY <1>3 DEF RunnerTypeOK, Counted, Running
  <1> QED
    BY <1>2, <1>3, <1>4, <1>5, AppendKnown DEF Appended

LEMMA AppendTask ==
  ASSUME LoopInv, NEW t \in Task, TaskStep(t)
  PROVE  Appended'
  <1> USE DEF LoopInv, CoreInv
  <1>1. ASSUME Start(t) \/ ReadRobots(t) \/ StoreRobots(t) \/ FetchPage(t)
        PROVE  Appended'
    <2>1. PICK r : Sets(t, r) /\ r.pc \in {"page", "lock", "robots", "store"}
      BY <1>1, StartSets, ReadSets, StoreSets, LastSets
    <2>2. /\ g[t].pc \in {"start", "robots", "store", "page"}
          /\ UNCHANGED <<batch, left, results, mu>>
      BY <1>1 DEF Start, ReadRobots, StoreRobots, FetchPage, loopVars
    <2> QED
      BY <2>1, <2>2, AsideAppended
  <1>2. ASSUME Release(t) \/ Done(t) PROVE Appended'
    <2>1. PICK r : Sets(t, r) /\ r.pc \in {"done", "off"}
      BY <1>2, LastSets
    <2>2. g[t].pc \in {"release", "done"} /\ UNCHANGED <<batch, left, results, mu>>
      BY <1>2 DEF Release, Done, loopVars
    <2> QED
      BY <2>1, <2>2, AsideAppended
  <1> QED
    BY <1>1, <1>2, AppendLock, AppendAppend DEF TaskStep

LEMMA AppendOther ==
  ASSUME LoopInv,
         (\E S \in SUBSET Task : Poll(S)) \/ Wait \/ Submit \/ Return \/ Tick \/ Stop
           \/ UNCHANGED vars
  PROVE  Appended'
  <1> USE DEF LoopInv, CoreInv
  <1>1. ASSUME NEW S \in SUBSET Task, Poll(S) PROVE Appended'
    <2>1. \A u \in Task : g[u].pc = "off"
      BY <1>1 DEF Poll, Counted, Running
    <2>2. g' = g /\ batch' = S /\ left' = S /\ results' = <<>>
      BY <1>1 DEF Poll
    <2>3. \A u \in Task : ~HasResult(u)'
      BY <2>2 DEF HasResult
    <2> QED
      BY <2>1, <2>2, <2>3 DEF Appended
  <1>2. CASE Submit
    BY <1>2 DEF Submit, Appended
  <1>3. CASE Wait \/ Return \/ Tick \/ Stop \/ UNCHANGED vars
    <2>1. UNCHANGED <<batch, left, g, mu, results>>
      BY <1>3 DEF Wait, Return, Tick, Stop, vars, loopVars
    <2> QED
      BY <2>1 DEF Appended, HasResult
  <1> QED
    BY <1>1, <1>2, <1>3

LEMMA LoopInvStep == LoopInv /\ [Next]_vars => LoopInv'
  <1>1. LoopInv /\ [Next]_vars => Appended'
    BY AppendSpawn, AppendTask, AppendOther DEF Next, LoopStep
  <1> QED
    BY <1>1, CoreStep DEF LoopInv

LEMMA LoopAlways == Spec => []LoopInv
  <1>1. Init => LoopInv
    BY CoreInit, AppendInit DEF LoopInv
  <1> QED
    BY <1>1, LoopInvStep, PTL DEF Spec

-----------------------------------------------------------------------------
(* The goroutines implement the loop of WorkerLoop.                          *)
Todo == {t \in batch : ~HasResult(t)}
Got == IF batch = {} THEN <<>> ELSE results

LEMMA TodoIs ==
  /\ Todo = {t \in batch : \A i \in 1..Len(results) : results[i] # t}
  /\ Todo' = {t \in batch' : \A i \in 1..Len(results') : results'[i] # t}
  BY DEF Todo, HasResult

LEMMA LoopPoll ==
  ASSUME LoopInv, NEW S \in SUBSET Task, Poll(S)
  PROVE  L!Poll
  <1>1. batch = {} /\ batch' = S /\ results' = <<>> /\ S # {}
    BY DEF LoopInv, CoreInv, Counted, Poll
  <1>2. Todo = {} /\ Got = <<>>
    BY <1>1 DEF Todo, Got
  <1>3. Todo' = S /\ Got' = <<>>
    BY <1>1 DEF Todo, Got, HasResult
  <1> QED
    BY <1>1, <1>2, <1>3, TodoIs DEF L!Poll, Got

LEMMA LoopFetch ==
  ASSUME LoopInv, NEW t \in Task, AppendResult(t)
  PROVE  L!Fetch(t)
  <1>1. batch' = batch
    BY DEF AppendResult, loopVars
  <1>2. batch \subseteq Task
    BY DEF LoopInv, CoreInv, RunnerTypeOK
  <1>3. t \in Todo /\ Todo' = Todo \ {t}
    BY <1>1, <1>2, AppendKnown DEF Todo
  <1>4. Got' = Append(Got, t)
    BY <1>1, AppendKnown DEF Got
  <1> QED
    BY <1>3, <1>4, TodoIs DEF L!Fetch, Got

LEMMA LoopSubmit ==
  ASSUME LoopInv, Submit
  PROVE  L!Submit
  <1>1. /\ left = {} /\ Running = {} /\ batch' = {}
        /\ batch \subseteq Task
    BY DEF LoopInv, CoreInv, Counted, Submit, RunnerTypeOK
  <1>2. Todo = {} /\ Todo' = {} /\ Got' = <<>>
    BY <1>1 DEF LoopInv, Appended, Todo, Got, Running
  <1> QED
    BY <1>2, TodoIs DEF L!Submit, Got

(* Any other step leaves the batch and its results alone.                    *)
LEMMA LoopStutter ==
  ASSUME UNCHANGED <<batch, results>>
  PROVE  Todo' = Todo /\ Got' = Got
  BY DEF Todo, Got, HasResult

LEMMA LoopNext ==
  ASSUME LoopInv, [Next]_vars
  PROVE  L!Next \/ (Todo' = Todo /\ Got' = Got)
  <1>1. ASSUME NEW t \in Task, TaskStep(t)
        PROVE  L!Fetch(t) \/ UNCHANGED <<batch, results>>
    BY <1>1, LoopFetch DEF TaskStep, Start, ReadRobots, StoreRobots, FetchPage, Lock,
       Release, Done, loopVars
  <1>2. ASSUME LoopStep PROVE L!Submit \/ UNCHANGED <<batch, results>>
    BY <1>2, LoopSubmit DEF LoopStep, Spawn, Wait, Return
  <1>3. ASSUME Tick \/ Stop \/ UNCHANGED vars PROVE UNCHANGED <<batch, results>>
    BY <1>3 DEF Tick, Stop, vars, loopVars
  <1> QED
    BY <1>1, <1>2, <1>3, LoopPoll, LoopStutter DEF Next, L!Next

(* Every task of a batch gets one result, and all of them are submitted
   together: the worker CrawlMaster assumes. *)
THEOREM LoopImplemented == Spec => LoopSpec
  <1>1. Init => L!Init
    BY DEF Init, L!Init
  <1>2. LoopInv /\ [Next]_vars
          => [L!Next]_<<{t \in batch : \A i \in 1..Len(results) : results[i] # t},
                        IF batch = {} THEN <<>> ELSE results>>
    BY LoopNext, TodoIs DEF Got
  <1> QED
    BY <1>1, <1>2, LoopAlways, PTL DEF Spec, LoopSpec, L!Spec

-----------------------------------------------------------------------------
(* The age of the rules.                                                     *)
LEMMA DatedInit == Init => Dated
  <1> SUFFICES ASSUME Init PROVE Dated
    OBVIOUS
  <1>1. (\A h \in Host : ~cache[h].known) /\ \A t \in Task : g[t].pc = "off"
    BY OffTyped DEF Init, NoEntry
  <1>2. \A t \in Polite : RulesOf(t)
    BY <1>1, RunnerAssumption DEF RulesOf
  <1> QED
    BY <1>1, <1>2 DEF Dated

(* A step of one goroutine leaves the claims about the others as they are.    *)
LEMMA DatedOthers ==
  ASSUME RunnerTypeOK, Dated, NEW t \in Task, NEW r, Sets(t, r),
         UNCHANGED <<cache, now>>, t \in Polite => RulesOf(t)',
         r.pc \in {"robots", "store"} => t \in Polite
  PROVE  Dated'
  <1>1. g'[t] = r /\ \A u \in Task \ {t} : g'[u] = g[u]
    BY SetsCount
  <1>2. \A u \in Polite : RulesOf(u)'
    <2> SUFFICES ASSUME NEW u \in Polite, u # t PROVE RulesOf(u)'
      OBVIOUS
    <2>1. g'[u] = g[u] /\ now' = now /\ RulesOf(u)
      BY <1>1, RunnerAssumption DEF Dated
    <2> QED
      BY <2>1 DEF RulesOf
  <1> QED
    BY <1>1, <1>2 DEF Dated

LEMMA DatedStart ==
  ASSUME RunnerTypeOK, Dated, NEW t \in Task, Start(t)
  PROVE  Dated'
  <1>1. PICK r : /\ Sets(t, r) /\ r.pc \in {"page", "lock", "robots"}
                 /\ t \in Polite /\ r.pc = "page" =>
                      /\ r.entry = cache[HostOf[t]] /\ r.asked = now
                      /\ Fresh(cache[HostOf[t]])
                 /\ r.pc = "robots" =>
                      t \in Polite /\ r.entry.at = now /\ r.asked = now
    BY StartSets
  <1>2. g'[t] = r /\ UNCHANGED <<cache, now>>
    BY <1>1, SetsCount DEF Start
  <1>3. /\ now \in Nat /\ TTL \in Nat /\ HostOf[t] \in Host
        /\ cache[HostOf[t]].at \in Nat /\ cache[HostOf[t]].read \in Nat
    BY RunnerAssumption DEF RunnerTypeOK, CacheEntry, Time
  <1>4. CASE r.pc = "page" /\ t \in Polite
    <2>1. cache[HostOf[t]].failed \/ now <= cache[HostOf[t]].read + TTL
      BY <1>1, <1>3, <1>4 DEF Dated, Fresh
    <2> QED
      BY <1>1, <1>2, <1>4, <2>1, DatedOthers DEF RulesOf
  <1>5. CASE r.pc = "robots"
    BY <1>1, <1>2, <1>3, <1>5, DatedOthers DEF RulesOf
  <1>6. CASE r.pc = "lock" \/ t \notin Polite
    BY <1>1, <1>2, <1>6, DatedOthers DEF RulesOf
  <1> QED
    BY <1>1, <1>4, <1>5, <1>6

LEMMA DatedRead ==
  ASSUME RunnerTypeOK, Dated, NEW t \in Task, ReadRobots(t)
  PROVE  Dated'
  <1>1. PICK r : /\ Sets(t, r) /\ r.pc = "store"
                 /\ r.entry.at = g[t].entry.at /\ r.entry.read = now
                 /\ r.asked = g[t].asked
    BY ReadSets
  <1>2. g'[t] = r /\ UNCHANGED <<cache, now>> /\ g[t].pc = "robots" /\ t \in Polite
    BY <1>1, SetsCount DEF ReadRobots, Dated
  <1>3. g[t].asked <= g[t].entry.at /\ g[t].entry.at <= now
    BY <1>2 DEF Dated, RulesOf
  <1>4. RulesOf(t)'
    BY <1>1, <1>2, <1>3 DEF RulesOf
  <1> QED
    BY <1>1, <1>2, <1>4, DatedOthers

LEMMA DatedStore ==
  ASSUME RunnerTypeOK, Dated, NEW t \in Task, StoreRobots(t)
  PROVE  Dated'
  <1>1. PICK r : /\ Sets(t, r) /\ r.pc \in {"page", "lock"}
                 /\ r.pc = "page" => r.entry = g[t].entry /\ r.asked = g[t].asked
    BY StoreSets
  <1>2. /\ g'[t] = r /\ \A u \in Task \ {t} : g'[u] = g[u]
        /\ cache' = [cache EXCEPT ![HostOf[t]] = g[t].entry]
        /\ now' = now /\ g[t].pc = "store" /\ t \in Polite
    BY <1>1, SetsCount DEF StoreRobots, Dated
  <1>3. \/ g[t].entry.failed
        \/ g[t].asked <= g[t].entry.at /\ g[t].entry.at <= g[t].entry.read
    BY <1>2 DEF Dated, RulesOf
  <1>4. \A h \in Host : cache'[h].known => cache'[h].failed \/ cache'[h].at <= cache'[h].read
    BY <1>2, <1>3 DEF Dated, RunnerTypeOK
  <1>5. RulesOf(t)'
    <2>1. /\ g[t].asked \in Nat /\ g[t].entry.at \in Nat /\ g[t].entry.read \in Nat
          /\ TTL \in Nat
      BY RunnerAssumption DEF RunnerTypeOK, Goroutine, CacheEntry, Time
    <2> QED
      BY <1>1, <1>2, <1>3, <2>1 DEF RulesOf
  <1>6. \A u \in Polite : RulesOf(u)'
    <2> SUFFICES ASSUME NEW u \in Polite, u # t PROVE RulesOf(u)'
      BY <1>5
    <2>1. g'[u] = g[u] /\ now' = now /\ RulesOf(u)
      BY <1>2, RunnerAssumption DEF Dated
    <2> QED
      BY <2>1 DEF RulesOf
  <1> QED
    BY <1>1, <1>2, <1>4, <1>6 DEF Dated

LEMMA DatedLast ==
  ASSUME RunnerTypeOK, Dated, NEW t \in Task,
         \/ Spawn(t) \/ FetchPage(t) \/ Lock(t) \/ AppendResult(t)
         \/ Release(t) \/ Done(t)
  PROVE  Dated'
  <1>1. PICK r : /\ Sets(t, r)
                 /\ r.pc \in {"start", "lock", "append", "release", "done", "off"}
    BY LastSets
  <1>2. g'[t] = r /\ UNCHANGED <<cache, now>>
    BY <1>1, SetsCount DEF Spawn, FetchPage, Lock, AppendResult, Release, Done
  <1> QED
    BY <1>1, <1>2, DatedOthers DEF RulesOf

LEMMA DatedOther ==
  ASSUME RunnerTypeOK, Dated,
         (\E S \in SUBSET Task : Poll(S)) \/ Wait \/ Submit \/ Return \/ Tick \/ Stop
           \/ UNCHANGED vars
  PROVE  Dated'
  <1>1. UNCHANGED <<g, cache>> /\ (now' = now \/ now' = now + 1)
    BY DEF Poll, Wait, Submit, Return, Tick, Stop, vars, loopVars
  <1>2. \A t \in Polite : RulesOf(t)'
    <2> SUFFICES ASSUME NEW t \in Polite PROVE RulesOf(t)'
      OBVIOUS
    <2>1. RulesOf(t) /\ g'[t] = g[t] /\ t \in Task
      BY <1>1, RunnerAssumption DEF Dated
    <2>2. now \in Nat /\ g[t].entry.at \in Nat
      BY <2>1, RunnerAssumption DEF RunnerTypeOK, Goroutine, CacheEntry, Time
    <2> QED
      BY <1>1, <2>1, <2>2 DEF RulesOf
  <1> QED
    BY <1>1, <1>2 DEF Dated

(* The rules a page is fetched under are not older than the lifetime of an
   entry, however requests for them overlap. *)
THEOREM RulesKept == Spec => []RulesFresh
  <1>1. RunnerTypeOK /\ Dated /\ [Next]_vars => Dated'
    BY DatedStart, DatedRead, DatedStore, DatedLast, DatedOther
    DEF Next, LoopStep, TaskStep
  <1>2. Dated => RulesFresh
    BY DEF Dated, RulesOf, RulesFresh
  <1> QED
    BY <1>1, <1>2, DatedInit, RunnerTyped, PTL DEF Spec

-----------------------------------------------------------------------------
(* Waiting.                                                                  *)

(* A mutex that is taken is in the hands of a goroutine about to release it. *)
MutexHeld == mu # Nobody => mu \in Task /\ g[mu].pc = "append"

LEMMA MutexStep ==
  ASSUME CoreInv, MutexHeld, [Next]_vars
  PROVE  MutexHeld'
  <1> USE DEF CoreInv
  <1>1. ASSUME NEW t \in Task, Lock(t) \/ AppendResult(t) PROVE MutexHeld'
    <2>1. PICK r : Sets(t, r) /\ (Lock(t) => r.pc = "append")
      BY <1>1, LastSets
    <2>2. g'[t] = r
      BY <2>1, SetsCount
    <2> QED
      BY <1>1, <2>1, <2>2 DEF Lock, AppendResult, MutexHeld
  <1>2. ASSUME NEW t \in Task, UNCHANGED mu, g[t].pc # "append",
               \A u \in Task \ {t} : g'[u] = g[u]
        PROVE  MutexHeld'
    BY <1>2 DEF MutexHeld
  <1>3. ASSUME NEW t \in Task,
               Spawn(t) \/ Start(t) \/ ReadRobots(t) \/ StoreRobots(t) \/ FetchPage(t)
                 \/ Release(t) \/ Done(t)
        PROVE  MutexHeld'
    <2>1. PICK r : Sets(t, r)
      BY <1>3, StartSets, ReadSets, StoreSets, LastSets
    <2>2. \A u \in Task \ {t} : g'[u] = g[u]
      BY <2>1, SetsCount
    <2>3. Spawn(t) => g[t].pc = "off"
      BY DEF Spawn, Counted, Running
    <2>4. UNCHANGED mu /\ g[t].pc # "append"
      BY <1>3, <2>3
      DEF Spawn, Start, ReadRobots, StoreRobots, FetchPage, Release, Done
    <2> QED
      BY <1>2, <2>2, <2>4
  <1>4. ASSUME UNCHANGED <<mu, g>> PROVE MutexHeld'
    BY <1>4 DEF MutexHeld
  <1>5. (\E S \in SUBSET Task : Poll(S)) \/ Wait \/ Submit \/ Return \/ Tick \/ Stop
          \/ UNCHANGED vars
        => UNCHANGED <<mu, g>>
    BY DEF Poll, Wait, Submit, Return, Tick, Stop, vars
  <1> QED
    BY <1>1, <1>3, <1>4, <1>5 DEF Next, LoopStep, TaskStep

(* Loop and goroutines never all wait for each other.  If all goroutines are
   blocked, none holds the mutex, so none waits for it; and one that waits at the
   channel has an element in it, so there are none at all. *)
THEOREM NobodyStuck == Spec => []NeverStuck
  <1>1. Init => MutexHeld
    BY DEF Init, MutexHeld
  <1>2. CoreInv /\ MutexHeld => NeverStuck
    <2> SUFFICES ASSUME CoreInv, MutexHeld, \A t \in Task : Blocked(t)
                 PROVE  (left # {} /\ sem < Slots) \/ (left = {} /\ wg = 0)
      BY DEF NeverStuck
    <2>1. mu = Nobody
      BY DEF MutexHeld, Blocked
    <2>2. \A t \in Task : g[t].pc # "release"
      <3> SUFFICES ASSUME NEW t \in Task, g[t].pc = "release" PROVE FALSE
        OBVIOUS
      <3>1. t \in Holding /\ Holding \in SUBSET Task
        BY DEF Holding, Working
      <3>2. sem > 0
        BY <3>1, Sizes DEF CoreInv, Counted
      <3> QED
        BY <3>2 DEF Blocked
    <2>3. \A t \in Task : g[t].pc = "off"
      BY <2>1, <2>2 DEF Blocked
    <2>4. Running = {} /\ Holding = {}
      BY <2>3 DEF Running, Holding, Working
    <2>5. sem = 0 /\ wg = 0
      BY <2>4, FS_EmptySet DEF CoreInv, Counted
    <2> QED
      BY <2>5, RunnerAssumption
  <1> QED
    BY <1>1, <1>2, MutexStep, CoreAlways, PTL DEF Spec

(* How many steps a task is away from the end of its goroutine, at most.     *)
Steps(label) ==
  CASE label = "start" -> 8 [] label = "robots" -> 7 [] label = "store" -> 6
    [] label = "page" -> 5 [] label = "lock" -> 4 [] label = "append" -> 3
    [] label = "release" -> 2 [] label = "done" -> 1 [] OTHER -> 0
StepsLeft(t) == IF t \in left THEN 9 ELSE Steps(g[t].pc)

(* While a batch is worked on, each step of the loop or a goroutine brings one
   task nearer to its end and takes none back, whatever hosts answer: a batch
   is over after nine steps for each task. *)
THEOREM BatchDescends ==
  Spec => [][pc = "spawn" =>
               \/ UNCHANGED <<left, g>>
               \/ \E t \in Task : /\ StepsLeft(t)' < StepsLeft(t)
                                  /\ \A u \in Task \ {t} : StepsLeft(u)' = StepsLeft(u)]_vars
  <1> DEFINE Nearer(t) == /\ StepsLeft(t)' < StepsLeft(t)
                          /\ \A u \in Task \ {t} : StepsLeft(u)' = StepsLeft(u)
  <1>1. ASSUME CoreInv, NEW t \in Task, Spawn(t) PROVE Nearer(t)
    <2>1. PICK r : Sets(t, r) /\ r.pc = "start"
      BY <1>1, LastSets DEF CoreInv
    <2>2. g'[t].pc = "start" /\ \A u \in Task \ {t} : g'[u] = g[u]
      BY <1>1, <2>1, SetsCount DEF CoreInv
    <2>3. t \in left /\ left' = left \ {t}
      BY <1>1 DEF Spawn
    <2> QED
      BY <2>2, <2>3 DEF StepsLeft, Steps
  <1>2. ASSUME CoreInv, NEW t \in Task, TaskStep(t) PROVE Nearer(t)
    <2>1. UNCHANGED left /\ g[t].pc # "off"
      BY <1>2 DEF TaskStep, Start, ReadRobots, StoreRobots, FetchPage, Lock, AppendResult,
                  Release, Done, loopVars
    <2>2. t \notin left
      BY <1>2, <2>1 DEF CoreInv, Counted, Running
    <2>3. PICK r : Sets(t, r) /\ Steps(r.pc) < Steps(g[t].pc)
      <3>1. ASSUME Start(t) PROVE \E r : Sets(t, r) /\ Steps(r.pc) < Steps(g[t].pc)
        <4>1. PICK r : Sets(t, r) /\ r.pc \in {"page", "lock", "robots"}
          BY <1>2, <3>1, StartSets DEF CoreInv
        <4> QED
          BY <3>1, <4>1 DEF Start, Steps
      <3>2. ASSUME ReadRobots(t) PROVE \E r : Sets(t, r) /\ Steps(r.pc) < Steps(g[t].pc)
        <4>1. PICK r : Sets(t, r) /\ r.pc = "store"
          BY <1>2, <3>2, ReadSets DEF CoreInv
        <4> QED
          BY <3>2, <4>1 DEF ReadRobots, Steps
      <3>3. ASSUME StoreRobots(t) PROVE \E r : Sets(t, r) /\ Steps(r.pc) < Steps(g[t].pc)
        <4>1. PICK r : Sets(t, r) /\ r.pc \in {"page", "lock"}
          BY <1>2, <3>3, StoreSets DEF CoreInv
        <4> QED
          BY <3>3, <4>1 DEF StoreRobots, Steps
      <3>4. ASSUME FetchPage(t) \/ Lock(t) \/ AppendResult(t) \/ Release(t) \/ Done(t)
            PROVE  \E r : Sets(t, r) /\ Steps(r.pc) < Steps(g[t].pc)
        <4>1. /\ FetchPage(t) => \E r : Sets(t, r) /\ r.pc = "lock"
              /\ Lock(t) => \E r : Sets(t, r) /\ r.pc = "append"
              /\ AppendResult(t) => \E r : Sets(t, r) /\ r.pc = "release"
              /\ Release(t) => \E r : Sets(t, r) /\ r.pc = "done"
              /\ Done(t) => \E r : Sets(t, r) /\ r.pc = "off"
          BY <1>2, LastSets DEF CoreInv
        <4> QED
          BY <3>4, <4>1 DEF FetchPage, Lock, AppendResult, Release, Done, Steps
      <3> QED
        BY <1>2, <3>1, <3>2, <3>3, <3>4 DEF TaskStep
    <2>4. g'[t] = r /\ \A u \in Task \ {t} : g'[u] = g[u]
      BY <1>2, <2>3, SetsCount DEF CoreInv
    <2> QED
      BY <2>1, <2>2, <2>3, <2>4 DEF StepsLeft
  <1>3. (\E S \in SUBSET Task : Poll(S)) \/ Wait \/ Submit \/ Return \/ Tick \/ Stop
          \/ UNCHANGED vars
        => pc # "spawn" \/ UNCHANGED <<left, g>>
    BY DEF Poll, Wait, Submit, Return, Tick, Stop, vars, loopVars
  <1>4. CoreInv /\ [Next]_vars =>
          (pc = "spawn" => UNCHANGED <<left, g>> \/ \E t \in Task : Nearer(t))
    BY <1>1, <1>2, <1>3 DEF Next, LoopStep
  <1> QED
    BY <1>4, CoreAlways, PTL DEF Spec

-----------------------------------------------------------------------------
(* The pace.  A goroutine that has not got its page yet, and those of them that
   went to sleep before tick x. *)
Asking(t) == g[t].pc \in {"start", "robots", "store", "page"}
Early(x) == {t \in Task : Asking(t) /\ g[t].since < x}

(* A request of the delay that begins at x takes a slot that was taken at x:
   goroutines started later are still asleep when it is over. *)
Paced ==
  /\ sent \in Seq(Time) /\ \A i \in DOMAIN sent : sent[i] <= now
  /\ \A t \in Task : /\ Asking(t) => g[t].since <= now
                     /\ Asking(t) /\ g[t].pc # "start" => Awake(t)
  /\ \A x \in 0..now : x + Delay <= MaxTime =>
       Cardinality(SentFrom(x)) + Cardinality(Early(x)) <= Slots

(* What a step of the goroutine of t does to the ones that are asking.       *)
LEMMA AskingSteps ==
  ASSUME RunnerTypeOK, NEW t \in Task, TaskStep(t)
  PROVE  /\ now' = now /\ \A u \in Task \ {t} : g'[u] = g[u]
         /\ Asking(t)' => Asking(t) /\ g'[t].since = g[t].since /\ g[t].pc # "page"
         /\ Asking(t)' => g'[t].pc # "start"
         /\ g[t].pc = "start" => Awake(t)
  <1>1. /\ g \in [Task -> Goroutine] /\ g[t] \in Goroutine /\ Off \in Goroutine
        /\ now \in Time
    BY OffTyped DEF RunnerTypeOK
  <1>2. CASE Start(t)
    <2>1. CASE t \notin Polite /\ g' = Goto(t, "page")
      BY <1>1, <1>2, <2>1 DEF Start, Goto, Asking, Goroutine
    <2>2. CASE g' = [g EXCEPT ![t].pc = "page", ![t].entry = cache[HostOf[t]],
                              ![t].asked = now]
      BY <1>1, <1>2, <2>2 DEF Start, Asking, Goroutine
    <2>3. CASE g' = Through(t, "lock")
      BY <1>1, <1>2, <2>3 DEF Start, Through, Asking, Goroutine
    <2>4. CASE g' = [g EXCEPT ![t].pc = "robots", ![t].asked = now,
                          ![t].entry = [NoEntry EXCEPT !.known = TRUE, !.at = now]]
      BY <1>1, <1>2, <2>4 DEF Start, Asking, Goroutine
    <2> QED
      BY <1>2, <2>1, <2>2, <2>3, <2>4 DEF Start
  <1>3. CASE ReadRobots(t)
    BY <1>1, <1>3 DEF ReadRobots, Asking, Goroutine
  <1>4. CASE StoreRobots(t)
    BY <1>1, <1>4 DEF StoreRobots, Goto, Through, Asking, Goroutine
  <1>5. CASE FetchPage(t) \/ AppendResult(t) \/ Done(t)
    BY <1>1, <1>5, OffTyped DEF FetchPage, AppendResult, Done, Through, Asking, Goroutine
  <1>6. CASE Lock(t) \/ Release(t)
    BY <1>1, <1>6 DEF Lock, Release, Goto, Asking, Goroutine
  <1> QED
    BY <1>2, <1>3, <1>4, <1>5, <1>6 DEF TaskStep

LEMMA PacedInit == PaceInit => Paced
  <1> SUFFICES ASSUME PaceInit PROVE Paced
    OBVIOUS
  <1>1. now = 0 /\ sent = <<>> /\ \A t \in Task : ~Asking(t)
    BY OffTyped DEF PaceInit, Init, Asking
  <1>2. \A x \in 0..now : SentFrom(x) = {} /\ Early(x) = {}
    BY <1>1 DEF SentFrom, Early
  <1>3. Slots \in Nat /\ 0 + 0 <= Slots
    BY RunnerAssumption
  <1>4. \A x \in 0..now : Cardinality(SentFrom(x)) + Cardinality(Early(x)) <= Slots
    BY <1>2, <1>3, FS_EmptySet
  <1> QED
    BY <1>1, <1>4 DEF Paced

(* The sets that are counted are finite.                                     *)
LEMMA PaceFinite ==
  ASSUME RunnerTypeOK, Paced, NEW x \in Nat
  PROVE  /\ IsFiniteSet(SentFrom(x)) /\ Cardinality(SentFrom(x)) \in Nat
         /\ IsFiniteSet(Early(x)) /\ Cardinality(Early(x)) \in Nat
  <1>1. IsFiniteSet(Early(x))
    BY RunnerAssumption, FS_Subset DEF Early
  <1>2. IsFiniteSet(1..Len(sent)) /\ DOMAIN sent = 1..Len(sent)
    BY FS_Interval DEF Paced
  <1>3. IsFiniteSet(SentFrom(x))
    BY <1>2, FS_Subset DEF SentFrom
  <1> QED
    BY <1>1, <1>3, FS_CardinalityType

(* Nobody asks: nothing is sent, and whoever starts is not early.            *)
LEMMA PacedQuiet ==
  ASSUME RunnerTypeOK, Paced, now' = now, UNCHANGED sent,
         \A t \in Task :
           \/ ~Asking(t)'
           \/ g'[t].since = now /\ g'[t].pc = "start"
           \/ /\ Asking(t) /\ g'[t].since = g[t].since
              /\ g'[t].pc = "start" \/ Awake(t)
  PROVE  Paced'
  <1>1. now \in Nat
    BY RunnerAssumption DEF RunnerTypeOK, Time
  <1>2. ASSUME NEW x \in 0..now
        PROVE  SentFrom(x)' = SentFrom(x) /\ Early(x)' \subseteq Early(x)
    BY <1>1, <1>2 DEF SentFrom, Early
  <1>3. ASSUME NEW x \in 0..now
        PROVE  Cardinality(Early(x)') <= Cardinality(Early(x))
    BY <1>2, <1>3, PaceFinite, FS_Subset
  <1>4. ASSUME NEW x \in 0..now
        PROVE  Cardinality(Early(x)') \in Nat
    <2>1. IsFiniteSet(Early(x)')
      BY <1>1, <1>2, PaceFinite, FS_Subset
    <2> QED
      BY <2>1, FS_CardinalityType
  <1>5. \A t \in Task : /\ Asking(t)' => g'[t].since <= now'
                        /\ Asking(t)' /\ g'[t].pc # "start" => Awake(t)'
    BY <1>1 DEF Paced, Awake
  <1>6. ASSUME NEW x \in 0..now, x + Delay <= MaxTime
        PROVE  Cardinality(SentFrom(x)') + Cardinality(Early(x)') <= Slots
    <2>1. Cardinality(SentFrom(x)) + Cardinality(Early(x)) <= Slots
      BY <1>6 DEF Paced
    <2>2. Cardinality(SentFrom(x)') = Cardinality(SentFrom(x))
      BY <1>2
    <2> QED
      BY <2>1, <2>2, <1>3, <1>4, PaceFinite, RunnerAssumption
  <1>7. sent' \in Seq(Time) /\ \A i \in DOMAIN sent' : sent'[i] <= now'
    BY DEF Paced
  <1> QED
    BY <1>5, <1>6, <1>7 DEF Paced

(* A request: it counts against the windows it is in, and the goroutine is no
   longer early in them. *)
LEMMA PacedRequest ==
  ASSUME RunnerTypeOK, Paced, NEW t \in Task, g[t].pc = "page", ~Asking(t)',
         now' = now, sent' = Append(sent, now),
         \A u \in Task \ {t} : g'[u] = g[u]
  PROVE  Paced'
  <1>1. /\ now \in Nat /\ now <= MaxTime /\ g[t].since \in Nat /\ g[t].since <= now
        /\ Asking(t) /\ Slots \in Nat /\ Delay \in Nat /\ MaxTime \in Nat
    BY RunnerAssumption DEF RunnerTypeOK, Time, Goroutine, Paced, Asking
  <1>2. /\ sent \in Seq(Time) /\ sent' \in Seq(Time) /\ Len(sent) \in Nat
        /\ DOMAIN sent = 1..Len(sent) /\ DOMAIN sent' = 1..(Len(sent) + 1)
        /\ sent'[Len(sent) + 1] = now
        /\ \A i \in 1..Len(sent) : sent'[i] = sent[i] /\ sent[i] <= now
    BY <1>1 DEF Paced, RunnerTypeOK
  <1> DEFINE n == Len(sent) + 1
  <1>3. ASSUME NEW x \in 0..now, x + Delay <= MaxTime
        PROVE  Cardinality(SentFrom(x)') + Cardinality(Early(x)') <= Slots
    <2>0. x \in Nat
      BY <1>1, <1>3
    <2>1. /\ Cardinality(SentFrom(x)) + Cardinality(Early(x)) <= Slots
          /\ IsFiniteSet(SentFrom(x)) /\ Cardinality(SentFrom(x)) \in Nat
          /\ IsFiniteSet(Early(x)) /\ Cardinality(Early(x)) \in Nat
      BY <2>0, <1>3, PaceFinite DEF Paced
    <2>2. Early(x)' = Early(x) \ {t}
      BY DEF Early, Asking
    <2>3. CASE g[t].since < x
      <3>1. t \in Early(x)
        BY <1>1, <2>3 DEF Early
      <3>2. Cardinality(Early(x)') = Cardinality(Early(x)) - 1
        BY <2>1, <2>2, <3>1, FS_RemoveElement
      <3>3. SentFrom(x)' \subseteq SentFrom(x) \cup {n}
        BY <1>2 DEF SentFrom
      <3>4. Cardinality(SentFrom(x) \cup {n}) <= Cardinality(SentFrom(x)) + 1
        <4>1. n \notin SentFrom(x)
          BY <1>2 DEF SentFrom
        <4>2. Cardinality(SentFrom(x) \cup {n}) = Cardinality(SentFrom(x)) + 1
          BY <2>1, <4>1, FS_AddElement
        <4> QED
          BY <2>1, <4>2
      <3>5. /\ IsFiniteSet(SentFrom(x) \cup {n})
            /\ Cardinality(SentFrom(x)') <= Cardinality(SentFrom(x) \cup {n})
        BY <2>1, <3>3, FS_AddElement, FS_Subset
      <3>6. IsFiniteSet(SentFrom(x)')
        BY <3>3, <3>5, FS_Subset
      <3>7. Cardinality(SentFrom(x)') \in Nat /\ Cardinality(SentFrom(x) \cup {n}) \in Nat
        BY <3>5, <3>6, FS_CardinalityType
      <3> QED
        BY <1>1, <2>1, <3>2, <3>4, <3>5, <3>7
    <2>4. CASE ~(g[t].since < x)
      <3>1. now >= g[t].since + Delay \/ now = MaxTime
        BY <1>1 DEF Paced, Awake
      <3>2. now \notin x..(x + Delay - 1)
        BY <1>1, <1>3, <2>4, <3>1
      <3>3. SentFrom(x)' = SentFrom(x)
        BY <1>2, <3>2 DEF SentFrom
      <3>4. Early(x)' = Early(x)
        BY <2>2, <2>4 DEF Early
      <3> QED
        BY <2>1, <3>3, <3>4
    <2> QED
      BY <2>3, <2>4
  <1>4. \A u \in Task : /\ Asking(u)' => g'[u].since <= now'
                        /\ Asking(u)' /\ g'[u].pc # "start" => Awake(u)'
    BY DEF Paced, Awake, Asking
  <1>5. \A i \in DOMAIN sent' : sent'[i] <= now'
    BY <1>1, <1>2
  <1> QED
    BY <1>2, <1>3, <1>4, <1>5 DEF Paced

(* A new tick: nothing was sent at it, and who is early for it has a slot.    *)
LEMMA PacedTick ==
  ASSUME CoreInv, Paced, Tick, UNCHANGED sent
  PROVE  Paced'
  <1>1. now \in Nat /\ now' = now + 1 /\ g' = g /\ Slots \in Nat /\ Delay \in Nat
    BY RunnerAssumption DEF CoreInv, RunnerTypeOK, Time, Tick
  <1>2. /\ sent \in Seq(Time) /\ DOMAIN sent = 1..Len(sent)
        /\ \A i \in DOMAIN sent : sent[i] \in Nat /\ sent[i] <= now
    BY RunnerAssumption DEF Paced, Time
  <1>3. sent' \in Seq(Time) /\ \A i \in DOMAIN sent' : sent'[i] <= now'
    BY <1>1, <1>2
  <1>4. \A u \in Task : /\ Asking(u)' => g'[u].since <= now'
                        /\ Asking(u)' /\ g'[u].pc # "start" => Awake(u)'
    <2> SUFFICES ASSUME NEW u \in Task, Asking(u)
                 PROVE  /\ g'[u].since <= now'
                        /\ g'[u].pc # "start" => Awake(u)'
      BY <1>1 DEF Asking
    <2>1. g[u].since \in Nat /\ g[u].since <= now /\ (g[u].pc # "start" => Awake(u))
      BY RunnerAssumption DEF CoreInv, RunnerTypeOK, Goroutine, Time, Paced
    <2>2. now # MaxTime
      BY <1>1, RunnerAssumption DEF Tick
    <2> QED
      BY <1>1, <2>1, <2>2 DEF Awake
  <1>5. ASSUME NEW x \in 0..now', x + Delay <= MaxTime
        PROVE  Cardinality(SentFrom(x)') + Cardinality(Early(x)') <= Slots
    <2>1. SentFrom(x)' = SentFrom(x) /\ Early(x)' = Early(x)
      BY <1>1 DEF SentFrom, Early, Asking
    <2>2. CASE x \in 0..now
      BY <1>5, <2>1, <2>2 DEF Paced
    <2>3. CASE x = now + 1
      <3>1. SentFrom(x) = {}
        BY <1>1, <1>2, <2>3 DEF SentFrom
      <3>2. Early(x) \subseteq Holding /\ Holding \in SUBSET Task
        BY DEF Early, Asking, Holding, Working
      <3>3. Cardinality(Early(x)) <= Cardinality(Holding)
        BY <3>2, RunnerAssumption, FS_Subset
      <3>4. Cardinality(Holding) \in Nat /\ Cardinality(Holding) <= Slots
        BY RunnerAssumption DEF CoreInv, Counted, RunnerTypeOK
      <3>5. IsFiniteSet(Early(x))
        BY RunnerAssumption, FS_Subset DEF Early
      <3>6. Cardinality(Early(x)) \in Nat
        BY <3>5, FS_CardinalityType
      <3> QED
        BY <1>1, <2>1, <3>1, <3>3, <3>4, <3>6, FS_EmptySet
    <2> QED
      BY <1>1, <2>2, <2>3
  <1> QED
    BY <1>3, <1>4, <1>5 DEF Paced

LEMMA PacedStep ==
  ASSUME CoreInv, Paced, [PaceNext]_paceVars
  PROVE  Paced'
  <1> USE DEF CoreInv
  <1>1. ASSUME NEW t \in Task, Spawn(t), PaceNext PROVE Paced'
    <2>1. g'[t].pc = "start" /\ g'[t].since = now /\ \A u \in Task \ {t} : g'[u] = g[u]
      BY <1>1, OffTyped DEF Spawn, RunnerTypeOK, Goroutine
    <2>2. g[t].pc = "off"
      BY <1>1 DEF Spawn, Counted, Running
    <2>3. now' = now /\ sent' = sent
      BY <1>1, <2>1, <2>2 DEF Spawn, PaceNext, Requesting
    <2>4. \A u \in Task : Asking(u) => g[u].pc = "start" \/ Awake(u)
      BY DEF Paced
    <2> QED
      BY <2>1, <2>3, <2>4, PacedQuiet DEF Asking
  <1>2. ASSUME NEW t \in Task, TaskStep(t), PaceNext PROVE Paced'
    <2>1. /\ now' = now /\ \A u \in Task \ {t} : g'[u] = g[u]
          /\ Asking(t)' => Asking(t) /\ g'[t].since = g[t].since /\ g[t].pc # "page"
          /\ Asking(t)' => g'[t].pc # "start"
          /\ g[t].pc = "start" => Awake(t)
      BY <1>2, AskingSteps
    <2>2. CASE g[t].pc = "page"
      <3>1. ~Asking(t)' /\ sent' = Append(sent, now)
        BY <1>2, <2>1, <2>2 DEF PaceNext, Requesting, Asking
      <3> QED
        BY <2>1, <2>2, <3>1, PacedRequest
    <2>3. CASE g[t].pc # "page"
      <3>1. sent' = sent
        BY <1>2, <2>1, <2>3 DEF PaceNext, Requesting
      <3>2. \A u \in Task : Asking(u) => g[u].pc = "start" \/ Awake(u)
        BY DEF Paced
      <3> QED
        BY <2>1, <3>1, <3>2, PacedQuiet DEF Asking
    <2> QED
      BY <2>2, <2>3
  <1>3. ASSUME \/ \E S \in SUBSET Task : Poll(S)
               \/ Wait \/ Submit \/ Return \/ Stop \/ UNCHANGED vars,
               PaceNext \/ UNCHANGED paceVars
        PROVE  Paced'
    <2>1. g' = g /\ now' = now
      BY <1>3 DEF Poll, Wait, Submit, Return, Stop, vars, loopVars
    <2>2. sent' = sent
      BY <1>3, <2>1 DEF PaceNext, Requesting, paceVars
    <2>3. \A u \in Task : Asking(u) => g[u].pc = "start" \/ Awake(u)
      BY DEF Paced
    <2> QED
      BY <2>1, <2>2, <2>3, PacedQuiet DEF Asking
  <1>4. ASSUME Tick, PaceNext PROVE Paced'
    BY <1>4, PacedTick DEF PaceNext, Requesting, Tick
  <1> QED
    BY <1>1, <1>2, <1>3, <1>4 DEF PaceNext, Next, LoopStep, paceVars

(* A worker asks for at most as many pages within a delay as it has slots,
   whatever the delay and however the batches follow one another. *)
THEOREM PaceKept == PaceSpec => []PacedBySlots
  <1>1. PaceSpec => Spec
    <2>1. PaceInit => Init
      BY DEF PaceInit
    <2>2. [PaceNext]_paceVars => [Next]_vars
      BY DEF PaceNext, paceVars
    <2> QED
      BY <2>1, <2>2, PTL DEF PaceSpec, Spec
  <1>2. PaceSpec => [](CoreInv /\ Paced)
    BY <1>1, CoreAlways, PacedInit, PacedStep, PTL DEF PaceSpec
  <1>3. CoreInv /\ Paced => PacedBySlots
    <2> SUFFICES ASSUME CoreInv, Paced, NEW x \in Time, x + Delay <= MaxTime
                 PROVE  Cardinality(SentFrom(x)) <= Slots
      BY DEF PacedBySlots
    <2>1. x \in Nat /\ now \in Nat /\ Slots \in Nat /\ Delay \in Nat
      BY RunnerAssumption DEF CoreInv, RunnerTypeOK, Time
    <2>2. CASE x <= now
      <3>1. Cardinality(SentFrom(x)) + Cardinality(Early(x)) <= Slots
        BY <2>1, <2>2 DEF Paced
      <3> QED
        BY <2>1, <3>1, PaceFinite DEF CoreInv
    <2>3. CASE x > now
      <3>1. \A i \in DOMAIN sent : sent[i] \in Nat /\ sent[i] <= now
        BY RunnerAssumption DEF Paced, Time
      <3>2. SentFrom(x) = {}
        BY <2>1, <2>3, <3>1 DEF SentFrom
      <3> QED
        BY <2>1, <3>2, FS_EmptySet
    <2> QED
      BY <2>1, <2>2, <2>3
  <1> QED
    BY <1>2, <1>3, PTL
=============================================================================
