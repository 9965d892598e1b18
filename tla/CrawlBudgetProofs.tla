------------------------- MODULE CrawlBudgetProofs -------------------------
(***************************************************************************)
(* What CrawlMaster counts, for every value of its constants: the pages of *)
(* a job and its stored results, the page budget and its queue; and which  *)
(* links UrlScope lets into a crawl.                                       *)
(***************************************************************************)
EXTENDS CrawlTaskProofs, UrlScope, SequenceTheorems

-----------------------------------------------------------------------------
(* Sums of the values of a function.                                        *)

Part(f, x) == {x} \X (1..f[x])
Pile(f) == UNION {Part(f, x) : x \in DOMAIN f}

LEMMA PileTotal ==
  ASSUME NEW f
  PROVE  Total(f) = Cardinality(Pile(f))
  BY DEF Total, Pile, Part

LEMMA PartSize ==
  ASSUME NEW S, NEW f \in [S -> Nat], NEW x \in S
  PROVE  IsFiniteSet(Part(f, x)) /\ Cardinality(Part(f, x)) = f[x]
  <1>1. IsFiniteSet({x}) /\ Cardinality({x}) = 1
    BY FS_Singleton
  <1>2. IsFiniteSet(1..f[x]) /\ Cardinality(1..f[x]) = f[x]
    BY FS_Interval
  <1>3. /\ IsFiniteSet({x} \X (1..f[x]))
        /\ Cardinality({x} \X (1..f[x])) = 1 * f[x]
    BY <1>1, <1>2, FS_Product
  <1> QED
    BY <1>3 DEF Part

LEMMA PileFinite ==
  ASSUME NEW S, IsFiniteSet(S), NEW f \in [S -> Nat]
  PROVE  IsFiniteSet(Pile(f)) /\ Total(f) \in Nat
  <1> DEFINE P == {Part(f, x) : x \in S}
             p == [x \in S |-> Part(f, x)]
  <1>1. p \in Surjection(S, P)
    BY DEF Surjection
  <1>2. IsFiniteSet(P)
    BY <1>1, FS_Surjection
  <1>3. \A A \in P : IsFiniteSet(A)
    BY PartSize
  <1>4. IsFiniteSet(UNION P)
    BY <1>2, <1>3, FS_UNION
  <1>5. Pile(f) = UNION P
    BY DEF Pile
  <1> QED
    BY <1>4, <1>5, FS_CardinalityType, PileTotal

(* The sums of equal and of smaller values, and of nothing.                 *)
LEMMA TotalGrows ==
  ASSUME NEW S, IsFiniteSet(S), NEW f \in [S -> Nat], NEW g \in [S -> Nat],
         \A x \in S : f[x] <= g[x]
  PROVE  Total(f) <= Total(g)
  <1>1. \A x \in S : 1..f[x] \subseteq 1..g[x]
    OBVIOUS
  <1>2. \A x \in S : Part(f, x) \subseteq Part(g, x)
    BY <1>1 DEF Part
  <1>3. Pile(f) \subseteq Pile(g)
    BY <1>2 DEF Pile
  <1> QED
    BY <1>3, PileFinite, FS_Subset, PileTotal

LEMMA TotalZero ==
  ASSUME NEW S, NEW f \in [S -> Nat], \A x \in S : f[x] = 0
  PROVE  Total(f) = 0
  <1>1. \A x \in S : Part(f, x) = {}
    BY DEF Part
  <1>2. Pile(f) = {}
    BY <1>1 DEF Pile
  <1> QED
    BY <1>2, FS_EmptySet, PileTotal

(* One value changes, and the sum with it.                                  *)
LEMMA TotalUpdate ==
  ASSUME NEW S, IsFiniteSet(S), NEW f \in [S -> Nat], NEW g \in [S -> Nat],
         NEW x \in S, \A y \in S \ {x} : g[y] = f[y]
  PROVE  Total(g) + f[x] = Total(f) + g[x]
  <1> DEFINE R == UNION {Part(f, y) : y \in S \ {x}}
             A == Part(f, x)
             B == Part(g, x)
  <1>1. /\ IsFiniteSet(A) /\ Cardinality(A) = f[x]
        /\ IsFiniteSet(B) /\ Cardinality(B) = g[x]
    BY PartSize
  <1>2. Pile(f) = R \cup A
    BY DEF Pile
  <1>3. Pile(g) = R \cup B
    <2>1. \A y \in S \ {x} : Part(g, y) = Part(f, y)
      BY DEF Part
    <2> QED
      BY <2>1 DEF Pile
  <1>4. \A y \in S \ {x} : /\ Part(f, y) \cap A = {}
                           /\ Part(f, y) \cap B = {}
    BY DEF Part
  <1>5. R \cap A = {} /\ R \cap B = {}
    BY <1>4
  <1>6. IsFiniteSet(R)
    BY <1>2, PileFinite, FS_Subset
  <1> HIDE DEF R, A, B
  <1>7. Cardinality({}) = 0 /\ f[x] \in Nat /\ g[x] \in Nat /\ Cardinality(R) \in Nat
    BY <1>6, FS_EmptySet, FS_CardinalityType
  <1>8. Cardinality(R \cup A) = Cardinality(R) + Cardinality(A) - Cardinality(R \cap A)
    BY <1>1, <1>6, FS_Union
  <1>9. Cardinality(R \cup B) = Cardinality(R) + Cardinality(B) - Cardinality(R \cap B)
    BY <1>1, <1>6, FS_Union
  <1>10. Cardinality(R \cap A) = 0 /\ Cardinality(R \cap B) = 0
    BY <1>5, <1>7
  <1>11. /\ Cardinality(R \cup A) = Cardinality(R) + f[x]
         /\ Cardinality(R \cup B) = Cardinality(R) + g[x]
    BY <1>1, <1>7, <1>8, <1>9, <1>10
  <1>12. Total(f) = Cardinality(R) + f[x]
    BY <1>2, <1>11, PileTotal
  <1>13. Total(g) = Cardinality(R) + g[x]
    BY <1>3, <1>11, PileTotal
  <1> QED
    BY <1>7, <1>12, <1>13

-----------------------------------------------------------------------------
(* Pages counted and results stored.                                        *)

(* A handler that saves has counted the result in hand, and one that is about to
   count has something to count. *)
InHand(h) ==
  /\ sub[h].pc \in {"save", "count"} => sub[h].done > 0
  /\ \A i \in sub[h].cur : i.out # "err"

Counting == \A h \in Handler : InHand(h)

(* A URL with results is in the queue.                                      *)
StoredQueued == \A k \in Key : Stored(k) > 0 => k \in Present(rec)

LEMMA CountingStep ==
  ASSUME TypeInv, Hands, Counting, [Next]_vars
  PROVE  Counting'
  <1> SUFFICES ASSUME NEW h \in Handler PROVE InHand(h)'
    BY DEF Counting
  <1>t. sub \in [Handler -> SubmitState] /\ sub[h].done \in Nat
    BY DEF TypeInv, TypeOK, SubmitState
  <1>h. InHand(h)
    BY DEF Counting
  <1>1. CASE sub'[h] = sub[h]
    BY <1>h, <1>1 DEF InHand
  <1>2. CASE sub'[h] = IdleSubmit
    BY <1>2 DEF InHand, IdleSubmit
  <1>3. CASE sub'[h] = [sub[h] EXCEPT !.client = None]
    BY <1>t, <1>h, <1>3 DEF InHand, SubmitState
  <1>4. ASSUME NEW w \in Worker, Submit(w, h) PROVE InHand(h)'
    BY <1>t, <1>4 DEF Submit, InHand, IdleSubmit
  <1>5. ASSUME NEW s, Proceed(h, s) PROVE sub'[h] = IdleSubmit \/ sub'[h] = s
    BY <1>5, ProceedHands
  <1>6. ASSUME NEW i \in sub[h].items, NEW ok \in BOOLEAN, MarkItem(h, i, ok)
        PROVE  InHand(h)'
    <2>1. PICK s \in SubmitState :
            /\ Proceed(h, s)
            /\ \/ s.cur = sub[h].cur /\ Standing(s)
               \/ /\ i.out # "err" /\ s.cur = {i} /\ s.done = sub[h].done + 1
                  /\ s.pc = "save"
      BY <1>6, MarkMove
    <2>2. CASE sub'[h] = s
      BY <1>t, <1>h, <2>1, <2>2 DEF InHand, Standing
    <2> QED
      BY <1>2, <1>5, <2>1, <2>2
  <1>7. ASSUME NEW i \in sub[h].cur, NEW ok \in BOOLEAN, SaveResult(h, i, ok)
        PROVE  InHand(h)'
    <2>1. PICK s \in SubmitState : Proceed(h, s) /\ s.cur = {} /\ Standing(s)
      BY <1>7, SaveMove
    <2>2. CASE sub'[h] = s
      BY <2>1, <2>2 DEF InHand, Standing
    <2> QED
      BY <1>2, <1>5, <2>1, <2>2
  <1>8. ASSUME NEW ok \in BOOLEAN, EnqueueLinks(h, ok) \/ CountPages(h, ok)
        PROVE  InHand(h)'
    <2>1. PICK s \in SubmitState :
            /\ Proceed(h, s) /\ s.cur = sub[h].cur /\ s.done = sub[h].done
            /\ s.pc = IF EnqueueLinks(h, ok) /\ s.done > 0 THEN "count" ELSE "idle"
      BY <1>8, LastMoves
    <2>2. CASE sub'[h] = s
      BY <1>h, <2>1, <2>2 DEF InHand
    <2> QED
      BY <1>2, <1>5, <2>1, <2>2
  <1>9. CASE SubmitStep(h)
    BY <1>6, <1>7, <1>8, <1>9 DEF SubmitStep
  <1> QED
    BY <1>1, <1>2, <1>3, <1>4, <1>9, SubSteps

LEMMA StoredStep ==
  ASSUME TypeInv, Hands, StoredQueued, [Next]_vars
  PROVE  StoredQueued'
  <1> SUFFICES ASSUME NEW k \in Key, Stored(k)' > 0 PROVE k \in Present(rec')
    BY DEF StoredQueued
  <1>1. CASE Stored(k) > 0
    BY <1>1, GrowthStep DEF StoredQueued, Grows
  <1>2. CASE ~(Stored(k) > 0)
    <2>1. PICK h \in Handler, ok \in BOOLEAN :
            \E i \in sub[h].cur : SaveResult(h, i, ok)
      BY <1>2, ResultSteps DEF Stored
    <2>2. PICK i \in sub[h].cur : SaveResult(h, i, ok)
      BY <2>1
    <2>3. k = i.key
      BY <1>2, <2>2 DEF SaveResult, TypeInv, TypeOK, Stored
    <2> QED
      BY <2>3, GrowthStep DEF Hands, SubmitHands, TaskOf, Grows
  <1> QED
    BY <1>1, <1>2

(* The two sums are over numbers.                                           *)
LEMMA SumsTyped ==
  ASSUME NEW j
  PROVE  /\ TypeInv /\ Counting => /\ StoredOf(j) \in [Key -> Nat]
                                   /\ UncountedOf(j) \in [Handler -> Nat]
         /\ TypeInv' /\ Counting' => /\ StoredOf(j)' \in [Key -> Nat]
                                     /\ UncountedOf(j)' \in [Handler -> Nat]
  <1>1. ASSUME TypeInv, Counting
        PROVE  StoredOf(j) \in [Key -> Nat] /\ UncountedOf(j) \in [Handler -> Nat]
    <2>1. \A k \in Key : results[k].page + results[k].empty \in Nat
      BY <1>1 DEF TypeInv, TypeOK, ResultCount
    <2>2. \A h \in Handler : /\ sub[h].done \in Nat
                             /\ sub[h].pc = "save" => sub[h].done - 1 \in Nat
      BY <1>1 DEF TypeInv, TypeOK, SubmitState, Counting, InHand
    <2> QED
      BY <2>1, <2>2 DEF StoredOf, UncountedOf
  <1>2. ASSUME TypeInv', Counting'
        PROVE  StoredOf(j)' \in [Key -> Nat] /\ UncountedOf(j)' \in [Handler -> Nat]
    <2>1. \A k \in Key : results'[k].page + results'[k].empty \in Nat
      BY <1>2 DEF TypeInv, TypeOK, ResultCount
    <2>2. \A h \in Handler : /\ sub'[h].done \in Nat
                             /\ sub'[h].pc = "save" => sub'[h].done - 1 \in Nat
      BY <1>2 DEF TypeInv, TypeOK, SubmitState, Counting, InHand
    <2> QED
      BY <2>1, <2>2 DEF StoredOf, UncountedOf
  <1> QED
    BY <1>1, <1>2

(* A handler works for a job that was there.                                *)
LEMMA SubmitJobs ==
  ASSUME TypeInv, Hands, [Next]_vars, NEW h \in Handler
  PROVE  sub'[h].job = 0 \/ sub'[h].job \in DOMAIN jobs
  <1>t. /\ sub \in [Handler -> SubmitState] /\ IdleSubmit.job = 0
        /\ sub[h].job = 0 \/ sub[h].job \in DOMAIN jobs
    BY DEF TypeInv, TypeOK, Refs, SubmitRefs, Hands, SubmitHands, IdleSubmit
  <1>1. CASE sub'[h] = sub[h] \/ sub'[h] = IdleSubmit
    BY <1>t, <1>1
  <1>2. CASE sub'[h] = [sub[h] EXCEPT !.client = None]
    BY <1>t, <1>2 DEF SubmitState
  <1>3. ASSUME NEW w \in Worker, Submit(w, h) PROVE sub'[h].job \in DOMAIN jobs
    BY <1>t, <1>3 DEF Submit, IdleSubmit, TypeInv, Refs, WorkerRefs
  <1>4. ASSUME NEW s, Proceed(h, s), s.job = sub[h].job
        PROVE  sub'[h].job = 0 \/ sub'[h].job \in DOMAIN jobs
    BY <1>t, <1>4, ProceedHands
  <1>5. CASE SubmitStep(h)
    BY <1>4, <1>5, MarkMove, SaveMove, LastMoves DEF SubmitStep
  <1> QED
    BY <1>1, <1>2, <1>3, <1>5, SubSteps

(* The values of a job that is there stay, where the results and handlers do. *)
LEMMA StoredStays ==
  ASSUME TypeInv, StoredQueued, [Next]_vars, NEW j \in DOMAIN jobs,
         NEW k \in Key, results'[k] = results[k]
  PROVE  StoredOf(j)'[k] = StoredOf(j)[k]
  <1>1. CASE k \in Present(rec)
    BY <1>1, GrowthStep DEF StoredOf, Grows
  <1>2. CASE k \notin Present(rec)
    <2>1. Stored(k) \in Nat /\ ~(Stored(k) > 0)
      BY <1>2 DEF StoredQueued, Stored, TypeInv, TypeOK, ResultCount
    <2>2. results[k].page + results[k].empty = 0
      BY <2>1 DEF Stored
    <2> QED
      BY <2>2 DEF StoredOf
  <1> QED
    BY <1>1, <1>2

(* What a handler has to count changes when it stores a result or counts.   *)
LEMMA UncountedStays ==
  ASSUME TypeInv, Hands, [Next]_vars, faults' = faults, NEW j \in DOMAIN jobs,
         NEW h \in Handler,
         \A ok \in BOOLEAN : /\ \A i \in sub[h].cur : ~SaveResult(h, i, ok)
                             /\ ~CountPages(h, ok)
  PROVE  UncountedOf(j)'[h] = UncountedOf(j)[h]
  <1>t. /\ sub \in [Handler -> SubmitState] /\ sub[h].done \in Nat
        /\ IdleSubmit.job = 0 /\ j # 0
    BY JobTable DEF TypeInv, TypeOK, SubmitState, IdleSubmit, JobId
  <1>1. ASSUME sub'[h].job = sub[h].job,
               (IF sub'[h].pc = "save" THEN sub'[h].done - 1 ELSE sub'[h].done)
                 = IF sub[h].pc = "save" THEN sub[h].done - 1 ELSE sub[h].done
        PROVE  UncountedOf(j)'[h] = UncountedOf(j)[h]
    BY <1>1 DEF UncountedOf
  <1>2. CASE sub'[h] = sub[h]
    BY <1>1, <1>2
  <1>3. CASE sub'[h] = [sub[h] EXCEPT !.client = None]
    BY <1>t, <1>1, <1>3 DEF SubmitState
  <1>4. ASSUME NEW w \in Worker, Submit(w, h)
        PROVE  UncountedOf(j)'[h] = UncountedOf(j)[h]
    <2>1. sub[h] = IdleSubmit
      BY <1>4 DEF Submit, Hands, SubmitHands
    <2>2. UncountedOf(j)[h] = 0
      BY <1>t, <2>1 DEF UncountedOf
    <2>3. sub'[h].done = 0 /\ sub'[h].pc = "item"
      BY <1>t, <1>4 DEF Submit, IdleSubmit
    <2> QED
      BY <2>2, <2>3 DEF UncountedOf
  <1>5. ASSUME NEW s \in SubmitState, Proceed(h, s), s.job = sub[h].job,
               s.pc = "idle" => s.done = 0,
               (IF s.pc = "save" THEN s.done - 1 ELSE s.done) = sub[h].done,
               sub[h].pc # "save"
        PROVE  UncountedOf(j)'[h] = UncountedOf(j)[h]
    <2>1. CASE s.pc # "idle"
      <3>1. sub'[h] = s
        BY <1>t, <1>5, <2>1 DEF Proceed
      <3> QED
        BY <1>1, <1>5, <3>1
    <2>2. CASE s.pc = "idle"
      <3>1. sub'[h] = IdleSubmit
        BY <1>t, <1>5, <2>2 DEF Proceed
      <3> QED
        BY <1>t, <1>5, <2>2, <3>1 DEF UncountedOf
    <2> QED
      BY <2>1, <2>2
  <1>6. ASSUME NEW i \in sub[h].items, NEW ok \in BOOLEAN, MarkItem(h, i, ok)
        PROVE  UncountedOf(j)'[h] = UncountedOf(j)[h]
    <2>1. PICK s \in SubmitState :
            /\ Proceed(h, s) /\ s.job = sub[h].job
            /\ \/ s.done = sub[h].done /\ Standing(s)
               \/ s.done = sub[h].done + 1 /\ s.pc = "save"
      BY <1>6, MarkMove
    <2>2. /\ s.pc = "idle" => s.done = 0
          /\ (IF s.pc = "save" THEN s.done - 1 ELSE s.done) = sub[h].done
      BY <1>t, <2>1 DEF Standing
    <2>3. sub[h].pc # "save"
      BY <1>6 DEF MarkItem
    <2> QED
      BY <1>5, <2>1, <2>2, <2>3
  <1>7. ASSUME NEW ok \in BOOLEAN, EnqueueLinks(h, ok)
        PROVE  UncountedOf(j)'[h] = UncountedOf(j)[h]
    <2>1. PICK s \in SubmitState :
            /\ Proceed(h, s) /\ s.job = sub[h].job /\ s.done = sub[h].done
            /\ s.pc = IF EnqueueLinks(h, ok) /\ s.done > 0 THEN "count" ELSE "idle"
      BY <1>7, LastMoves
    <2>2. sub[h].pc # "save"
      BY <1>7 DEF EnqueueLinks
    <2> QED
      BY <1>t, <1>5, <1>7, <2>1, <2>2
  <1>8. CASE SubmitStep(h)
    BY <1>6, <1>7, <1>8 DEF SubmitStep
  <1> QED
    BY <1>2, <1>3, <1>4, <1>8, SubMoves

LEMMA UncountedSave ==
  ASSUME TypeInv, Counting, NEW j \in DOMAIN jobs,
         NEW h \in Handler, NEW ok \in BOOLEAN, NEW i \in sub[h].cur, SaveResult(h, i, ok)
  PROVE  UncountedOf(j)'[h] = UncountedOf(j)[h] + (IF sub[h].job = j THEN 1 ELSE 0)
  <1>1. /\ sub \in [Handler -> SubmitState] /\ sub[h].done \in Nat /\ sub[h].done > 0
        /\ sub[h].pc = "save"
    BY DEF TypeInv, TypeOK, SubmitState, Counting, InHand, SaveResult
  <1>2. PICK s \in SubmitState : /\ Proceed(h, s) /\ s.job = sub[h].job
                                 /\ s.done = sub[h].done /\ Standing(s)
    BY SaveMove
  <1>3. sub'[h] = s /\ s.pc # "save"
    BY <1>1, <1>2 DEF Standing, Proceed
  <1> QED
    BY <1>1, <1>2, <1>3 DEF UncountedOf

LEMMA UncountedCount ==
  ASSUME TypeInv, NEW j \in DOMAIN jobs, NEW h \in Handler, CountPages(h, TRUE)
  PROVE  /\ UncountedOf(j)'[h] = 0
         /\ UncountedOf(j)[h] = IF sub[h].job = j THEN sub[h].done ELSE 0
  <1>1. IdleSubmit.job = 0 /\ j # 0 /\ sub[h].pc = "count"
    BY JobTable DEF IdleSubmit, JobId, CountPages
  <1>2. PICK s \in SubmitState : Proceed(h, s) /\ s.pc = "idle"
    <2>1. ~EnqueueLinks(h, TRUE)
      BY <1>1 DEF EnqueueLinks
    <2> QED
      BY <2>1, LastMoves
  <1>3. sub'[h] = IdleSubmit
    BY <1>2 DEF Proceed, TypeInv, TypeOK
  <1> QED
    BY <1>1, <1>3 DEF UncountedOf

(* The statement that counts adds what the handler saved.                   *)
LEMMA PagesCounted ==
  ASSUME TypeInv, NEW j \in DOMAIN jobs, NEW h \in Handler, CountPages(h, TRUE)
  PROVE  /\ jobs'[j].pages = jobs[j].pages + (IF sub[h].job = j THEN sub[h].done ELSE 0)
         /\ DOMAIN jobs' = DOMAIN jobs
  <1>1. jobs[j] \in JobRow /\ jobs[j].pages \in Nat
    BY JobTable
  <1>2. jobs' = [jobs EXCEPT ![sub[h].job].pages = PagesAfter(@, sub[h])]
    BY DEF CountPages
  <1>3. CASE sub[h].job = j
    BY <1>1, <1>2, <1>3 DEF PagesAfter, JobRow
  <1>4. CASE sub[h].job # j
    BY <1>1, <1>2, <1>4
  <1> QED
    BY <1>2, <1>3, <1>4

(* Another row or handler stands in for none: the other values stay.        *)
LEMMA PagesSave ==
  ASSUME TypeInv, TypeInv', Hands, Counting, Counting', StoredQueued, [Next]_vars,
         faults' = faults, NEW j \in DOMAIN jobs,
         Total(StoredOf(j)) = jobs[j].pages + Total(UncountedOf(j)),
         NEW h \in Handler, NEW ok \in BOOLEAN, NEW i \in sub[h].cur, SaveResult(h, i, ok)
  PROVE  Total(StoredOf(j)') = jobs'[j].pages + Total(UncountedOf(j)')
  <1> DEFINE f == StoredOf(j)
             g == StoredOf(j)'
             u == UncountedOf(j)
             v == UncountedOf(j)'
             one == IF sub[h].job = j THEN 1 ELSE 0
  <1>1. /\ f \in [Key -> Nat] /\ g \in [Key -> Nat]
        /\ u \in [Handler -> Nat] /\ v \in [Handler -> Nat]
    BY SumsTyped
  <1>2. /\ i \in Item /\ i.key \in Key /\ faults \in Nat
        /\ results \in [Key -> ResultCount] /\ rec \in [Key -> Row]
        /\ rec[i.key].job = sub[h].job /\ i.key \in Present(rec)
    BY DEF TypeInv, TypeOK, TrTypeOK, SubmitState, Item, Hands, SubmitHands, TaskOf
  <1>3. i.out \in {"page", "empty"}
    BY <1>2, CrawlAssumption DEF Item, Counting, InHand
  <1>4. results' = [results EXCEPT ![i.key][i.out] = @ + 1] /\ rec' = rec /\ jobs' = jobs
    BY <1>2 DEF SaveResult, CountFault
  <1>5. \A k \in Key \ {i.key} : g[k] = f[k]
    BY <1>2, <1>4 DEF StoredOf
  <1>6. g[i.key] = f[i.key] + one
    BY <1>2, <1>3, <1>4 DEF StoredOf, ResultCount
  <1>7. v[h] = u[h] + one
    BY UncountedSave
  <1>8. \A b \in Handler \ {h} : v[b] = u[b]
    <2>1. PICK s \in SubmitState : Proceed(h, s)
      BY SaveMove
    <2> QED
      BY <2>1, ProceedHands DEF UncountedOf
  <1>9. IsFiniteSet(Key) /\ IsFiniteSet(Handler) /\ jobs[j].pages \in Nat /\ one \in Nat
    BY KeysFinite, CrawlAssumption, JobTable
  <1> HIDE DEF f, g, u, v, one
  <1>10. Total(g) + f[i.key] = Total(f) + g[i.key]
    BY <1>1, <1>2, <1>5, <1>9, TotalUpdate
  <1>11. Total(v) + u[h] = Total(u) + v[h]
    BY <1>1, <1>8, <1>9, TotalUpdate
  <1>12. Total(f) \in Nat /\ Total(g) \in Nat /\ Total(u) \in Nat /\ Total(v) \in Nat
    BY <1>1, <1>9, PileFinite
  <1>13. f[i.key] \in Nat /\ u[h] \in Nat
    BY <1>1, <1>2
  <1>14. Total(g) = Total(f) + one /\ Total(v) = Total(u) + one
    BY <1>6, <1>7, <1>9, <1>10, <1>11, <1>12, <1>13
  <1>15. Total(f) = jobs[j].pages + Total(u)
    BY DEF f, u
  <1>16. Total(g) = jobs[j].pages + Total(v)
    BY <1>9, <1>12, <1>14, <1>15
  <1> QED
    BY <1>4, <1>16 DEF g, v

LEMMA PagesCount ==
  ASSUME TypeInv, TypeInv', Hands, Counting, Counting', StoredQueued, [Next]_vars,
         faults' = faults, NEW j \in DOMAIN jobs,
         Total(StoredOf(j)) = jobs[j].pages + Total(UncountedOf(j)),
         NEW h \in Handler, NEW ok \in BOOLEAN, CountPages(h, ok)
  PROVE  Total(StoredOf(j)') = jobs'[j].pages + Total(UncountedOf(j)')
  <1> DEFINE f == StoredOf(j)
             g == StoredOf(j)'
             u == UncountedOf(j)
             v == UncountedOf(j)'
             mine == IF sub[h].job = j THEN sub[h].done ELSE 0
  <1>1. /\ f \in [Key -> Nat] /\ g \in [Key -> Nat]
        /\ u \in [Handler -> Nat] /\ v \in [Handler -> Nat]
    BY SumsTyped
  <1>2. faults \in Nat /\ sub[h].done \in Nat
    BY DEF TypeInv, TypeOK, TrTypeOK, SubmitState
  <1>3. ok /\ UNCHANGED <<rec, results>>
    BY <1>2 DEF CountPages, CountFault
  <1>4. CountPages(h, TRUE)
    BY <1>3
  <1>5. g = f
    BY <1>3 DEF StoredOf
  <1>6. v[h] = 0 /\ u[h] = mine /\ jobs'[j].pages = jobs[j].pages + mine
    BY <1>4, UncountedCount, PagesCounted
  <1>7. \A b \in Handler \ {h} : v[b] = u[b]
    <2>1. PICK s \in SubmitState : Proceed(h, s)
      BY LastMoves
    <2> QED
      BY <2>1, ProceedHands DEF UncountedOf
  <1>8. IsFiniteSet(Handler) /\ jobs[j].pages \in Nat /\ mine \in Nat
    BY <1>2, CrawlAssumption, JobTable
  <1> HIDE DEF f, g, u, v, mine
  <1>9. Total(v) + u[h] = Total(u) + v[h]
    BY <1>1, <1>7, <1>8, TotalUpdate
  <1>10. Total(u) \in Nat /\ Total(v) \in Nat
    BY <1>1, <1>8, PileFinite
  <1>11. Total(f) = jobs[j].pages + Total(u)
    BY DEF f, u
  <1>12. Total(g) = jobs'[j].pages + Total(v)
    BY <1>5, <1>6, <1>8, <1>9, <1>10, <1>11
  <1> QED
    BY <1>12 DEF g, v

(* A step that neither stores nor counts.                                   *)
LEMMA PagesQuiet ==
  ASSUME TypeInv, TypeInv', Hands, Rows, Counting, StoredQueued, [Next]_vars,
         faults' = faults, faults = 0, PagesMatchResults, NEW j \in DOMAIN jobs',
         \A h \in Handler, ok \in BOOLEAN : /\ \A i \in sub[h].cur : ~SaveResult(h, i, ok)
                                            /\ ~CountPages(h, ok)
  PROVE  Total(StoredOf(j)') = jobs'[j].pages + Total(UncountedOf(j)')
  <1>1. results' = results
    BY ResultSteps
  <1>2. CASE j \in DOMAIN jobs
    <2>1. \A k \in Key : StoredOf(j)'[k] = StoredOf(j)[k]
      BY <1>1, <1>2, StoredStays
    <2>2. StoredOf(j)' = StoredOf(j)
      BY <2>1 DEF StoredOf
    <2>3. \A h \in Handler : UncountedOf(j)'[h] = UncountedOf(j)[h]
      BY <1>2, UncountedStays
    <2>4. UncountedOf(j)' = UncountedOf(j)
      BY <2>3 DEF UncountedOf
    <2>5. jobs'[j].pages = jobs[j].pages
      <3>1. faults \in Nat
        BY DEF TypeInv, TypeOK, TrTypeOK
      <3>2. jobs' = jobs \/ \E c \in Caller : CreateJob(c)
        BY <3>1, TriggerMoves DEF FindDomain, CheckActive, SeedQueue
      <3> QED
        BY <1>2, <3>2, JobCreated
    <2>6. Total(StoredOf(j)) = jobs[j].pages + Total(UncountedOf(j))
      BY <1>2 DEF PagesMatchResults
    <2> QED
      BY <2>2, <2>4, <2>5, <2>6
  <1>3. CASE j \notin DOMAIN jobs
    <2>1. PICK c \in Caller : CreateJob(c)
      <3>1. faults \in Nat /\ jobs' # jobs
        BY <1>3 DEF TypeInv, TypeOK, TrTypeOK
      <3> QED
        BY <3>1, TriggerMoves DEF FindDomain, CheckActive, SeedQueue
    <2>2. j = Len(jobs) + 1 /\ rec' = rec
      BY <1>3, <2>1, JobCreated DEF CreateJob
    <2>3. jobs'[j].pages = 0 /\ j # 0
      <3> DEFINE row == [dom |-> tr[c].dom, status |-> "running", pages |-> 0]
      <3>1. row \in JobRow /\ row.pages = 0
        BY <2>1 DEF CreateJob, TypeInv, Refs, TriggerRefs, JobRow
      <3>2. jobs' = Append(jobs, row) /\ jobs \in Seq(JobRow)
        BY <2>1 DEF CreateJob, TypeInv, TypeOK, TrTypeOK
      <3> HIDE DEF row
      <3> QED
        BY <2>2, <3>1, <3>2, AppendJob
    <2>4. StoredOf(j)' \in [Key -> Nat] /\ \A k \in Key : StoredOf(j)'[k] = 0
      <3>1. \A k \in Key : results[k].page + results[k].empty \in Nat
        BY DEF TypeInv, TypeOK, ResultCount
      <3>2. ASSUME NEW k \in Key, rec[k].job = j
            PROVE  results[k].page + results[k].empty = 0
        <4>1. k \notin Present(rec)
          BY <1>3, <3>2 DEF Rows
        <4> QED
          BY <3>1, <4>1 DEF StoredQueued, Stored
      <3> QED
        BY <1>1, <2>2, <3>2 DEF StoredOf
    <2>5. UncountedOf(j)' \in [Handler -> Nat] /\ \A h \in Handler : UncountedOf(j)'[h] = 0
      <3>1. \A h \in Handler : sub'[h].job # j
        BY <1>3, <2>3, SubmitJobs
      <3> QED
        BY <3>1 DEF UncountedOf
    <2>6. Total(StoredOf(j)') = 0
      BY <2>4, TotalZero
    <2>7. Total(UncountedOf(j)') = 0
      BY <2>5, TotalZero
    <2> QED
      BY <2>3, <2>6, <2>7
  <1> QED
    BY <1>2, <1>3

(* PagesMatchResults: the counter of a job and its result rows agree up to what
   handlers have stored and not counted, for any number of workers that submit at
   once (usecases.go:289, 336). *)
THEOREM PagesAgree == Spec => []PagesMatchResults
  <1> DEFINE Inv == Counting /\ StoredQueued /\ PagesMatchResults
  <1>1. Init => Inv
    <2> SUFFICES ASSUME Init PROVE Inv
      OBVIOUS
    <2>1. Counting
      BY DEF Init, Counting, InHand, IdleSubmit
    <2>2. StoredQueued
      BY DEF Init, StoredQueued, Stored
    <2>3. PagesMatchResults
      BY DEF Init, TrInit, PagesMatchResults
    <2> QED
      BY <2>1, <2>2, <2>3
  <1>2. TypeInv /\ TypeInv' /\ Hands /\ Origin /\ Inv /\ [Next]_vars => Inv'
    <2> SUFFICES ASSUME TypeInv, TypeInv', Hands, Origin, Inv, [Next]_vars PROVE Inv'
      OBVIOUS
    <2>1. Counting' /\ StoredQueued'
      BY CountingStep, StoredStep
    <2>2. ASSUME faults' = 0, NEW j \in DOMAIN jobs'
          PROVE  Total(StoredOf(j)') = jobs'[j].pages + Total(UncountedOf(j)')
      <3>1. faults' = faults /\ faults = 0
        BY <2>2, FaultsGrow DEF TypeInv, TypeOK, TrTypeOK
      <3>2. CASE \E h \in Handler, ok \in BOOLEAN : \E i \in sub[h].cur : SaveResult(h, i, ok)
        <4>1. PICK h \in Handler, ok \in BOOLEAN :
                \E i \in sub[h].cur : SaveResult(h, i, ok)
          BY <3>2
        <4>2. j \in DOMAIN jobs
          BY <2>2, <4>1 DEF SaveResult
        <4>3. Total(StoredOf(j)) = jobs[j].pages + Total(UncountedOf(j))
          BY <3>1, <4>2 DEF PagesMatchResults
        <4> QED
          BY <2>1, <3>1, <4>1, <4>2, <4>3, PagesSave
      <3>3. CASE \E h \in Handler, ok \in BOOLEAN : CountPages(h, ok)
        <4>1. PICK h \in Handler, ok \in BOOLEAN : CountPages(h, ok)
          BY <3>3
        <4>2. j \in DOMAIN jobs
          BY <2>2, <4>1 DEF CountPages
        <4>3. Total(StoredOf(j)) = jobs[j].pages + Total(UncountedOf(j))
          BY <3>1, <4>2 DEF PagesMatchResults
        <4> QED
          BY <2>1, <3>1, <4>1, <4>2, <4>3, PagesCount
      <3>4. CASE \A h \in Handler, ok \in BOOLEAN :
                   /\ \A i \in sub[h].cur : ~SaveResult(h, i, ok)
                   /\ ~CountPages(h, ok)
        BY <2>2, <3>1, <3>4, PagesQuiet DEF Origin
      <3> QED
        BY <3>2, <3>3, <3>4
    <2>3. PagesMatchResults'
      BY <2>2 DEF PagesMatchResults
    <2> QED
      BY <2>1, <2>3
  <1> QED
    BY <1>1, <1>2, TypeInvariant, HandsInvariant, OriginInvariant, PTL DEF Spec

-----------------------------------------------------------------------------
(* The budget of a job.                                                     *)

Limit(j) == MaxPages[jobs[j].dom]

(* How many URLs a submit may list that read p as the counted pages, and how many
   submits may that read 0, 1, ... one after the other.                      *)
Left(n, p) == IF p < n THEN n - 1 - p ELSE 0
Triangle(m) == (m * (m - 1)) \div 2

LEMMA LeftFacts ==
  ASSUME NEW n \in Nat, NEW p \in Nat
  PROVE  /\ Left(n, p) \in Nat
         /\ \A q \in Nat : p <= q => Left(n, q) <= Left(n, p)
         /\ \A q \in Nat : p < q => Left(n, q) = 0 \/ Left(n, q) < Left(n, p)
         /\ n > 0 => Left(n, 0) = n - 1
  BY DEF Left

LEMMA TriangleTwice ==
  ASSUME NEW m \in Nat
  PROVE  Triangle(m) \in Nat /\ 2 * Triangle(m) = m * (m - 1)
  <1>1. PICK a \in Nat : m = 2 * a \/ m = 2 * a + 1
    <2>1. m \div 2 \in Nat /\ (m = 2 * (m \div 2) \/ m = 2 * (m \div 2) + 1)
      OBVIOUS
    <2> QED
      BY <2>1
  <1>2. CASE m = 2 * a
    <2>1. m * (m - 1) = 2 * (a * (2 * a - 1)) /\ a * (2 * a - 1) \in Int
      BY <1>2
    <2>2. a * (2 * a - 1) \in Nat
      <3>1. CASE a = 0
        BY <3>1
      <3>2. CASE a # 0
        <4>1. 2 * a - 1 \in Nat
          BY <3>2
        <4> QED
          BY <4>1
      <3> QED
        BY <3>1, <3>2
    <2> DEFINE b == a * (2 * a - 1)
    <2> HIDE DEF b
    <2>3. b \in Nat /\ m * (m - 1) = 2 * b
      BY <2>1, <2>2 DEF b
    <2>4. (2 * b) \div 2 = b
      BY <2>3
    <2> QED
      BY <2>3, <2>4 DEF Triangle
  <1>3. CASE m = 2 * a + 1
    <2> DEFINE b == (2 * a + 1) * a
    <2>1. m * (m - 1) = 2 * b /\ b \in Nat
      BY <1>3
    <2> HIDE DEF b
    <2>2. (2 * b) \div 2 = b
      BY <2>1
    <2> QED
      BY <2>1, <2>2 DEF Triangle
  <1> QED
    BY <1>1, <1>2, <1>3

(* Whoever reads more counted pages has less left, by at least what it may list. *)
LEMMA TriangleGrows ==
  ASSUME NEW m \in Nat, NEW l \in Nat, l = 0 \/ l < m
  PROVE  Triangle(l) + l <= Triangle(m)
  <1>1. /\ Triangle(l) \in Nat /\ 2 * Triangle(l) = l * (l - 1)
        /\ Triangle(m) \in Nat /\ 2 * Triangle(m) = m * (m - 1)
    BY TriangleTwice
  <1>2. CASE l = 0
    BY <1>1, <1>2
  <1>3. CASE l < m
    <2>1. PICK k \in Nat : m = l + 1 + k
      <3>1. m - l - 1 \in Nat /\ m = l + 1 + (m - l - 1)
        BY <1>3
      <3> QED
        BY <3>1
    <2>2. m * (m - 1) = l * (l - 1) + 2 * l + (k * (2 * l + 1) + k * k)
      BY <2>1
    <2>3. k * (2 * l + 1) + k * k \in Nat
      BY <2>1
    <2> DEFINE b == k * (2 * l + 1) + k * k
               x == m * (m - 1)
               y == l * (l - 1)
    <2>4. x = y + 2 * l + b /\ b \in Nat /\ x \in Int /\ y \in Int
      BY <2>2, <2>3
    <2>5. 2 * Triangle(l) = y /\ 2 * Triangle(m) = x
      BY <1>1
    <2> HIDE DEF b, x, y
    <2> QED
      BY <1>1, <2>4, <2>5
  <1> QED
    BY <1>2, <1>3

(* A submit lists no more links than the budget leaves it.                  *)
LEMMA AdmittedFits ==
  ASSUME NEW s \in SubmitState, NEW d \in Domain, NEW i \in Item, NEW n,
         MaxPages[d] > 0
  PROVE  \/ Admitted(s, d, i, n) = {}
         \/ s.base + s.done + s.len + Cardinality(Admitted(s, d, i, n)) <= MaxPages[d]
  <1> DEFINE links == Links[i.key[2]]
             inScope == {x \in DOMAIN links : InScope(d, links[x], n)}
             earlier(x) == {y \in inScope : y < x}
             used == s.base + s.done + s.len
             room == MaxPages[d] - used
             A == Admitted(s, d, i, n)
             place == [x \in A |-> Cardinality(earlier(x))]
  <1>1. MaxPages[d] \in Nat /\ used \in Nat
    BY CrawlAssumption DEF SubmitState
  <1>2. IsFiniteSet(inScope) /\ inScope \subseteq Nat
    <2>1. links \in Seq(Url)
      BY UrlQueueAssumption DEF Item, Key
    <2>2. inScope \in SUBSET (1..Len(links)) /\ Len(links) \in Nat
      BY <2>1
    <2>3. IsFiniteSet(1..Len(links))
      BY <2>2, FS_Interval
    <2> HIDE DEF inScope
    <2>4. IsFiniteSet(inScope)
      BY <2>2, <2>3, FS_Subset
    <2> QED
      BY <2>2, <2>4
  <1>3. \A x \in inScope : IsFiniteSet(earlier(x)) /\ Cardinality(earlier(x)) \in Nat
    BY <1>2, FS_Subset, FS_CardinalityType
  <1>4. A = {x \in inScope : used + Cardinality(earlier(x)) < MaxPages[d]}
    BY <1>1 DEF Admitted
  <1> HIDE DEF A, used, inScope
  <1>5. place \in [A -> 0..(room - 1)]
    <2>1. ASSUME NEW x \in A PROVE Cardinality(earlier(x)) \in 0..(room - 1)
      <3> DEFINE c == Cardinality(earlier(x))
      <3>1. c \in Nat /\ used + c < MaxPages[d]
        BY <1>3, <1>4
      <3> HIDE DEF c
      <3>2. c \in 0..(room - 1)
        BY <1>1, <3>1
      <3> QED
        BY <3>2 DEF c
    <2> HIDE DEF earlier, room
    <2> QED
      BY <2>1
  <1>6. ASSUME NEW x \in A, NEW y \in A, x < y PROVE place[x] # place[y]
    <2>1. x \in inScope /\ y \in inScope /\ inScope \subseteq Nat
      BY <1>2, <1>4
    <2>2. \A z \in inScope : z < x => z < y
      BY <1>6, <2>1
    <2>3. earlier(x) \in SUBSET earlier(y)
      BY <2>2
    <2>4. x \in earlier(y) /\ x \notin earlier(x)
      BY <1>6, <2>1
    <2>5. IsFiniteSet(earlier(y)) /\ earlier(x) # earlier(y)
      BY <1>3, <2>1, <2>4
    <2>6. Cardinality(earlier(x)) # Cardinality(earlier(y))
      BY <2>3, <2>5, FS_Subset
    <2> QED
      BY <2>6
  <1>7. place \in Injection(A, 0..(room - 1))
    <2>1. A \subseteq Nat
      BY <1>2, <1>4
    <2> HIDE DEF place, room
    <2>2. \A x, y \in A : x < y \/ y < x \/ x = y
      BY <2>1
    <2>3. \A x, y \in A : place[x] = place[y] => x = y
      BY <1>6, <2>2
    <2> QED
      BY <1>5, <2>3 DEF Injection, IsInjective
  <1>8. IsFiniteSet(0..(room - 1)) /\ (A # {} => Cardinality(0..(room - 1)) = room)
    <2>1. \A x \in A : 0..(room - 1) # {}
      BY <1>5
    <2>2. room \in Int /\ room - 1 \in Int
      BY <1>1
    <2> HIDE DEF room
    <2>3. A # {} => room > 0
      BY <2>1, <2>2
    <2>4. /\ IsFiniteSet(0..(room - 1))
          /\ Cardinality(0..(room - 1)) = IF 0 > room - 1 THEN 0 ELSE room - 1 - 0 + 1
      BY <2>2, FS_Interval
    <2> QED
      BY <2>2, <2>3, <2>4
  <1>9. Cardinality(A) <= Cardinality(0..(room - 1)) /\ IsFiniteSet(A)
    BY <1>7, <1>8, FS_Injection
  <1>10. Cardinality(A) \in Nat
    BY <1>9, FS_CardinalityType
  <1>11. A = {} \/ used + Cardinality(A) <= MaxPages[d]
    BY <1>1, <1>8, <1>9, <1>10
  <1> QED
    BY <1>11 DEF A, used

(* No more URLs are listed than links.                                      *)
ListedBy(h) == {u \in Url : sub[h].out[u] > 0}

LEMMA ListedFits ==
  ASSUME TypeInv, NEW h \in Handler, NEW i \in sub[h].cur, NEW n \in Nat, n > 0
  PROVE  Cardinality({u \in Url :
                        Listed(sub[h].out, i.key[2], ListedFor(h, i), n)[u] > 0})
           <= Cardinality(ListedBy(h)) + Cardinality(ListedFor(h, i))
  <1> DEFINE xs == ListedFor(h, i)
             f == [x \in xs |-> Links[i.key[2]][x]]
             found == {f[x] : x \in xs}
             new == {u \in Url : Listed(sub[h].out, i.key[2], xs, n)[u] > 0}
             old == ListedBy(h)
  <1>1. \A u \in Url : u \in new <=> u \in old \/ u \in found
    BY ListGrows DEF ListedBy
  <1>2. IsFiniteSet(xs) /\ Cardinality(xs) \in Nat
    <2>1. \A u \in Url : IsFiniteSet(xs) /\ Cardinality(xs) \in Nat
      BY ListGrows
    <2>2. i.key[2] \in Url
      BY DEF TypeInv, TypeOK, SubmitState, Item, Key
    <2> QED
      BY <2>1, <2>2
  <1>3. IsFiniteSet(old) /\ Cardinality(old) \in Nat
    BY UrlQueueAssumption, FS_Subset, FS_CardinalityType DEF ListedBy
  <1>4. IsFiniteSet(found) /\ Cardinality(found) <= Cardinality(xs) /\ Cardinality(found) \in Nat
    <2>1. f \in Surjection(xs, found)
      BY DEF Surjection
    <2> HIDE DEF f, found
    <2> QED
      BY <1>2, <2>1, FS_Surjection, FS_CardinalityType
  <1>5. new \subseteq old \cup found
    BY <1>1
  <1> HIDE DEF new, old, found, xs
  <1>6. /\ IsFiniteSet(old \cup found)
        /\ Cardinality(old \cup found)
             = Cardinality(old) + Cardinality(found) - Cardinality(old \cap found)
    BY <1>3, <1>4, FS_Union
  <1>7. Cardinality(old \cap found) \in Nat
    <2>1. old \cap found \in SUBSET old
      OBVIOUS
    <2> QED
      BY <1>3, <2>1, FS_Subset, FS_CardinalityType
  <1>8. Cardinality(new) \in Nat /\ Cardinality(new) <= Cardinality(old \cup found)
    BY <1>5, <1>6, FS_Subset, FS_CardinalityType
  <1>9. Cardinality(new) <= Cardinality(old) + Cardinality(xs)
    BY <1>2, <1>3, <1>4, <1>6, <1>7, <1>8
  <1> QED
    BY <1>9 DEF new, old, xs

(* What a submit has listed fits the pages counted when it began.           *)
Fits(s) ==
  LET n == Limit(s.job)
  IN  /\ s.base <= jobs[s.job].pages
      /\ s.len > 0 => s.done > 0 /\ (n > 0 => s.base + 1 + s.len <= n)
      /\ Cardinality({u \in Url : s.out[u] > 0}) <= s.len

Budgets == \A h \in Handler : sub[h].pc # "idle" => Fits(sub[h])

(* The counter of a job only grows.                                         *)
LEMMA PagesGrow ==
  ASSUME TypeInv, [Next]_vars, NEW j \in DOMAIN jobs
  PROVE  /\ jobs'[j].pages \in Nat /\ jobs[j].pages <= jobs'[j].pages
         /\ Limit(j)' = Limit(j)
         /\ (\A h \in Handler, ok \in BOOLEAN : ~CountPages(h, ok))
              => jobs'[j].pages = jobs[j].pages
  <1>1. jobs[j].pages \in Nat /\ (faults \in Nat)
    BY JobTable DEF TypeInv, TypeOK, TrTypeOK
  <1>2. Limit(j)' = Limit(j)
    BY JobsGrow DEF Limit
  <1>3. ASSUME NEW h \in Handler, NEW ok \in BOOLEAN, CountPages(h, ok)
        PROVE  jobs'[j].pages \in Nat /\ jobs[j].pages <= jobs'[j].pages
    <2>1. CASE ok
      <3>1. CountPages(h, TRUE) /\ sub[h].done \in Nat
        BY <1>3, <2>1 DEF TypeInv, TypeOK, SubmitState
      <3> DEFINE more == IF sub[h].job = j THEN sub[h].done ELSE 0
      <3>2. more \in Nat
        BY <3>1
      <3>3. jobs'[j].pages = jobs[j].pages + more
        BY <3>1, PagesCounted
      <3> HIDE DEF more
      <3> QED
        BY <1>1, <3>2, <3>3
    <2>2. CASE ~ok
      BY <1>1, <1>3, <2>2 DEF CountPages
    <2> QED
      BY <2>1, <2>2
  <1>4. CASE \A h \in Handler, ok \in BOOLEAN : ~CountPages(h, ok)
    <2>1. jobs' = jobs \/ \E c \in Caller : CreateJob(c)
      BY <1>4, TriggerMoves DEF FindDomain, CheckActive, SeedQueue
    <2>2. jobs'[j] = jobs[j]
      BY <2>1, JobCreated
    <2> QED
      BY <1>1, <1>2, <2>2
  <1> QED
    BY <1>2, <1>3, <1>4

LEMMA FitsStay ==
  ASSUME TypeInv, [Next]_vars, NEW s, s.job \in DOMAIN jobs, s.base \in Nat, Fits(s)
  PROVE  Fits(s)'
  <1>1. /\ jobs[s.job].pages \in Nat /\ jobs'[s.job].pages \in Nat
        /\ jobs[s.job].pages <= jobs'[s.job].pages /\ Limit(s.job)' = Limit(s.job)
    BY PagesGrow, JobTable
  <1> QED
    BY <1>1 DEF Fits

LEMMA BudgetsStep ==
  ASSUME TypeInv, Hands, Counting, Budgets, [Next]_vars
  PROVE  Budgets'
  <1> SUFFICES ASSUME NEW h \in Handler, sub'[h].pc # "idle" PROVE Fits(sub[h])'
    BY DEF Budgets
  <1>t. /\ sub \in [Handler -> SubmitState] /\ sub[h] \in SubmitState
        /\ sub[h].base \in Nat /\ sub[h].done \in Nat /\ sub[h].len \in Nat
        /\ sub[h].pc # "idle" => sub[h].job \in DOMAIN jobs
    BY DEF TypeInv, TypeOK, SubmitState, Refs, SubmitRefs
  <1>0. ASSUME NEW s \in SubmitState, sub'[h] = s, s.job = sub[h].job,
               sub[h].pc # "idle", Fits(s)
        PROVE  Fits(sub[h])'
    <2>1. s.base \in Nat /\ s.job \in DOMAIN jobs
      BY <1>t, <1>0 DEF SubmitState
    <2>2. Fits(s)'
      BY <1>0, <2>1, FitsStay
    <2> QED
      BY <1>0, <2>2 DEF Fits, Limit
  <1>1. CASE sub[h].pc # "idle" /\ sub'[h] = sub[h]
    BY <1>t, <1>0, <1>1 DEF Budgets
  <1>2. sub'[h] # IdleSubmit
    BY IdleStates
  <1>3. CASE sub[h].pc # "idle" /\ sub'[h] = [sub[h] EXCEPT !.client = None]
    <2> DEFINE s == [sub[h] EXCEPT !.client = None]
    <2>1. /\ s \in SubmitState /\ s.job = sub[h].job /\ s.base = sub[h].base
          /\ s.len = sub[h].len /\ s.done = sub[h].done /\ s.out = sub[h].out
      BY <1>t DEF SubmitState
    <2>2. Fits(sub[h])
      BY <1>3 DEF Budgets
    <2>3. sub'[h] = s
      BY <1>3
    <2> HIDE DEF s
    <2>4. Fits(s)
      BY <2>1, <2>2 DEF Fits
    <2> QED
      BY <1>0, <1>3, <2>1, <2>3, <2>4
  <1>4. ASSUME NEW w \in Worker, Submit(w, h) PROVE Fits(sub[h])'
    <2>1. /\ wk[w].job \in DOMAIN jobs /\ jobs' = jobs
      BY <1>4 DEF Submit, TypeInv, Refs, WorkerRefs, trVars
    <2>2. /\ sub'[h].job = wk[w].job /\ sub'[h].base = jobs[wk[w].job].pages
          /\ sub'[h].len = 0 /\ sub'[h].out = NoOut
      BY <1>t, <1>4 DEF Submit, IdleSubmit
    <2>3. {u \in Url : NoOut[u] > 0} = {}
      BY DEF NoOut
    <2>4. jobs[wk[w].job].pages \in Nat /\ Cardinality({}) = 0
      BY <2>1, JobTable, FS_EmptySet
    <2> QED
      BY <2>1, <2>2, <2>3, <2>4 DEF Fits, Limit
  <1>5. ASSUME NEW s, Proceed(h, s) PROVE sub'[h] = s
    BY <1>2, <1>5, ProceedHands
  <1>6. ASSUME NEW i \in sub[h].items, NEW ok \in BOOLEAN, MarkItem(h, i, ok)
        PROVE  Fits(sub[h])'
    <2>1. PICK s \in SubmitState :
            /\ Proceed(h, s) /\ s.job = sub[h].job
            /\ s.out = sub[h].out /\ s.len = sub[h].len /\ s.base = sub[h].base
            /\ s.done = sub[h].done \/ s.done = sub[h].done + 1
      BY <1>6, MarkMove
    <2>2. sub[h].pc # "idle" /\ Fits(sub[h])
      BY <1>6 DEF MarkItem, Budgets
    <2>3. Fits(s)
      BY <1>t, <2>1, <2>2 DEF Fits
    <2> QED
      BY <1>0, <1>5, <2>1, <2>2, <2>3
  <1>7. ASSUME NEW i \in sub[h].cur, NEW ok \in BOOLEAN, SaveResult(h, i, ok)
        PROVE  Fits(sub[h])'
    <2> DEFINE xs == ListedFor(h, i)
               d == jobs[sub[h].job].dom
    <2>1. PICK s \in SubmitState :
            /\ Proceed(h, s) /\ s.job = sub[h].job
            /\ s.out = Listed(sub[h].out, i.key[2], xs, rec[i.key].depth + 1)
            /\ s.len = sub[h].len + Cardinality(xs)
            /\ s.done = sub[h].done /\ s.base = sub[h].base
      BY <1>7, SaveMove
    <2>2. /\ sub[h].pc = "save" /\ Fits(sub[h]) /\ sub[h].done > 0
          /\ sub[h].job \in DOMAIN jobs
      BY <1>t, <1>7 DEF SaveResult, Budgets, Counting, InHand
    <2>3. i \in Item /\ rec[i.key].depth \in Nat /\ d \in Domain
      BY <1>t, <2>2, JobTable DEF SubmitState, Item, TypeInv, TypeOK, TrTypeOK, Row
    <2>4. Cardinality(xs) \in Nat
      BY <2>3, AdmittedType, FS_EmptySet DEF ListedFor
    <2>5. Cardinality({u \in Url : s.out[u] > 0}) <= s.len
      <3> DEFINE c == Cardinality({u \in Url : s.out[u] > 0})
                 e == Cardinality(ListedBy(h))
      <3>1. c <= e + Cardinality(xs)
        <4>1. rec[i.key].depth + 1 \in Nat /\ rec[i.key].depth + 1 > 0
          BY <2>3
        <4> QED
          BY <2>1, <4>1, ListedFits
      <3>2. e <= sub[h].len
        BY <2>2 DEF Fits, ListedBy
      <3>3. c \in Nat /\ e \in Nat
        <4>1. {u \in Url : s.out[u] > 0} \in SUBSET Url /\ ListedBy(h) \in SUBSET Url
          BY DEF ListedBy
        <4> QED
          BY <4>1, UrlQueueAssumption, FS_Subset, FS_CardinalityType
      <3> HIDE DEF c, e
      <3>4. c <= s.len
        BY <1>t, <2>1, <2>4, <3>1, <3>2, <3>3
      <3> QED
        BY <3>4 DEF c
    <2>6. ASSUME Limit(s.job) > 0, s.len > 0
          PROVE  s.base + 1 + s.len <= Limit(s.job)
      <3> DEFINE c == Cardinality(xs)
      <3>1. MaxPages[d] > 0 /\ Limit(s.job) = MaxPages[d] /\ MaxPages[d] \in Nat
        BY <2>1, <2>3, <2>6, CrawlAssumption DEF Limit
      <3>2. CASE xs = {}
        <4>1. c = 0
          BY <3>2, FS_EmptySet
        <4> QED
          BY <1>t, <2>1, <2>2, <2>6, <3>1, <4>1 DEF Fits
      <3>3. CASE xs # {}
        <4>1. sub[h].base + sub[h].done + sub[h].len + c <= MaxPages[d]
          BY <1>t, <2>3, <3>1, <3>3, AdmittedFits DEF ListedFor
        <4> HIDE DEF c
        <4>2. c \in Nat /\ s.len = sub[h].len + c
          BY <2>1, <2>4 DEF c
        <4> HIDE DEF d
        <4> QED
          BY <1>t, <2>1, <2>2, <3>1, <4>1, <4>2
      <3> QED
        BY <3>2, <3>3
    <2>7. Fits(s)
      <3>1. s.base <= jobs[s.job].pages
        BY <2>1, <2>2 DEF Fits
      <3> QED
        BY <2>1, <2>2, <2>5, <2>6, <3>1 DEF Fits
    <2> QED
      BY <1>0, <1>5, <2>1, <2>2, <2>7
  <1>8. ASSUME NEW ok \in BOOLEAN, EnqueueLinks(h, ok) \/ CountPages(h, ok)
        PROVE  Fits(sub[h])'
    <2>1. PICK s \in SubmitState :
            /\ Proceed(h, s) /\ s.job = sub[h].job
            /\ s.out = sub[h].out /\ s.len = sub[h].len /\ s.base = sub[h].base
            /\ s.done = sub[h].done
      BY <1>8, LastMoves
    <2>2. sub[h].pc # "idle" /\ Fits(sub[h])
      BY <1>8 DEF EnqueueLinks, CountPages, Budgets
    <2>3. Fits(s)
      BY <2>1, <2>2 DEF Fits
    <2> QED
      BY <1>0, <1>5, <2>1, <2>2, <2>3
  <1>9. CASE SubmitStep(h)
    BY <1>6, <1>7, <1>8, <1>9 DEF SubmitStep
  <1>10. sub[h].pc = "idle" => \E w \in Worker : Submit(w, h)
    <2>1. sub[h].pc = "idle" => sub[h].items = {} /\ sub[h].cur = {}
      BY DEF Hands, SubmitHands, IdleSubmit
    <2>2. sub[h].pc = "idle" => ~SubmitStep(h)
      BY DEF SubmitStep, MarkItem, SaveResult, EnqueueLinks, CountPages
    <2> QED
      BY <1>2, <2>2, SubSteps
  <1> QED
    BY <1>1, <1>2, <1>3, <1>4, <1>9, <1>10, SubSteps

-----------------------------------------------------------------------------
(* What is left of the budget of a job: each handler may list what is left of it
   once for every number of counted pages still to be read.                  *)

(* What handler h may still list by the submit it serves, or the next one.   *)
Share(j, h) ==
  IF sub[h].pc = "idle" \/ sub[h].job # j THEN Left(Limit(j), jobs[j].pages)
  ELSE IF sub[h].pc = "count" THEN 0
  ELSE Left(Limit(j), sub[h].base)

Shares(j) == [h \in Handler |-> Share(j, h)]

(* The rows that submits inserted. *)
Found(j) == {k \in Present(rec) : rec[k].job = j /\ k[2] # Seed[k[1]]}

Later(j) == Cardinality(Handler) * Triangle(Left(Limit(j), jobs[j].pages))

Spent(j) ==
  Limit(j) > 0 =>
    Cardinality(Found(j)) + Total(Shares(j)) + Later(j)
      <= Cardinality(Handler) * Triangle(Limit(j))

LEMMA FoundFinite ==
  ASSUME NEW j
  PROVE  /\ IsFiniteSet(Found(j)) /\ Cardinality(Found(j)) \in Nat
         /\ IsFiniteSet(Found(j)') /\ Cardinality(Found(j)') \in Nat
  <1>1. Found(j) \in SUBSET Key /\ Found(j)' \in SUBSET Key
    BY DEF Found, Present
  <1> QED
    BY <1>1, KeysFinite

LEMMA ShareTyped ==
  ASSUME TypeInv, NEW j \in DOMAIN jobs, NEW h \in Handler
  PROVE  /\ Limit(j) \in Nat /\ jobs[j].pages \in Nat /\ sub[h].base \in Nat
         /\ Share(j, h) \in Nat
  <1>1. Limit(j) \in Nat /\ jobs[j].pages \in Nat /\ sub[h].base \in Nat
    BY JobTable, CrawlAssumption DEF Limit, TypeInv, TypeOK, SubmitState
  <1> QED
    BY <1>1, LeftFacts DEF Share

(* Only the statement that counts gives a handler a new share.               *)
LEMMA ShareShrinks ==
  ASSUME TypeInv, Hands, Counting, Budgets, [Next]_vars, faults' = faults,
         NEW j \in DOMAIN jobs, NEW h \in Handler,
         \A ok \in BOOLEAN : ~CountPages(h, ok)
  PROVE  Share(j, h)' \in Nat /\ Share(j, h)' <= Share(j, h)
  <1> DEFINE n == Limit(j)
             p == jobs[j].pages
             q == jobs'[j].pages
  <1>t. /\ sub \in [Handler -> SubmitState] /\ sub[h] \in SubmitState
        /\ sub[h].base \in Nat /\ j # 0 /\ IdleSubmit.job = 0
        /\ n \in Nat /\ p \in Nat /\ q \in Nat /\ p <= q /\ Limit(j)' = n
    BY JobTable, ShareTyped, PagesGrow DEF TypeInv, TypeOK, JobId, IdleSubmit
  <1>n. /\ Left(n, p) \in Nat /\ Left(n, q) \in Nat /\ Left(n, sub[h].base) \in Nat
        /\ Left(n, q) <= Left(n, p)
    BY <1>t, LeftFacts
  <1>0. Share(j, h)' = IF sub'[h].pc = "idle" \/ sub'[h].job # j THEN Left(n, q)
                       ELSE IF sub'[h].pc = "count" THEN 0
                       ELSE Left(n, sub'[h].base)
    BY <1>t DEF Share
  <1> HIDE DEF n, p, q
  <1>1. Share(j, h) = IF sub[h].pc = "idle" \/ sub[h].job # j THEN Left(n, p)
                      ELSE IF sub[h].pc = "count" THEN 0
                      ELSE Left(n, sub[h].base)
    BY DEF Share, n, p
  <1>2. ASSUME sub'[h].pc = sub[h].pc, sub'[h].job = sub[h].job,
               sub'[h].base = sub[h].base
        PROVE  Share(j, h)' \in Nat /\ Share(j, h)' <= Share(j, h)
    BY <1>n, <1>0, <1>1, <1>2
  <1>3. CASE sub'[h] = sub[h]
    BY <1>2, <1>3
  <1>4. CASE sub'[h] = [sub[h] EXCEPT !.client = None]
    BY <1>t, <1>2, <1>4 DEF SubmitState
  <1>5. ASSUME NEW w \in Worker, Submit(w, h)
        PROVE  Share(j, h)' \in Nat /\ Share(j, h)' <= Share(j, h)
    <2>1. sub[h].pc = "idle" /\ sub'[h].pc = "item" /\ sub'[h].job = wk[w].job
          /\ sub'[h].base = jobs[wk[w].job].pages
      BY <1>t, <1>5 DEF Submit, IdleSubmit
    <2> QED
      BY <1>n, <1>0, <1>1, <2>1 DEF p
  <1>6. ASSUME NEW s, Proceed(h, s), s.job = sub[h].job, s.base = sub[h].base,
               sub[h].pc \notin {"idle", "count"}
        PROVE  Share(j, h)' \in Nat /\ Share(j, h)' <= Share(j, h)
    <2>1. sub'[h] = s \/ sub'[h] = IdleSubmit
      BY <1>6, ProceedHands
    <2>2. CASE sub[h].job # j
      <3>1. sub'[h].job # j
        BY <1>t, <1>6, <2>1, <2>2
      <3> QED
        BY <1>n, <1>0, <1>1, <2>2, <3>1
    <2>3. CASE sub[h].job = j
      <3>1. sub[h].base <= p
        BY <1>6, <2>3 DEF Budgets, Fits, p
      <3>2. Share(j, h) = Left(n, sub[h].base) /\ Left(n, p) <= Left(n, sub[h].base)
        BY <1>t, <1>1, <1>6, <2>3, <3>1, LeftFacts
      <3>3. Share(j, h)' \in {Left(n, q), 0, Left(n, sub[h].base)}
        BY <1>t, <1>0, <1>6, <2>1, <2>3
      <3> QED
        BY <1>n, <3>2, <3>3
    <2> QED
      BY <2>2, <2>3
  <1>7. ASSUME NEW i \in sub[h].items, NEW ok \in BOOLEAN, MarkItem(h, i, ok)
        PROVE  Share(j, h)' \in Nat /\ Share(j, h)' <= Share(j, h)
    <2>1. sub[h].pc = "item"
      BY <1>7 DEF MarkItem
    <2> QED
      BY <1>6, <1>7, <2>1, MarkMove
  <1>8. ASSUME NEW i \in sub[h].cur, NEW ok \in BOOLEAN, SaveResult(h, i, ok)
        PROVE  Share(j, h)' \in Nat /\ Share(j, h)' <= Share(j, h)
    <2>1. sub[h].pc = "save"
      BY <1>8 DEF SaveResult
    <2> QED
      BY <1>6, <1>8, <2>1, SaveMove
  <1>9. ASSUME NEW ok \in BOOLEAN, EnqueueLinks(h, ok)
        PROVE  Share(j, h)' \in Nat /\ Share(j, h)' <= Share(j, h)
    <2>1. sub[h].pc = "enqueue"
      BY <1>9 DEF EnqueueLinks
    <2> QED
      BY <1>6, <1>9, <2>1, LastMoves
  <1>10. CASE SubmitStep(h)
    BY <1>7, <1>8, <1>9, <1>10 DEF SubmitStep
  <1> QED
    BY <1>3, <1>4, <1>5, <1>10, SubMoves

(* Only an insert adds to the rows found.                                    *)
LEMMA FoundStays ==
  ASSUME TypeInv, Hands, [Next]_vars, NEW j \in DOMAIN jobs,
         \A h \in Handler, ok \in BOOLEAN : sub[h].job = j => ~EnqueueLinks(h, ok)
  PROVE  Found(j)' \subseteq Found(j)
  <1> SUFFICES ASSUME NEW k \in Found(j)' PROVE k \in Found(j)
    OBVIOUS
  <1>1. k \in Present(rec') /\ rec'[k].job = j /\ k[2] # Seed[k[1]]
    BY DEF Found
  <1>2. CASE k \in Present(rec)
    BY <1>1, <1>2, GrowthStep DEF Grows, Found
  <1>3. CASE k \notin Present(rec)
    <2>1. \A d : k = SeedKey(d) => k[2] = Seed[k[1]]
      BY DEF SeedKey
    <2> QED
      BY <1>1, <1>3, <2>1, NewRows
  <1> QED
    BY <1>2, <1>3

(* ... by no more rows than the handler lists.                               *)
LEMMA FoundInsert ==
  ASSUME TypeInv, Budgets, [Next]_vars, NEW h \in Handler, NEW ok \in BOOLEAN,
         EnqueueLinks(h, ok), NEW j, j = sub[h].job
  PROVE  Cardinality(Found(j)') <= Cardinality(Found(j)) + sub[h].len
  <1> DEFINE us == ListedBy(h)
             f == [u \in us |-> <<jobs[j].dom, u>>]
             new == {f[u] : u \in us}
  <1>1. /\ IsFiniteSet(us) /\ Cardinality(us) \in Nat /\ Cardinality(us) <= sub[h].len
        /\ sub[h].len \in Nat
    <2>1. us \in SUBSET Url /\ Fits(sub[h]) /\ sub[h].len \in Nat
      BY DEF ListedBy, EnqueueLinks, Budgets, TypeInv, TypeOK, SubmitState
    <2> QED
      BY <2>1, UrlQueueAssumption, FS_Subset, FS_CardinalityType DEF Fits, ListedBy
  <1>2. IsFiniteSet(new) /\ Cardinality(new) \in Nat /\ Cardinality(new) <= Cardinality(us)
    <2>1. f \in Surjection(us, new)
      BY DEF Surjection
    <2> HIDE DEF f, new
    <2> QED
      BY <1>1, <2>1, FS_Surjection, FS_CardinalityType
  <1>3. Found(j)' \subseteq Found(j) \cup new
    <2> SUFFICES ASSUME NEW k \in Found(j)', k \notin Found(j) PROVE k \in new
      OBVIOUS
    <2>1. k \in Present(rec') /\ rec'[k].job = j /\ k[2] # Seed[k[1]]
      BY DEF Found
    <2>2. k \notin Present(rec)
      BY <2>1, GrowthStep DEF Grows, Found
    <2>3. rec' = Enqueue(rec, jobs[j].dom, j, us, sub[h].out)
      BY <2>1, <2>2 DEF EnqueueLinks, ListedBy
    <2>4. k \in Key /\ rec'[k].st # "none" /\ rec[k].st = "none"
      BY <2>1, <2>2 DEF Present
    <2>5. k[1] = jobs[j].dom /\ k[2] \in us
      BY <2>3, <2>4 DEF Enqueue
    <2>6. k = <<k[1], k[2]>>
      BY <2>4 DEF Key
    <2>7. f[k[2]] = k
      BY <2>5, <2>6
    <2> QED
      BY <2>5, <2>7
  <1> HIDE DEF us, new
  <1>4. /\ IsFiniteSet(Found(j)) /\ Cardinality(Found(j)) \in Nat
        /\ Cardinality(Found(j)') \in Nat
    BY FoundFinite
  <1>5. /\ IsFiniteSet(Found(j) \cup new)
        /\ Cardinality(Found(j) \cup new)
             = Cardinality(Found(j)) + Cardinality(new) - Cardinality(Found(j) \cap new)
    BY <1>2, <1>4, FS_Union
  <1>6. Cardinality(Found(j) \cap new) \in Nat
    <2>1. Found(j) \cap new \in SUBSET new
      OBVIOUS
    <2> QED
      BY <1>2, <2>1, FS_Subset, FS_CardinalityType
  <1>7. Cardinality(Found(j)') <= Cardinality(Found(j) \cup new)
    BY <1>3, <1>5, FS_Subset
  <1> QED
    BY <1>1, <1>2, <1>4, <1>5, <1>6, <1>7

(* Two handlers do not count in one step.                                    *)
LEMMA CountsAlone ==
  ASSUME TypeInv, NEW h \in Handler, NEW s, Proceed(h, s), NEW g \in Handler \ {h},
         NEW ok \in BOOLEAN
  PROVE  ~CountPages(g, ok)
  <1> SUFFICES ASSUME CountPages(g, ok) PROVE FALSE
    OBVIOUS
  <1>1. sub'[g] = sub[g] /\ sub[g].pc = "count"
    BY ProceedHands DEF CountPages
  <1>2. PICK r : Proceed(g, r) /\ r.pc = "idle"
    <2>1. ~EnqueueLinks(g, ok)
      BY <1>1 DEF EnqueueLinks
    <2> QED
      BY <2>1, LastMoves
  <1>3. sub'[g] = IdleSubmit
    BY <1>2 DEF Proceed, TypeInv, TypeOK
  <1> QED
    BY <1>1, <1>3, IdleStates

LEMMA SharesTyped ==
  ASSUME TypeInv, NEW j \in DOMAIN jobs
  PROVE  /\ Shares(j) \in [Handler -> Nat] /\ Total(Shares(j)) \in Nat
         /\ IsFiniteSet(Handler) /\ Cardinality(Handler) \in Nat
  <1>1. Shares(j) \in [Handler -> Nat]
    BY ShareTyped DEF Shares
  <1> QED
    BY <1>1, CrawlAssumption, PileFinite, FS_CardinalityType

(* The sum when handler h has less, and the others no more.                  *)
LEMMA SharesFall ==
  ASSUME NEW f \in [Handler -> Nat], NEW g \in [Handler -> Nat], NEW h \in Handler,
         \A b \in Handler \ {h} : g[b] <= f[b]
  PROVE  Total(g) + f[h] <= Total(f) + g[h]
  <1> DEFINE e == [f EXCEPT ![h] = g[h]]
  <1>1. /\ e \in [Handler -> Nat] /\ e[h] = g[h]
        /\ \A b \in Handler \ {h} : e[b] = f[b]
    OBVIOUS
  <1>2. IsFiniteSet(Handler)
    BY CrawlAssumption
  <1> HIDE DEF e
  <1>3. Total(e) + f[h] = Total(f) + e[h]
    BY <1>1, <1>2, TotalUpdate
  <1>4. \A b \in Handler : g[b] <= e[b]
    <2>1. g[h] <= e[h]
      BY <1>1
    <2> QED
      BY <1>1, <2>1
  <1>5. Total(g) <= Total(e)
    BY <1>1, <1>2, <1>4, TotalGrows
  <1>6. Total(g) \in Nat /\ Total(e) \in Nat /\ Total(f) \in Nat /\ f[h] \in Nat /\ g[h] \in Nat
    BY <1>1, <1>2, PileFinite
  <1> QED
    BY <1>1, <1>3, <1>5, <1>6

LEMMA LaterTyped ==
  ASSUME NEW n \in Nat, NEW p \in Nat
  PROVE  /\ Cardinality(Handler) \in Nat
         /\ Cardinality(Handler) * Triangle(Left(n, p)) \in Nat
         /\ Cardinality(Handler) * Triangle(n) \in Nat
  <1>1. Cardinality(Handler) \in Nat
    BY CrawlAssumption, FS_CardinalityType
  <1>2. Triangle(Left(n, p)) \in Nat /\ Triangle(n) \in Nat
    BY LeftFacts, TriangleTwice
  <1> QED
    BY <1>1, <1>2, Times

(* The sum of equal values.                                                  *)
LEMMA TotalConstant ==
  ASSUME NEW S, IsFiniteSet(S), NEW c \in Nat, NEW f \in [S -> Nat],
         \A x \in S : f[x] = c
  PROVE  Total(f) = Cardinality(S) * c
  <1>1. Pile(f) = S \X (1..c)
    BY DEF Pile, Part
  <1>2. IsFiniteSet(1..c) /\ Cardinality(1..c) = c
    BY FS_Interval
  <1> QED
    BY <1>1, <1>2, FS_Product, PileTotal

(* The arithmetic of a step: a handler that gets share l of the pages counted now
   takes it from what all handlers had for later.                            *)
LEMMA LaterFalls ==
  ASSUME NEW H \in Nat, H > 0, NEW a \in Nat, NEW b \in Nat, NEW l \in Nat, a + l <= b
  PROVE  H * a \in Nat /\ H * b \in Nat /\ H * a + l <= H * b
  <1>1. PICK k \in Nat : b = a + l + k
    <2>1. b - (a + l) \in Nat /\ b = a + l + (b - (a + l))
      OBVIOUS
    <2> QED
      BY <2>1
  <1>2. PICK m \in Nat : H = m + 1
    <2>1. H - 1 \in Nat /\ H = (H - 1) + 1
      OBVIOUS
    <2> QED
      BY <2>1
  <1>3. H * b = H * a + H * l + H * k /\ H * k \in Nat /\ H * a \in Nat /\ H * b \in Nat
    BY <1>1
  <1>4. H * l = m * l + l /\ m * l \in Nat
    BY <1>2
  <1> DEFINE x == H * a
             y == H * k
             z == m * l
             w == H * b
  <1>5. w = x + (z + l) + y /\ x \in Nat /\ y \in Nat /\ z \in Nat /\ w \in Nat
    BY <1>3, <1>4
  <1> HIDE DEF x, y, z, w
  <1>6. x + l <= w
    BY <1>5
  <1> QED
    BY <1>5, <1>6 DEF x, w

(* A step that neither inserts for job j nor counts for it.                  *)
LEMMA SpentQuiet ==
  ASSUME TypeInv, TypeInv', Hands, Counting, Budgets, [Next]_vars, faults' = faults,
         NEW j \in DOMAIN jobs, Spent(j),
         \A h \in Handler, ok \in BOOLEAN : /\ ~CountPages(h, ok)
                                            /\ sub[h].job = j => ~EnqueueLinks(h, ok)
  PROVE  Spent(j)'
  <1>1. jobs'[j].pages = jobs[j].pages /\ Limit(j)' = Limit(j) /\ Later(j)' = Later(j)
    BY PagesGrow DEF Later
  <1>2. \A h \in Handler : Share(j, h)' \in Nat /\ Share(j, h)' <= Share(j, h)
    BY ShareShrinks
  <1>3. Shares(j)' \in [Handler -> Nat] /\ \A h \in Handler : Shares(j)'[h] <= Shares(j)[h]
    BY <1>2 DEF Shares
  <1>4. Total(Shares(j)') <= Total(Shares(j)) /\ Total(Shares(j)') \in Nat
        /\ Total(Shares(j)) \in Nat
    BY <1>3, SharesTyped, TotalGrows, PileFinite
  <1>5. Cardinality(Found(j)') <= Cardinality(Found(j))
    BY FoundStays, FoundFinite, FS_Subset
  <1>6. Cardinality(Found(j)') \in Nat /\ Cardinality(Found(j)) \in Nat
    BY FoundFinite
  <1>7. Later(j) \in Nat /\ Cardinality(Handler) * Triangle(Limit(j)) \in Nat
    <2>1. \A h \in Handler : Limit(j) \in Nat
      BY ShareTyped
    <2>2. Limit(j) \in Nat /\ jobs[j].pages \in Nat
      BY JobTable, CrawlAssumption DEF Limit
    <2> QED
      BY <2>2, LaterTyped DEF Later
  <1> DEFINE t == Total(Shares(j))
             u == Total(Shares(j)')
             f == Cardinality(Found(j))
             g == Cardinality(Found(j)')
             all == Cardinality(Handler) * Triangle(Limit(j))
  <1> HIDE DEF t, u, f, g, all
  <1>8. Limit(j) > 0 => f + t + Later(j) <= all
    BY DEF Spent, t, f, all
  <1>9. Limit(j) > 0 => g + u + Later(j) <= all
    BY <1>4, <1>5, <1>6, <1>7, <1>8 DEF t, u, f, g, all
  <1> QED
    BY <1>1, <1>9 DEF Spent, u, g, all

(* The handler inserts what it listed: its share pays for the rows.          *)
LEMMA SpentInsert ==
  ASSUME TypeInv, TypeInv', Hands, Counting, Budgets, [Next]_vars, faults' = faults,
         NEW j \in DOMAIN jobs, Spent(j),
         NEW h \in Handler, NEW ok \in BOOLEAN, EnqueueLinks(h, ok), sub[h].job = j
  PROVE  Spent(j)'
  <1>1. jobs' = jobs /\ Limit(j)' = Limit(j) /\ Later(j)' = Later(j)
    BY PagesGrow DEF Later, EnqueueLinks
  <1>s. PICK s \in SubmitState :
          /\ Proceed(h, s) /\ s.job = sub[h].job
          /\ s.pc = IF sub[h].done > 0 THEN "count" ELSE "idle"
    BY LastMoves
  <1>2. \A b \in Handler, x \in BOOLEAN : ~CountPages(b, x)
    BY <1>s, CountsAlone DEF EnqueueLinks, CountPages
  <1>3. \A b \in Handler : Share(j, b)' \in Nat /\ Share(j, b)' <= Share(j, b)
    BY <1>2, ShareShrinks
  <1>t. /\ sub[h].len \in Nat /\ sub[h].done \in Nat /\ sub[h].base \in Nat
        /\ Limit(j) \in Nat /\ sub[h].pc = "enqueue" /\ Fits(sub[h])
        /\ Share(j, h) \in Nat /\ jobs[j].pages \in Nat
    BY ShareTyped DEF TypeInv, TypeOK, SubmitState, EnqueueLinks, Budgets
  <1>4. Limit(j) > 0 => Share(j, h)' + sub[h].len <= Share(j, h)
    <2> SUFFICES ASSUME Limit(j) > 0 PROVE Share(j, h)' + sub[h].len <= Share(j, h)
      OBVIOUS
    <2>1. CASE sub[h].len = 0
      BY <1>3, <1>t, <2>1
    <2>2. CASE sub[h].len # 0
      <3>1. sub[h].done > 0 /\ sub[h].base + 1 + sub[h].len <= Limit(j)
        BY <1>t, <2>2 DEF Fits
      <3>2. Share(j, h) = Limit(j) - 1 - sub[h].base
        BY <1>t, <3>1 DEF Share, Left
      <3>3. sub'[h] = s /\ s.pc = "count" /\ s.job = j
        BY <1>s, <3>1 DEF Proceed, TypeInv, TypeOK
      <3>4. Share(j, h)' = 0
        BY <3>3 DEF Share
      <3> QED
        BY <1>t, <3>1, <3>2, <3>4
    <2> QED
      BY <2>1, <2>2
  <1>5. /\ Shares(j)' \in [Handler -> Nat] /\ Shares(j) \in [Handler -> Nat]
        /\ \A b \in Handler \ {h} : Shares(j)'[b] <= Shares(j)[b]
        /\ Shares(j)'[h] = Share(j, h)' /\ Shares(j)[h] = Share(j, h)
    BY <1>3, ShareTyped DEF Shares
  <1>6. Total(Shares(j)') + Share(j, h) <= Total(Shares(j)) + Share(j, h)'
    BY <1>5, SharesFall
  <1>7. Total(Shares(j)') \in Nat /\ Total(Shares(j)) \in Nat
    BY <1>5, CrawlAssumption, PileFinite
  <1>8. /\ Cardinality(Found(j)') <= Cardinality(Found(j)) + sub[h].len
        /\ Cardinality(Found(j)') \in Nat /\ Cardinality(Found(j)) \in Nat
    BY FoundInsert, FoundFinite
  <1>9. Later(j) \in Nat /\ Cardinality(Handler) * Triangle(Limit(j)) \in Nat
    BY <1>t, LaterTyped DEF Later
  <1> DEFINE t == Total(Shares(j))
             u == Total(Shares(j)')
             f == Cardinality(Found(j))
             g == Cardinality(Found(j)')
             x == Share(j, h)
             y == Share(j, h)'
             all == Cardinality(Handler) * Triangle(Limit(j))
  <1>10. /\ t \in Nat /\ u \in Nat /\ f \in Nat /\ g \in Nat /\ x \in Nat /\ y \in Nat
         /\ all \in Nat /\ u + x <= t + y /\ g <= f + sub[h].len
         /\ Limit(j) > 0 => y + sub[h].len <= x
    BY <1>t, <1>3, <1>4, <1>6, <1>7, <1>8, <1>9
  <1> HIDE DEF t, u, f, g, x, y, all
  <1>11. Limit(j) > 0 => f + t + Later(j) <= all
    BY DEF Spent, t, f, all
  <1>12. Limit(j) > 0 => g + u + Later(j) <= all
    BY <1>t, <1>9, <1>10, <1>11
  <1> QED
    BY <1>1, <1>12 DEF Spent, u, g, all

(* The handler counts: its next submit reads more pages.                     *)
LEMMA SpentCount ==
  ASSUME TypeInv, TypeInv', Hands, Counting, Budgets, [Next]_vars, faults' = faults,
         NEW j \in DOMAIN jobs, Spent(j),
         NEW h \in Handler, NEW ok \in BOOLEAN, CountPages(h, ok)
  PROVE  Spent(j)'
  <1> DEFINE n == Limit(j)
             p == jobs[j].pages
             q == jobs'[j].pages
  <1>t. /\ n \in Nat /\ p \in Nat /\ q \in Nat /\ p <= q /\ Limit(j)' = n
        /\ sub[h].done \in Nat /\ sub[h].pc = "count" /\ sub[h].done > 0
        /\ faults \in Nat /\ Share(j, h) \in Nat
    <2>1. /\ n \in Nat /\ p \in Nat /\ q \in Nat /\ p <= q /\ Limit(j)' = n
          /\ Share(j, h) \in Nat
      BY ShareTyped, PagesGrow
    <2>2. sub[h].done \in Nat /\ faults \in Nat /\ sub[h].pc = "count"
      BY DEF TypeInv, TypeOK, TrTypeOK, SubmitState, CountPages
    <2>3. sub[h].done > 0
      BY <2>2 DEF Counting, InHand
    <2> QED
      BY <2>1, <2>2, <2>3
  <1>1. ok /\ UNCHANGED rec
    BY <1>t DEF CountPages, CountFault
  <1>2. q = p + (IF sub[h].job = j THEN sub[h].done ELSE 0)
    BY <1>1, PagesCounted
  <1>s. PICK s \in SubmitState : Proceed(h, s) /\ s.pc = "idle"
    <2>1. ~EnqueueLinks(h, ok)
      BY <1>t DEF EnqueueLinks
    <2> QED
      BY <2>1, LastMoves
  <1>3. \A b \in Handler \ {h} : Share(j, b)' \in Nat /\ Share(j, b)' <= Share(j, b)
    <2>1. \A b \in Handler \ {h} : \A x \in BOOLEAN : ~CountPages(b, x)
      BY <1>s, CountsAlone
    <2> QED
      BY <2>1, ShareShrinks
  <1>4. Share(j, h)' = Left(n, q)
    <2>1. sub'[h].pc = "idle"
      BY <1>s, IdleStates DEF Proceed, TypeInv, TypeOK
    <2> QED
      BY <1>t, <2>1 DEF Share
  <1>5. Left(n, p) \in Nat /\ Left(n, q) \in Nat
    BY <1>t, LeftFacts
  <1>6. /\ Shares(j)' \in [Handler -> Nat] /\ Shares(j) \in [Handler -> Nat]
        /\ \A b \in Handler \ {h} : Shares(j)'[b] <= Shares(j)[b]
        /\ Shares(j)'[h] = Left(n, q) /\ Shares(j)[h] = Share(j, h)
    <2>1. \A b \in Handler : Share(j, b)' \in Nat
      BY <1>3, <1>4, <1>5
    <2> QED
      BY <1>3, <1>4, <2>1, ShareTyped DEF Shares
  <1>7. Total(Shares(j)') + Share(j, h) <= Total(Shares(j)) + Left(n, q)
    BY <1>6, SharesFall
  <1>8. Total(Shares(j)') \in Nat /\ Total(Shares(j)) \in Nat
    BY <1>6, CrawlAssumption, PileFinite
  <1>9. Found(j)' = Found(j) /\ Cardinality(Found(j)) \in Nat
    BY <1>1, FoundFinite DEF Found
  <1>10. Cardinality(Handler) \in Nat /\ Cardinality(Handler) > 0
    <2>1. IsFiniteSet(Handler) /\ Handler # {}
      BY CrawlAssumption
    <2> QED
      BY <2>1, FS_CardinalityType, FS_EmptySet
  <1> DEFINE H == Cardinality(Handler)
             a == Triangle(Left(n, q))
             b == Triangle(Left(n, p))
             all == H * Triangle(n)
             l == IF sub[h].job = j THEN Left(n, q) ELSE 0
  <1>11. a \in Nat /\ b \in Nat /\ l \in Nat /\ a + l <= b
    <2>1. a \in Nat /\ b \in Nat
      BY <1>5, TriangleTwice
    <2>2. CASE sub[h].job = j
      <3>1. p < q
        BY <1>t, <1>2, <2>2
      <3>2. Left(n, q) = 0 \/ Left(n, q) < Left(n, p)
        BY <1>t, <3>1, LeftFacts
      <3> QED
        BY <1>5, <2>1, <2>2, <3>2, TriangleGrows
    <2>3. CASE sub[h].job # j
      <3>1. q = p
        BY <1>t, <1>2, <2>3
      <3> QED
        BY <2>1, <2>3, <3>1
    <2> QED
      BY <2>2, <2>3
  <1>12. Left(n, q) <= Share(j, h) + l
    <2>1. CASE sub[h].job = j
      BY <1>t, <1>5, <2>1
    <2>2. CASE sub[h].job # j
      <3>1. q = p /\ Share(j, h) = Left(n, p)
        BY <1>t, <1>2, <2>2 DEF Share
      <3> QED
        BY <1>5, <2>2, <3>1
    <2> QED
      BY <2>1, <2>2
  <1>13. H * a \in Nat /\ H * b \in Nat /\ H * a + l <= H * b
    BY <1>10, <1>11, LaterFalls
  <1>14. all \in Nat
    BY <1>t, LaterTyped
  <1>15. Later(j) = H * b /\ Later(j)' = H * a
    BY <1>t DEF Later
  <1> DEFINE t == Total(Shares(j))
             u == Total(Shares(j)')
             f == Cardinality(Found(j))
             x == Share(j, h)
             y == Left(n, q)
  <1>16. /\ t \in Nat /\ u \in Nat /\ f \in Nat /\ x \in Nat /\ y \in Nat /\ l \in Nat
         /\ u + x <= t + y /\ y <= x + l
         /\ Later(j) \in Nat /\ Later(j)' \in Nat /\ Later(j)' + l <= Later(j)
    BY <1>t, <1>5, <1>7, <1>8, <1>9, <1>11, <1>12, <1>13, <1>15
  <1>17. n > 0 => f + t + Later(j) <= all
    BY DEF Spent
  <1> HIDE DEF t, u, f, x, y, all, l, a, b, n
  <1>18. n > 0 => f + u + Later(j)' <= all
    BY <1>14, <1>16, <1>17
  <1> QED
    BY <1>t, <1>9, <1>18 DEF Spent, u, f, all, n

(* A new job has nothing queued, and every handler has the whole budget.     *)
LEMMA SpentNew ==
  ASSUME TypeInv, TypeInv', Hands, Rows, [Next]_vars,
         NEW c \in Caller, CreateJob(c), NEW j \in DOMAIN jobs', j \notin DOMAIN jobs
  PROVE  Spent(j)'
  <1> DEFINE n == Limit(j)'
             H == Cardinality(Handler)
  <1>1. j = Len(jobs) + 1 /\ rec' = rec /\ j # 0
    <2>1. jobs \in Seq(JobRow)
      BY DEF TypeInv, TypeOK, TrTypeOK
    <2> QED
      BY <2>1, JobCreated DEF CreateJob
  <1>2. jobs'[j].pages = 0
    <2> DEFINE row == [dom |-> tr[c].dom, status |-> "running", pages |-> 0]
    <2>1. row \in JobRow /\ row.pages = 0
      BY DEF CreateJob, TypeInv, Refs, TriggerRefs, JobRow
    <2>2. jobs' = Append(jobs, row) /\ jobs \in Seq(JobRow)
      BY DEF CreateJob, TypeInv, TypeOK, TrTypeOK
    <2> HIDE DEF row
    <2> QED
      BY <1>1, <2>1, <2>2, AppendJob
  <1>3. n \in Nat
    <2>1. jobs' \in Seq(JobRow)
      BY DEF TypeInv, TypeOK, TrTypeOK
    <2>2. jobs'[j] \in JobRow
      BY <2>1
    <2>3. jobs'[j].dom \in Domain
      BY <2>2 DEF JobRow
    <2> QED
      BY <2>3, CrawlAssumption DEF Limit
  <1>4. Cardinality(Found(j)') = 0
    <2>1. Found(j)' = {}
      BY <1>1 DEF Found, Rows
    <2> QED
      BY <2>1, FS_EmptySet
  <1> SUFFICES ASSUME n > 0 PROVE Spent(j)'
    BY DEF Spent
  <1>5. Left(n, 0) = n - 1 /\ n - 1 \in Nat
    BY <1>3, LeftFacts
  <1>6. \A h \in Handler : Shares(j)'[h] = n - 1
    <2>1. \A h \in Handler : sub'[h].job # j
      BY <1>1, SubmitJobs
    <2>2. \A h \in Handler : Share(j, h)' = Left(n, 0)
      BY <1>2, <2>1 DEF Share
    <2> QED
      BY <1>5, <2>2 DEF Shares
  <1>7. Shares(j)' \in [Handler -> Nat]
    BY <1>5, <1>6 DEF Shares
  <1>8. Total(Shares(j)') = H * (n - 1)
    BY <1>5, <1>6, <1>7, CrawlAssumption, TotalConstant
  <1>9. Triangle(n - 1) + (n - 1) <= Triangle(n) /\ Triangle(n - 1) \in Nat /\ Triangle(n) \in Nat
    <2>1. n - 1 < n
      BY <1>3
    <2> QED
      BY <1>3, <1>5, <2>1, TriangleGrows, TriangleTwice
  <1>10. H \in Nat
    BY CrawlAssumption, FS_CardinalityType
  <1> DEFINE a == Triangle(n - 1)
             b == Triangle(n)
             l == n - 1
  <1>11. a \in Nat /\ b \in Nat /\ l \in Nat /\ a + l <= b
    BY <1>5, <1>9
  <1>12. Later(j)' = H * a
    BY <1>2, <1>5 DEF Later
  <1>13. Total(Shares(j)') = H * l
    BY <1>8
  <1> HIDE DEF a, b, l, H
  <1>14. H * a + H * l = H * (a + l) /\ H * a \in Nat /\ H * l \in Nat
    BY <1>10, <1>11
  <1>15. (a + l) * H <= b * H /\ (a + l) * H = H * (a + l) /\ b * H = H * b
    BY <1>10, <1>11, Times
  <1>16. 0 + H * l + H * a <= H * b
    BY <1>14, <1>15
  <1> QED
    BY <1>4, <1>12, <1>13, <1>16 DEF Spent, H, b

(* BudgetBoundsQueue: a page budget of n lets n (n - 1) / 2 URLs into the queue for
   each submit served at once, and the seed: the snapshot of the counted pages is
   old, but it is never read twice by one handler (usecases.go:271, 320-322). *)
THEOREM BudgetBounds == Spec => []BudgetBoundsQueue
  <1> DEFINE Inv == /\ Counting
                    /\ faults = 0 => Budgets /\ \A j \in DOMAIN jobs : Spent(j)
  <1>1. Init => Inv
    <2> SUFFICES ASSUME Init PROVE Inv
      OBVIOUS
    <2>1. Counting
      BY DEF Init, Counting, InHand, IdleSubmit
    <2>2. Budgets
      BY DEF Init, Budgets, IdleSubmit
    <2>3. DOMAIN jobs = {}
      BY DEF Init, TrInit
    <2> QED
      BY <2>1, <2>2, <2>3
  <1>2. TypeInv /\ TypeInv' /\ Hands /\ Origin /\ Inv /\ [Next]_vars => Inv'
    <2> SUFFICES ASSUME TypeInv, TypeInv', Hands, Origin, Inv, [Next]_vars PROVE Inv'
      OBVIOUS
    <2>1. Counting'
      BY CountingStep
    <2>2. ASSUME faults' = 0 PROVE Budgets' /\ \A j \in DOMAIN jobs' : Spent(j)'
      <3>1. faults' = faults /\ faults = 0
        BY <2>2, FaultsGrow DEF TypeInv, TypeOK, TrTypeOK
      <3>2. Budgets /\ \A j \in DOMAIN jobs : Spent(j)
        BY <3>1
      <3>3. Budgets'
        BY <3>2, BudgetsStep
      <3>4. ASSUME NEW j \in DOMAIN jobs PROVE Spent(j)'
        <4>1. CASE \E h \in Handler, ok \in BOOLEAN : CountPages(h, ok)
          BY <3>1, <3>2, <4>1, SpentCount
        <4>2. CASE \E h \in Handler, ok \in BOOLEAN :
                     EnqueueLinks(h, ok) /\ sub[h].job = j
          BY <3>1, <3>2, <4>2, SpentInsert
        <4>3. CASE \A h \in Handler, ok \in BOOLEAN :
                     /\ ~CountPages(h, ok)
                     /\ sub[h].job = j => ~EnqueueLinks(h, ok)
          BY <3>1, <3>2, <4>3, SpentQuiet
        <4> QED
          BY <4>1, <4>2, <4>3
      <3>5. ASSUME NEW j \in DOMAIN jobs', j \notin DOMAIN jobs PROVE Spent(j)'
        <4>1. PICK c \in Caller : CreateJob(c)
          <5>1. faults \in Nat /\ jobs' # jobs
            BY <3>5 DEF TypeInv, TypeOK, TrTypeOK
          <5>2. ASSUME NEW h \in Handler, NEW ok \in BOOLEAN, CountPages(h, ok)
                PROVE  FALSE
            BY <3>5, <5>2 DEF CountPages
          <5> QED
            BY <3>1, <5>1, <5>2, TriggerMoves DEF FindDomain, CheckActive, SeedQueue
        <4> QED
          BY <3>5, <4>1, SpentNew DEF Origin
      <3> QED
        BY <3>3, <3>4, <3>5
    <2> QED
      BY <2>1, <2>2
  <1>3. TypeInv /\ Hands /\ Origin /\ Inv => BudgetBoundsQueue
    <2> SUFFICES ASSUME TypeInv, Origin, Inv, faults = 0, NEW j \in DOMAIN jobs,
                        MaxPages[jobs[j].dom] > 0
                 PROVE  Cardinality({k \in Present(rec) : rec[k].job = j})
                          <= 1 + Cardinality(Handler) * Triangle(Limit(j))
      BY DEF BudgetBoundsQueue, Triangle, Limit
    <2> DEFINE mine == {k \in Present(rec) : rec[k].job = j}
               seed == SeedKey(jobs[j].dom)
               all == Cardinality(Handler) * Triangle(Limit(j))
    <2>1. mine \subseteq Found(j) \cup {seed}
      <3> SUFFICES ASSUME NEW k \in mine, k[2] = Seed[k[1]] PROVE k = seed
        BY DEF Found
      <3>1. k \in Key /\ k[1] = jobs[j].dom
        BY DEF Origin, Rows, Present
      <3>2. k = <<k[1], k[2]>>
        BY <3>1 DEF Key
      <3> QED
        BY <3>1, <3>2 DEF SeedKey
    <2>2. /\ IsFiniteSet(Found(j)) /\ Cardinality(Found(j)) \in Nat
      BY FoundFinite
    <2>3. /\ IsFiniteSet(Found(j) \cup {seed})
          /\ Cardinality(Found(j) \cup {seed}) <= Cardinality(Found(j)) + 1
      <3> HIDE DEF seed
      <3>1. /\ IsFiniteSet(Found(j) \cup {seed})
            /\ Cardinality(Found(j) \cup {seed})
                 = IF seed \in Found(j) THEN Cardinality(Found(j))
                   ELSE Cardinality(Found(j)) + 1
        BY <2>2, FS_AddElement
      <3> QED
        BY <2>2, <3>1
    <2>4. Cardinality(Found(j)) <= all
      <3>1. Limit(j) \in Nat /\ jobs[j].pages \in Nat /\ Limit(j) > 0
        BY JobTable, CrawlAssumption DEF Limit
      <3>2. Later(j) \in Nat /\ all \in Nat /\ Total(Shares(j)) \in Nat
        BY <3>1, LaterTyped, SharesTyped DEF Later
      <3>3. Cardinality(Found(j)) + Total(Shares(j)) + Later(j) <= all
        BY <3>1 DEF Spent
      <3> HIDE DEF all
      <3> QED
        BY <2>2, <3>2, <3>3
    <2>5. all \in Nat
      BY JobTable, CrawlAssumption, LaterTyped DEF Limit
    <2>6. Cardinality(mine) <= Cardinality(Found(j) \cup {seed}) /\ Cardinality(mine) \in Nat
      BY <2>1, <2>3, FS_Subset, FS_CardinalityType
    <2>7. Cardinality(Found(j) \cup {seed}) \in Nat
      BY <2>3, FS_CardinalityType
    <2> HIDE DEF all, mine
    <2>8. Cardinality(mine) <= 1 + all
      BY <2>2, <2>3, <2>4, <2>5, <2>6, <2>7
    <2> QED
      BY <2>8 DEF mine, all
  <1> QED
    BY <1>1, <1>2, <1>3, TypeInvariant, HandsInvariant, OriginInvariant, PTL DEF Spec

(* What is stored of a job whose tasks nobody took back: a result for a row. *)
LEMMA StoredRows ==
  ASSUME TypeInv, StoredQueued, Counting, OneResult, NEW j,
         \A k \in reclaimed : rec[k].job # j
  PROVE  LET mine == {k \in Present(rec) : rec[k].job = j}
         IN  /\ Cardinality(mine) \in Nat /\ Total(StoredOf(j)) \in Nat
             /\ Total(StoredOf(j)) <= Cardinality(mine)
  <1> DEFINE mine == {k \in Present(rec) : rec[k].job = j}
             f == StoredOf(j)
  <1>1. f \in [Key -> Nat]
    BY SumsTyped
  <1>2. IsFiniteSet(mine) /\ Cardinality(mine) \in Nat
    BY KeysFinite DEF Present
  <1>3. IsFiniteSet({1}) /\ Cardinality({1}) = 1
    BY FS_Singleton
  <1>4. IsFiniteSet(mine \X {1}) /\ Cardinality(mine \X {1}) = Cardinality(mine)
    <2> HIDE DEF mine
    <2>1. /\ IsFiniteSet(mine \X {1})
          /\ Cardinality(mine \X {1}) = Cardinality(mine) * 1
      BY <1>2, <1>3, FS_Product
    <2> QED
      BY <1>2, <2>1
  <1>5. ASSUME NEW k \in Key, f[k] # 0 PROVE k \in mine /\ f[k] = 1
    <2>1. rec[k].job = j /\ f[k] = results[k].page + results[k].empty
      BY <1>5 DEF StoredOf
    <2>2. Stored(k) > 0 /\ f[k] <= 1
      BY <1>1, <1>5, <2>1 DEF Stored, OneResult
    <2> QED
      BY <1>1, <1>5, <2>1, <2>2 DEF StoredQueued
  <1>6. Pile(f) \subseteq mine \X {1}
    <2> SUFFICES ASSUME NEW k \in Key, NEW y \in 1..f[k] PROVE <<k, y>> \in mine \X {1}
      BY <1>1 DEF Pile, Part
    <2>1. f[k] # 0
      BY <1>1
    <2> HIDE DEF mine, f
    <2> QED
      BY <1>5, <2>1
  <1> HIDE DEF mine
  <1>7. Cardinality(Pile(f)) <= Cardinality(mine) /\ Cardinality(Pile(f)) \in Nat
    BY <1>2, <1>4, <1>6, FS_Subset, FS_CardinalityType
  <1> QED
    BY <1>2, <1>7, PileTotal DEF mine

(* A job counts no more pages than it has URLs, although handlers that overlap
   add to one counter, and so no more than its budget lets into the queue; unless
   the ticker took one of its tasks back, or a statement failed. *)
THEOREM PagesBounded ==
  Spec => [](faults = 0 =>
    \A j \in DOMAIN jobs : (\A k \in reclaimed : rec[k].job # j) =>
      /\ jobs[j].pages <= Cardinality({k \in Present(rec) : rec[k].job = j})
      /\ LET n == MaxPages[jobs[j].dom] IN
         n > 0 => jobs[j].pages <= 1 + Cardinality(Handler) * ((n * (n - 1)) \div 2))
  <1> DEFINE Inv == Counting /\ StoredQueued
             Bound(j) == 1 + Cardinality(Handler) * Triangle(Limit(j))
  <1>1. Init => Inv
    BY DEF Init, Counting, InHand, IdleSubmit, StoredQueued, Stored
  <1>2. TypeInv /\ Hands /\ Inv /\ [Next]_vars => Inv'
    BY CountingStep, StoredStep
  <1>3. ASSUME TypeInv, Inv, PagesMatchResults, OneResult, BudgetBoundsQueue, faults = 0,
               NEW j \in DOMAIN jobs, \A k \in reclaimed : rec[k].job # j
        PROVE  /\ jobs[j].pages <= Cardinality({k \in Present(rec) : rec[k].job = j})
               /\ Limit(j) > 0 => jobs[j].pages <= Bound(j)
    <2> DEFINE mine == {k \in Present(rec) : rec[k].job = j}
    <2>1. /\ Cardinality(mine) \in Nat /\ Total(StoredOf(j)) \in Nat
          /\ Total(StoredOf(j)) <= Cardinality(mine)
      BY <1>3, StoredRows
    <2>2. Total(StoredOf(j)) = jobs[j].pages + Total(UncountedOf(j))
      BY <1>3 DEF PagesMatchResults
    <2>3. UncountedOf(j) \in [Handler -> Nat] /\ IsFiniteSet(Handler)
      BY <1>3, SumsTyped, CrawlAssumption
    <2>4. Total(UncountedOf(j)) \in Nat /\ jobs[j].pages \in Nat
      BY <1>3, <2>3, PileFinite, JobTable
    <2>5. Limit(j) > 0 => Cardinality(mine) <= Bound(j)
      BY <1>3 DEF BudgetBoundsQueue, Triangle, Limit
    <2>6. Bound(j) \in Nat
      <3>1. Limit(j) \in Nat
        BY <1>3, JobTable, CrawlAssumption DEF Limit
      <3>2. Cardinality(Handler) * Triangle(Limit(j)) \in Nat
        BY <3>1, LaterTyped
      <3> QED
        BY <3>2
    <2> HIDE DEF mine, Bound
    <2>7. jobs[j].pages <= Cardinality(mine)
      BY <2>1, <2>2, <2>4
    <2>8. Limit(j) > 0 => jobs[j].pages <= Bound(j)
      BY <2>1, <2>4, <2>5, <2>6, <2>7
    <2> QED
      BY <2>7, <2>8 DEF mine
  <1>4. TypeInv /\ Inv /\ PagesMatchResults /\ OneResult /\ BudgetBoundsQueue =>
          (faults = 0 =>
             \A j \in DOMAIN jobs : (\A k \in reclaimed : rec[k].job # j) =>
               /\ jobs[j].pages <= Cardinality({k \in Present(rec) : rec[k].job = j})
               /\ LET n == MaxPages[jobs[j].dom] IN
                  n > 0 => jobs[j].pages <= 1 + Cardinality(Handler) * ((n * (n - 1)) \div 2))
    BY <1>3 DEF Limit, Triangle
  <1> QED
    BY <1>1, <1>2, <1>4, PagesAgree, ResultOnce, BudgetBounds, TypeInvariant, HandsInvariant,
       PTL DEF Spec

-----------------------------------------------------------------------------
(* What the scope of a crawl amounts to, for all host names.                 *)

LEMMA LastTwo ==
  ASSUME NEW n \in Seq(Label), Len(n) > 2
  PROVE  /\ SubSeq(n, Len(n) - 1, Len(n)) \in Seq(Label)
         /\ Len(SubSeq(n, Len(n) - 1, Len(n))) = 2
  <1>1. Len(n) \in Nat /\ \A i \in 1..Len(n) : n[i] \in Label
    OBVIOUS
  <1>2. Len(n) - 1 \in Int /\ \A i \in (Len(n) - 1)..Len(n) : n[i] \in Label
    BY <1>1
  <1> QED
    BY <1>1, <1>2, SubSeqProperties

LEMMA RootLength ==
  ASSUME NEW h \in Host, Len(h.name) >= 2
  PROVE  Len(RootDomain(h)) = 2
  <1>1. h.name \in Seq(Label) /\ Len(h.name) \in Nat
    BY DEF Host, Name
  <1>2. CASE Len(h.name) = 2
    BY <1>2 DEF RootDomain
  <1>3. CASE Len(h.name) > 2
    <2>1. ~(Len(h.name) <= 2)
      BY <1>1, <1>3
    <2>2. RootDomain(h) = SubSeq(h.name, Len(h.name) - 1, Len(h.name))
      BY <2>1 DEF RootDomain
    <2> QED
      BY <1>1, <1>3, <2>2, LastTwo, Zenon
  <1>4. \A k \in Nat : k >= 2 => k = 2 \/ k > 2
    OBVIOUS
  <1> QED
    BY <1>1, <1>2, <1>3, <1>4, Zenon

(* A name below a root of two labels, and its own root.                     *)
LEMMA BelowRoot ==
  ASSUME NEW h \in Host, NEW root, Len(root) = 2
  PROVE  Below(h.name, root) <=> Len(h.name) > 2 /\ RootDomain(h) = root
  <1>1. Len(h.name) \in Nat
    BY DEF Host, Name
  <1>2. Len(h.name) - Len(root) + 1 = Len(h.name) - 1
    BY <1>1
  <1>3. Len(h.name) > 2 =>
          RootDomain(h) = SubSeq(h.name, Len(h.name) - 1, Len(h.name))
    BY <1>1 DEF RootDomain
  <1> QED
    BY <1>2, <1>3 DEF Below

(* Whatever a crawl takes in has the root domain of the crawl's own host, so that
   one count of tasks in progress serves the cap of the domain and of all its
   hosts (usecases.go:192, url_repo.go:107).  A host of one label is left out:
   below it every host is a root domain of its own. *)
THEOREM ScopeSharesRoot ==
  ASSUME NEW u \in Link, NEW seed \in Host, NEW cfg, NEW depth,
         Len(seed.name) >= 2, URLInScope(u, seed, cfg, depth)
  PROVE  RootDomain(u.host) = RootDomain(seed)
  <1>1. u.host \in Host /\ Len(RootDomain(seed)) = 2
    BY RootLength DEF Link
  <1>2. SameHost(u.host, seed) \/ Below(u.host.name, RootDomain(seed))
    BY DEF URLInScope, HostInScope
  <1>3. CASE SameHost(u.host, seed)
    BY <1>3 DEF SameHost, RootDomain
  <1>4. CASE Below(u.host.name, RootDomain(seed))
    BY <1>1, <1>4, BelowRoot
  <1> QED
    BY <1>2, <1>3, <1>4

(* With include_subdomains the hosts of a crawl are its own and those below the
   root domain.  The root domain itself is among them only if it is the host
   that was configured (valueobjects.go:89-93). *)
THEOREM SubdomainsAre ==
  ASSUME NEW h \in Host, NEW seed \in Host, Len(seed.name) >= 2
  PROVE  HostInScope(h, seed, TRUE) <=>
           \/ SameHost(h, seed)
           \/ Len(h.name) > 2 /\ RootDomain(h) = RootDomain(seed)
  BY RootLength, BelowRoot DEF HostInScope
=============================================================================
