------------------------------ MODULE UrlQueue ------------------------------
(***************************************************************************)
(* The url_records table and the statements the repository runs on it      *)
(* (infrastructure/persistence/url_repo.go), as operators on a table value.*)
(*                                                                         *)
(* A row is named by its unique index (domain_id, raw_url): rows are never *)
(* deleted, so the auto-increment id a worker calls "task id" and this key *)
(* are in bijection.  A URL is an atom: NormalizeURL and the host and path *)
(* parts of URLInScope are folded into the constants Links and Scope.      *)
(***************************************************************************)
EXTENDS Naturals, FiniteSets, Sequences

CONSTANTS
  Domain,     \* ids of the configured crawl domains
  Url,        \* normalized URLs
  MaxJobs,    \* bound: crawl_jobs rows created in a behaviour
  Seed,       \* Seed[d]: NormalizeURL("https://" + d.Host)
  RootOf,     \* RootOf[u]: the root_domain column of a row for u
  Scope,      \* Scope[d]: URLs whose scheme, host and path URLInScope accepts
  MaxDepth,   \* MaxDepth[d]: scope.max_depth, 0 = unlimited
  Links       \* Links[u]: the <a href> targets of page u, in document order

ASSUME UrlQueueAssumption ==
  /\ IsFiniteSet(Domain) /\ IsFiniteSet(Url)
  /\ MaxJobs \in Nat
  /\ Seed \in [Domain -> Url]
  /\ Scope \in [Domain -> SUBSET Url]
  /\ MaxDepth \in [Domain -> Nat]
  /\ Links \in [Url -> Seq(Url)]

Key == Domain \X Url

Row == [st    : {"none", "pending", "in_progress", "done", "failed"},
        job   : 0..MaxJobs,
        depth : Nat,
        born  : Nat]      \* created_at, as the number of rows at the insert

NoRow == [st |-> "none", job |-> 0, depth |-> 0, born |-> 0]

WithStatus(t, S) == {k \in Key : t[k].st \in S}
Present(t) == {k \in Key : t[k].st # "none"}

(***************************************************************************)
(* URLInScope for a link found at hop n, and the links of a page in scope. *)
(***************************************************************************)
MutInScope_OffByOne(d, u, n) ==
  u \in Scope[d] /\ (MaxDepth[d] > 0 => n <= MaxDepth[d] + 1)

InScope(d, u, n) == u \in Scope[d] /\ (MaxDepth[d] > 0 => n <= MaxDepth[d])

(* Enqueue: one INSERT ... ON CONFLICT (domain_id, raw_url) DO NOTHING for
   the URLs us of domain d; every row of the statement has one created_at. *)
MutEnqueue_Upsert(t, d, j, us, depth) ==
  [k \in Key |-> IF k[1] = d /\ k[2] \in us
                 THEN [st |-> "pending", job |-> j, depth |-> depth[k[2]],
                       born |-> Cardinality(Present(t))]
                 ELSE t[k]]

Enqueue(t, d, j, us, depth) ==
  [k \in Key |-> IF k[1] = d /\ k[2] \in us /\ t[k].st = "none"
                 THEN [st |-> "pending", job |-> j, depth |-> depth[k[2]],
                       born |-> Cardinality(Present(t))]
                 ELSE t[k]]

(* ClaimBatch, the SELECT: at most n pending rows of job j, oldest first.
   Rows of one created_at may come in any order. *)
MutPendingOf_AnyJob(t, j) == WithStatus(t, {"pending"})

PendingOf(t, j) == {k \in WithStatus(t, {"pending"}) : t[k].job = j}

MutBatches_Stale(t, j, n) ==
  LET open == {k \in WithStatus(t, {"pending", "in_progress"}) : t[k].job = j}
  IN  {S \in SUBSET open : Cardinality(S) = IF Cardinality(open) < n
                                            THEN Cardinality(open) ELSE n}

Batches(t, j, n) ==
  LET pending == PendingOf(t, j)
  IN  {S \in SUBSET pending :
         /\ Cardinality(S) = IF Cardinality(pending) < n
                             THEN Cardinality(pending) ELSE n
         /\ \A k \in S, q \in pending \ S : t[k].born <= t[q].born}

(* ClaimBatch, the UPDATE of the same transaction. *)
MutClaim_NoUpdate(t, S) == t

Claim(t, S) ==
  [k \in Key |-> IF k \in S THEN [t[k] EXCEPT !.st = "in_progress"] ELSE t[k]]

(* MarkDone and MarkFailed: UPDATE ... WHERE id = ?, whatever the status. *)
Mark(t, k, s) == [t EXCEPT ![k].st = s]

(* ReclaimStale: rows in_progress whose updated_at is before the cutoff. *)
MutReclaim_AnyStatus(t, old) ==
  [k \in Key |-> IF k \in old /\ t[k].st # "none"
                 THEN [t[k] EXCEPT !.st = "pending"] ELSE t[k]]

Reclaim(t, old) ==
  [k \in Key |-> IF k \in old /\ t[k].st = "in_progress"
                 THEN [t[k] EXCEPT !.st = "pending"] ELSE t[k]]

(* CountInProgress(rootDomain), over the rows of every domain. *)
InProgressUnder(t, r) ==
  {k \in WithStatus(t, {"in_progress"}) : RootOf[k[2]] = r}
=============================================================================
