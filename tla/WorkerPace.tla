----------------------------- MODULE WorkerPace -----------------------------
(* WorkerRunner with a history variable: when the worker asked for its pages. *)
EXTENDS WorkerRunner

VARIABLE sent   \* history: the tick of each page request, in their order

paceVars == <<vars, sent>>

PaceInit == Init /\ sent = <<>>

(* A goroutine gets through with its page: the request and its answer.       *)
Requesting == \E t \in Task : g[t].pc = "page" /\ g'[t].pc # "page"

PaceNext ==
  /\ Next
  /\ sent' = IF Requesting THEN Append(sent, now) ELSE sent

PaceSpec == PaceInit /\ [][PaceNext]_paceVars
FairPace == PaceSpec /\ Fairness

(* The requests of one crawl delay, from tick x on.                          *)
SentFrom(x) == {i \in DOMAIN sent : sent[i] \in x..(x + Delay - 1)}

(* Each goroutine sleeps for crawl_delay_ms before its request and holds its
   slot until the end of it: within one delay a worker asks a domain for at most
   --concurrency pages, from whichever batches (runner.go:128-139). *)
PacedBySlots ==
  \A x \in Time : x + Delay <= MaxTime => Cardinality(SentFrom(x)) <= Slots
=============================================================================
