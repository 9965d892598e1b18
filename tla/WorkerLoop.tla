----------------------------- MODULE WorkerLoop -----------------------------
(***************************************************************************)
(* One worker as CrawlMaster sees it: it gets tasks, finds one result for  *)
(* each of them, in any order, and submits them together.  WorkerRunner    *)
(* implements it with goroutines.                                          *)
(***************************************************************************)
EXTENDS Naturals, Sequences

CONSTANT Task

VARIABLES todo, got    \* tasks without a result; the results, in order

Init == todo = {} /\ got = <<>>

Poll ==
  /\ todo = {} /\ got = <<>>
  /\ todo' \in SUBSET Task /\ todo' # {}
  /\ UNCHANGED got

Fetch(t) ==
  /\ t \in todo
  /\ todo' = todo \ {t} /\ got' = Append(got, t)

Submit ==
  /\ todo = {}
  /\ got' = <<>> /\ UNCHANGED todo

Next == Poll \/ Submit \/ \E t \in Task : Fetch(t)

Spec == Init /\ [][Next]_<<todo, got>>
=============================================================================
