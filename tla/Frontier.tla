------------------------------ MODULE Frontier ------------------------------
(***************************************************************************)
(* What the queue of a crawl promises, without workers, jobs, handlers or  *)
(* faults: URLs become known by following links from the seed, one hop at  *)
(* a time and within the scope of the domain, and a known URL is settled   *)
(* at most once.  CrawlMaster implements it.                               *)
(*                                                                         *)
(* That a settled URL stays settled is what the code does.  The documents  *)
(* want failed URLs retried and done URLs crawled again (eidos, URL State  *)
(* Machine); with either there would be a step from settled to open here.  *)
(***************************************************************************)
EXTENDS Naturals

CONSTANTS Domain, Url, Seed, Scope, MaxDepth, Links

VARIABLE front    \* front[k]: what is known of URL k[2] of domain k[1]

Cell == [st : {"unknown", "open", "settled"}, hop : Nat]

Init == front = [k \in Domain \X Url |-> [st |-> "unknown", hop |-> 0]]

(* URL k may become known at hop n.                                         *)
Justified(k, n) ==
  \/ k[2] = Seed[k[1]] /\ n = 0
  \/ /\ k[2] \in Scope[k[1]]
     /\ MaxDepth[k[1]] > 0 => n <= MaxDepth[k[1]]
     /\ \E p \in Domain \X Url :
          /\ p[1] = k[1] /\ front[p].st # "unknown" /\ n = front[p].hop + 1
          /\ \E x \in DOMAIN Links[p[2]] : Links[p[2]][x] = k[2]

Discover ==
  /\ front' \in [Domain \X Url -> Cell]
  /\ \A k \in Domain \X Url :
       \/ front'[k] = front[k]
       \/ /\ front[k].st = "unknown" /\ front'[k].st = "open"
          /\ Justified(k, front'[k].hop)

Settle(k) ==
  /\ front[k].st = "open"
  /\ front' = [front EXCEPT ![k].st = "settled"]

Next == Discover \/ \E k \in Domain \X Url : Settle(k)

Spec == Init /\ [][Next]_front
=============================================================================
