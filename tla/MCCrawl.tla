------------------------------ MODULE MCCrawl -------------------------------
(***************************************************************************)
(* Instances of CrawlMaster.  The page graphs are small but have what the  *)
(* properties are about: a link back, a link met twice, two ways to a page *)
(* and a link out of scope.                                                *)
(***************************************************************************)
EXTENDS CrawlMaster, UrlScope, TLC

CONSTANTS w2, d1, d2, s, a, b, x, y, z

MCSeed == [d \in Domain |-> s]
MCSeeds == d1 :> s @@ d2 :> b

(* s and a are on the host of d1, b, x and y on that of d2, z elsewhere.     *)
HostOf(u) == [port |-> FALSE, name |->
  CASE u \in {s, a} -> <<"crawled", "tld">>
    [] u \in {b, x, y} -> <<"blog", "crawled", "tld">>
    [] u = z -> <<"other", "tld">>]
LinkTo(u) == [scheme |-> "https", host |-> HostOf(u), matched |-> TRUE]

(* UrlQueue has the limit of the depth in MaxDepth.                         *)
ScopeWith(subdomains) ==
  [d \in Domain |-> {u \in Url :
     URLInScope(LinkTo(u), HostOf(MCSeeds[d]),
                [subdomains |-> subdomains, filtered |-> FALSE, depth |-> 0], 1)}]

MCRootOf == [u \in Url |-> RootDomain(HostOf(u))]
MCScope == ScopeWith(TRUE)
MCTwoScopes == ScopeWith(FALSE)
MCAnyDomain == [w \in Worker |-> None]
MCOneBound == [w \in Worker |-> IF w = w2 THEN d2 ELSE None]
MC0 == [d \in Domain |-> 0]
MC1 == [d \in Domain |-> 1]
MC2 == [d \in Domain |-> 2]
MC3 == [d \in Domain |-> 3]

(* g cut down to the URLs of the run *)
Graph(g) == [u \in Url |-> IF u \in DOMAIN g
                           THEN SelectSeq(g[u], LAMBDA v : v \in Url) ELSE <<>>]

(* s links to a and twice to b, they link to each other; z is out of scope. *)
MCPair == Graph(s :> <<a, z, b, b>> @@ a :> <<b, s>> @@ b :> <<a>>)
(* a chain of three hops, with links back, to itself and out of scope       *)
MCChain == Graph(s :> <<a, z>> @@ a :> <<a, b>> @@ b :> <<s, y>>)
(* three pages that find the same page *)
MCBushy == Graph(s :> <<a, b, x>> @@ a :> <<x, y>> @@ b :> <<y>> @@ x :> <<y>>)
(* two hosts of one root domain, that link to each other *)
MCHosts == Graph(s :> <<a, b>> @@ b :> <<x, y, s>>)

Symmetry == Permutations(Worker) \cup Permutations(Handler)
JobSymmetry == Permutations(Handler) \cup Permutations(Caller)
WorkerSymmetry == Permutations(Worker)
=============================================================================
