------------------------------ MODULE UrlScope ------------------------------
(***************************************************************************)
(* Which links belong to a crawl (domain/crawler/valueobjects.go): what    *)
(* the constants Scope and RootOf of UrlQueue stand for.  A host name is   *)
(* the sequence of its labels in lower case, a path is abstracted to what  *)
(* the path filter says of it.                                             *)
(***************************************************************************)
EXTENDS Naturals, Sequences

CONSTANT Label

Name == Seq(Label) \ {<<>>}

(* A crawl domain's host as it was typed in, and a link's URL.               *)
Host == [name : Name, port : BOOLEAN]
Link == [scheme : {"http", "https", "other"}, host : Host, matched : BOOLEAN]

(* RootDomain: without the port, the last two labels. *)
RootDomain(h) ==
  IF Len(h.name) <= 2 THEN h.name ELSE SubSeq(h.name, Len(h.name) - 1, Len(h.name))

(* strings.HasSuffix(host, "." + root)                                      *)
Below(name, root) ==
  /\ Len(name) > Len(root)
  /\ SubSeq(name, Len(name) - Len(root) + 1, Len(name)) = root

(* u.Hostname() has no port; the domain's host is compared as it is, so with a
   port it equals none. *)
SameHost(h, seed) == ~seed.port /\ h.name = seed.name

HostInScope(h, seed, subdomains) ==
  SameHost(h, seed) \/ (subdomains /\ Below(h.name, RootDomain(seed)))

(* cfg: [subdomains, filtered, depth]; the depth 0 is no limit.             *)
URLInScope(u, seed, cfg, depth) ==
  /\ u.scheme \in {"http", "https"}
  /\ HostInScope(u.host, seed, cfg.subdomains)
  /\ cfg.depth > 0 => depth <= cfg.depth
  /\ cfg.filtered => u.matched
=============================================================================
