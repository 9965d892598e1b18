------------------------------- MODULE MCAdmin ------------------------------
(* One machine with two invocations of crawlerctl at a time, two servers on
   one database. *)
EXTENDS Crawlerctl, TLC

Symmetry == Permutations(Client) \cup Permutations(Server)
=============================================================================
