----------------------------- MODULE MCSchedule -----------------------------
(* Instance of DomainSchedule.                                              *)
EXTENDS DomainSchedule, TLC

RequestSymmetry == Permutations(Request) \cup Permutations(Valid)
=============================================================================
