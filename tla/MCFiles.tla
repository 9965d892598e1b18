------------------------------- MODULE MCFiles ------------------------------
(* Three fetches of a page and of another file; bodies shorter than, as long
   as and longer than what is saved. *)
EXTENDS PageFiles, TLC
CONSTANTS page, binary, short, full, long
MCSize == short :> 1 @@ full :> 2 @@ long :> 3
Symmetry == Permutations(Fetch)
=============================================================================
