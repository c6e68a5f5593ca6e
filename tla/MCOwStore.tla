------------------------------ MODULE MCOwStore ------------------------------
(* Model-checking instances of OwStore. *)
EXTENDS OwStore, TLC
Symm == Permutations(OwReqs) \cup Permutations(Lines) \cup Permutations(Segs)
=============================================================================
