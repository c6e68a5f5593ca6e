----------------------------- MODULE MCAvhToken -----------------------------
(* Model-checking instance of AvhToken. *)
EXTENDS AvhToken, TLC
Symm == Permutations(Reqs)
=============================================================================
