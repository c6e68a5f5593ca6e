----------------------------- MODULE MCOtaPrices -----------------------------
(* Model-checking instances of OtaPrices. *)
EXTENDS OtaPrices, TLC
Symm == Permutations(Posts) \cup Permutations(Lines) \cup Permutations(Prices)
=============================================================================
