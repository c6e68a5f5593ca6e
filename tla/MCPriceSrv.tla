----------------------------- MODULE MCPriceSrv -----------------------------
(* Model-checking instance of PriceSrv. *)
EXTENDS PriceSrv, TLC
CONSTANTS l1, l2
SomeDocs == {<<l1, l1>>, <<l1, l2>>, <<l2>>}
Symm == Permutations(Searches) \cup Permutations(Sessions)
=============================================================================
