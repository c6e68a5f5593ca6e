------------------------------ MODULE MCRtStore ------------------------------
(***************************************************************************)
(* Model-checking instance of RtStore.  Its state space has two halves, for *)
(* the choice of readers: posts that fail anywhere, and posts that do not   *)
(* with a search and a lookup beside them.                                  *)
(***************************************************************************)
EXTENDS RtStore, TLC

CONSTANTS g, b1, b2

VARIABLE readers   \* are there readers, or failing posts?

TwoReturns == {<<g, b1>>, <<g, b2>>}
Symm == Permutations(RtReqs) \cup Permutations({b1, b2}) \cup Permutations(Segs)

mcVars == <<rtVars, readers>>

MCInit == RtInit /\ readers \in BOOLEAN

MCNext == /\ \/ \E r \in RtReqs : Posting(r) \/ (~readers /\ Failing(r))
             \/ readers /\ \/ \E h \in Gets : Getting(h)
                           \/ \E q \in Lookups : Looking(q)
          /\ UNCHANGED readers

MCSpec == MCInit /\ [][MCNext]_mcVars
=============================================================================
