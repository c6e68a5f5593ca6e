----------------------------- MODULE MCCombQueue -----------------------------
(* Model-checking instances of CombQueue. *)
EXTENDS CombQueue
=============================================================================
