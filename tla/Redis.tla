-------------------------------- MODULE Redis --------------------------------
(***************************************************************************)
(* What the models of the components that keep lists share.                *)
(***************************************************************************)
CONSTANTS Faults,  \* may redis commands fail, or the worker die?
          None     \* no value

ASSUME FaultsIsBoolean == Faults \in BOOLEAN
=============================================================================
