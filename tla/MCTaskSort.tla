------------------------------ MODULE MCTaskSort ------------------------------
(* Model-checking instances of TaskSort. *)
EXTENDS TaskSort
SomeScores == {1, 2, 3, 5}
=============================================================================
