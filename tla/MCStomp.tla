------------------------------ MODULE MCStomp ------------------------------
(* Model-checking instance of Stomp. *)
EXTENDS Stomp

x == Text("x")
CONNECTED == Plain("CONNECTED", <<Header("session")>>, <<>>)
ERROR == [Plain("ERROR", <<>>, <<x, NL>>) EXCEPT !.table = FALSE]
MESSAGE == [Plain("MESSAGE", <<Header("id")>>, <<x, NUL, x>>) EXCEPT !.body_length = 3]
EMPTY == [Plain("EMPTY", <<>>, <<>>) EXCEPT !.body_length = 0]
BINARY == [Plain("BINARY", <<>>, <<x, NUL, NL, x, NL, NL>>) EXCEPT !.body_length = 6]
Answers == {CONNECTED, ERROR, MESSAGE, EMPTY, BINARY}
=============================================================================
