----------------------------- MODULE IdRegistry -----------------------------
(***************************************************************************)
(* What the flight-line id keys "flt:<FlightLineID>:id" promise to every   *)
(* script that reads or writes them: a line is given one id, once, and no  *)
(* id is given to two lines.  FlightIds shows that the INCR / SETNX / GET  *)
(* protocol of ow/receiveprice.lua and rt/receiveprice.lua implements it.  *)
(***************************************************************************)
EXTENDS Naturals

CONSTANTS Lines,   \* the flight lines (md5 of ports and times)
          MaxId    \* bound on the ids the counter may reach

VARIABLE fltid     \* fltid[l]: the id of line l, 0 while the key is absent

Init == fltid = [l \in Lines |-> 0]

Unused(n) == \A l \in Lines : fltid[l] # n

Register(l, n) == /\ fltid[l] = 0
                  /\ Unused(n)
                  /\ fltid' = [fltid EXCEPT ![l] = n]

Next == \E l \in Lines, n \in 1..MaxId : Register(l, n)

Spec == Init /\ [][Next]_fltid
=============================================================================
