----------------------------- MODULE OtaPrices -----------------------------
(***************************************************************************)
(* The fares another agency sells, ow/priceupdate.lua and                  *)
(* rt/priceupdate.lua.  Field <date> (or <gdate>/<bdate>/) of the hash     *)
(* ota:<ORG>:<DST>:<source> holds a JSON list of fares; a POST reads it,   *)
(* appends its fare if the flight line is not listed, and writes the whole *)
(* list back.  The two scripts differ in the name of the field only, so    *)
(* one field stands for both; an absent field reads as an empty list.      *)
(***************************************************************************)
EXTENDS Redis, Naturals, Sequences

CONSTANTS Posts,     \* concurrent POSTs for the field
          Lines,     \* flightline_id
          Prices     \* strPrice, with what else a fare carries

VARIABLES ota,     \* the list in redis
          step,    \* the command a POST sends next
          fare,    \* pcontent: the fare it carries
          tmppri   \* the list it has read

otaVars == <<ota, step, fare, tmppri>>

Fares == [line : Lines, price : Prices]

OtaTypeOK ==
    /\ ota \in Seq(Fares)
    /\ step \in [Posts -> {"idle", "hget", "hset"}]
    /\ \A h \in Posts : step[h] # "idle" => fare[h] \in Fares
    /\ \A h \in Posts : step[h] = "hset" => tmppri[h] \in Seq(Fares)
    /\ DOMAIN fare = Posts /\ DOMAIN tmppri = Posts

ListedIn(l, s) == \E k \in DOMAIN s : s[k].line = l

OtaInit ==
    /\ ota = <<>>
    /\ step = [h \in Posts |-> "idle"]
    /\ fare = [h \in Posts |-> <<>>]
    /\ tmppri = [h \in Posts |-> <<>>]
-----------------------------------------------------------------------------
Goto(h, s) == step' = [step EXCEPT ![h] = s]

\* A document is decoded and cut down to the fare kept.
OtaBegin(h, f) ==
    /\ step[h] = "idle"
    /\ Goto(h, "hget")
    /\ fare' = [fare EXCEPT ![h] = f]
    /\ UNCHANGED <<ota, tmppri>>

\* The locals of a POST that is over are gone.
Ends(h) == /\ Goto(h, "idle")
           /\ fare' = [fare EXCEPT ![h] = <<>>]
           /\ tmppri' = [tmppri EXCEPT ![h] = <<>>]

\* Mutant: the lines listed are not looked at.
ReadUnchecked(h) == /\ step[h] = "hget"
                    /\ Goto(h, "hset")
                    /\ tmppri' = [tmppri EXCEPT ![h] = ota]
                    /\ UNCHANGED <<ota, fare>>

\* HGET of a list without the line.
ReadList(h) ==
    /\ step[h] = "hget"
    /\ ~ListedIn(fare[h].line, ota)
    /\ Goto(h, "hset")
    /\ tmppri' = [tmppri EXCEPT ![h] = ota]
    /\ UNCHANGED <<ota, fare>>

\* The line is listed: the fare is dropped, and error002 is the answer.
Refuse(h) == /\ step[h] = "hget"
             /\ ListedIn(fare[h].line, ota)
             /\ Ends(h)
             /\ UNCHANGED ota

\* Mutant: the list starts anew.
WriteAlone(h) == /\ step[h] = "hset"
                 /\ ota' = <<fare[h]>>
                 /\ Ends(h)

\* HSET of the list read with the fare behind it.
WriteList(h) ==
    /\ step[h] = "hset"
    /\ ota' = Append(tmppri[h], fare[h])
    /\ Ends(h)

\* A read fails, a write fails unapplied, or the worker dies.  (An applied write
\* whose reply is lost is WriteList: the handler ends in both cases.)
PostFails(h) ==
    /\ Faults
    /\ step[h] # "idle"
    /\ Ends(h)
    /\ UNCHANGED ota

OtaNext == \E h \in Posts :
    \/ \E f \in Fares : OtaBegin(h, f)
    \/ ReadList(h) \/ Refuse(h) \/ WriteList(h) \/ PostFails(h)

OtaSpec == OtaInit /\ [][OtaNext]_otaVars
-----------------------------------------------------------------------------
(* Properties. *)

\* No flight line has two fares in a list, however the reads and writes of
\* concurrent posts interleave: the check before the append works on a list
\* that may be stale, but what is written is that list and one new line.
UniqueIn(s) == \A m, n \in DOMAIN s : s[m].line = s[n].line => m = n
OneFarePerLine == UniqueIn(ota)

\* A fare is settled when every post about to write has read it where it is.
\* Concurrent posts lose fares to each other, but never a settled one: it keeps
\* its place and price, so a loss is confined to the posts that overlapped.
Settled == {k \in DOMAIN ota : \A h \in Posts : step[h] = "hset" =>
                k \in DOMAIN tmppri[h] /\ tmppri[h][k] = ota[k]}
SettledStays == [][\A k \in Settled : k \in Settled' /\ ota'[k] = ota[k]]_otaVars
-----------------------------------------------------------------------------
\* The inductive invariant: the lists in flight are as good as the stored one and
\* have room for their fare.
OtaIInv ==
    /\ OtaTypeOK
    /\ OneFarePerLine
    /\ \A h \in Posts : step[h] = "hset" =>
          UniqueIn(tmppri[h]) /\ ~ListedIn(fare[h].line, tmppri[h])
=============================================================================
