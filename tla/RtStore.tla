------------------------------- MODULE RtStore -------------------------------
(***************************************************************************)
(* The round-trip price store of rt/receiveprice.lua for one ORG:DST pair  *)
(* and one pair of dates, with the segment lookup of rt/getseg.lua.        *)
(* A posted record is a combination of an outbound and a return line.  POST *)
(* calls getfid for both (FlightIds), adds the return id to the JSON list  *)
(* kept under the outbound id, and stores the price.  GET walks the lists, *)
(* and notes for every fare it shows which ids its combination stands for; *)
(* getseg answers with the segments of these ids.                          *)
(*                                                                         *)
(* An id is a Lua number when it comes from INCR or tonumber, and a string *)
(* when the loser of the SETNX has fetched it: the keys made of both are   *)
(* equal, the list entries are not.                                        *)
(***************************************************************************)
EXTENDS FlightIds, Sequences, SequencesExt

CONSTANTS Combos,   \* <<outbound, return>> lines of the records posted
          Gets,     \* concurrent GETs
          Lookups,  \* concurrent requests of getseg.lua
          Faults    \* may redis fail, or a worker die?

ASSUME CombosAreLines == Combos \subseteq Lines \X Lines
ASSUME CombosAreNew == Combos \cap (Lines \cup {None}) = {}
ASSUME FaultsIsBoolean == Faults \in BOOLEAN

VARIABLES rtlist,  \* rt:<ORG>:<DST>: outbound id -> list of return ids
          prirt,   \* pri:rt:<gid>:<bid>: the combination whose record is stored
          segrt,   \* seg:rt:<combination>: <<gid, bid>>
          post,    \* the POSTs
          get,     \* the GETs
          look     \* the getseg requests

rtKeys == <<rtlist, prirt, segrt>>
rtVars == <<idVars, rtKeys, post, get, look>>

Entry == [id : Ids, str : BOOLEAN]
Nil == [id |-> 0, str |-> FALSE]

\* str: the id under allocation was fetched by the loser of a SETNX.
NoPost == [step |-> "idle", combo |-> None, str |-> FALSE, gid |-> 0, bid |-> Nil,
           tmpbid |-> <<>>]
NoGet == [step |-> "idle", todo |-> {}, at |-> None, bigtab |-> <<>>, due |-> {}]
NoLook == [step |-> "idle", fltid |-> None, g |-> 0, b |-> 0, out |-> {}, answer |-> <<>>]

Post == [step : {"idle", "out", "back", "hget", "hset", "price"}, combo : Combos \cup {None},
         str : BOOLEAN, gid : 0..MaxId, bid : Entry \cup {Nil}, tmpbid : Seq(Entry)]
Get == [step : {"idle", "hgetall", "hget", "setnx", "done"}, todo : SUBSET (Ids \X Entry),
        at : (Combos \X Ids \X Ids) \cup {None}, bigtab : Seq(Combos), due : SUBSET Combos]
Look == [step : {"idle", "flt", "segrt", "one", "out", "back", "done"},
         fltid : Lines \cup Combos \cup {None}, g : 0..MaxId, b : 0..MaxId,
         out : SUBSET (Lines \X Segs), answer : Seq(Lines \X Segs)]

RtTypeOK == /\ TypeOK
            /\ rtlist \in [Ids -> Seq(Entry)]
            /\ prirt \in [Ids \X Ids -> Combos \cup {None}]
            /\ segrt \in [Combos -> (Ids \X Ids) \cup {None}]
            /\ post \in [RtReqs -> Post]
            /\ get \in [Gets -> Get]
            /\ look \in [Lookups -> Look]

RtInit == /\ Init
          /\ rtlist = [i \in Ids |-> <<>>]
          /\ prirt = [p \in Ids \X Ids |-> None]
          /\ segrt = [c \in Combos |-> None]
          /\ post = [r \in RtReqs |-> NoPost]
          /\ get = [g \in Gets |-> NoGet]
          /\ look = [q \in Lookups |-> NoLook]
-----------------------------------------------------------------------------
(* POST *)

Readers == <<get, look>>

PostBegin(r, c, s) == /\ post[r] = NoPost
                      /\ Begin(r, c[1], s)
                      /\ post' = [post EXCEPT ![r].step = "out", ![r].combo = c]
                      /\ UNCHANGED <<rtKeys, Readers>>

\* The commands of getfid.
LegStep(r) == /\ \/ /\ GetId(r) \/ IncrId(r) \/ SetnxId(r) \/ StoreSeg(r)
                    /\ UNCHANGED post
                 \/ /\ GetWinner(r)
                    /\ post' = [post EXCEPT ![r].str = TRUE]
              /\ UNCHANGED <<rtKeys, Readers>>

\* getfid returns id i (0: nil, after a failed command) to its caller.
LegEnds(r, i) == LET p == post[r] IN
    /\ post' = [post EXCEPT ![r] =
                  IF p.step = "out"
                  THEN [p EXCEPT !.step = "back", !.gid = i, !.str = FALSE]
                  ELSE [p EXCEPT !.step = "hget", !.str = FALSE,
                                 !.bid = IF i = 0 THEN Nil ELSE [id |-> i, str |-> p.str]]]
    /\ UNCHANGED <<rtKeys, Readers>>

LegDone(r) == /\ Finish(r)
              /\ LegEnds(r, held[r])

BackBegin(r, s) == /\ post[r].step = "back"
                   /\ Begin(r, post[r].combo[2], s)
                   /\ UNCHANGED <<rtKeys, post, Readers>>

\* Mutant: the list is not searched for the id.
ListReadBlind(r) == LET p == post[r] IN
    /\ p.step = "hget"
    /\ post' = [post EXCEPT ![r] =
                  IF p.gid = 0 THEN NoPost
                  ELSE [p EXCEPT !.step = "hset", !.tmpbid = rtlist[p.gid]]]
    /\ UNCHANGED <<idVars, rtKeys, Readers>>

\* HGET rt:<ORG>:<DST> gid.  With gid nil the handler raises; a return id that is
\* listed already needs no HSET.
ListRead(r) == LET p == post[r] IN
    /\ p.step = "hget"
    /\ post' = [post EXCEPT ![r] =
                  CASE p.gid = 0 -> NoPost
                    [] p.gid # 0 /\ Contains(rtlist[p.gid], p.bid) -> [p EXCEPT !.step = "price"]
                    [] OTHER -> [p EXCEPT !.step = "hset", !.tmpbid = rtlist[p.gid]]]
    /\ UNCHANGED <<idVars, rtKeys, Readers>>

\* Mutant: the list starts anew.
NewListAlone(r) == IF post[r].bid = Nil THEN <<>> ELSE <<post[r].bid>>

\* The list a request is about to write: table.insert of nil inserts nothing.
NewList(r) == LET p == post[r] IN
    IF p.bid = Nil THEN p.tmpbid ELSE Append(p.tmpbid, p.bid)

\* HSET rt:<ORG>:<DST> gid: the whole list, as it was read.  With bid nil the
\* handler raises when it builds the next key.
ListWrite(r) ==
    /\ post[r].step = "hset"
    /\ rtlist' = [rtlist EXCEPT ![post[r].gid] = NewList(r)]
    /\ post' = [post EXCEPT ![r] = IF @.bid = Nil THEN NoPost
                                   ELSE [@ EXCEPT !.step = "price", !.tmpbid = <<>>]]
    /\ UNCHANGED <<idVars, prirt, segrt, Readers>>

\* HSET pri:rt:<gid>:<bid>; the record is done.
PriceWrite(r) ==
    /\ post[r].step = "price"
    /\ prirt' = [prirt EXCEPT ![<<post[r].gid, post[r].bid.id>>] = post[r].combo]
    /\ post' = [post EXCEPT ![r] = NoPost]
    /\ UNCHANGED <<idVars, rtlist, segrt, Readers>>

\* A command of getfid fails, or its reply is lost: getfid answers error003 and
\* returns nil, and its caller goes on.  The loser's GET is not checked: nil
\* raises in the next line.
LegFails(r) == /\ Faults
               /\ pc[r] # "winner"
               /\ pc[r] # "ready"
               /\ Abort(r) \/ LostReply(r)
               /\ LegEnds(r, 0)

\* The handler returns or raises, or the worker dies.
PostEnds(r) ==
    /\ Faults
    /\ post[r] # NoPost
    /\ IF pc[r] = "idle" THEN UNCHANGED idVars ELSE Abort(r)
    /\ \/ UNCHANGED rtKeys
       \/ /\ post[r].step = "hset"
          /\ rtlist' = [rtlist EXCEPT ![post[r].gid] = NewList(r)]
          /\ UNCHANGED <<prirt, segrt>>
       \/ /\ post[r].step = "price"
          /\ prirt' = [prirt EXCEPT ![<<post[r].gid, post[r].bid.id>>] = post[r].combo]
          /\ UNCHANGED <<rtlist, segrt>>
    /\ post' = [post EXCEPT ![r] = NoPost]
    /\ UNCHANGED Readers
-----------------------------------------------------------------------------
(* GET *)

GetUpdate(g, v) == /\ get' = [get EXCEPT ![g] = v]
                   /\ UNCHANGED <<idVars, rtlist, prirt, post, look>>

\* HGET ota:...:kayak first: its fares are abstracted away.
GetBegin(g) == /\ get[g].step = "idle"
               /\ GetUpdate(g, [get[g] EXCEPT !.step = "hgetall"])
               /\ UNCHANGED segrt

Listed == {x \in Ids \X Entry : Contains(rtlist[x[1]], x[2])}

\* HGETALL rt:<ORG>:<DST>; due: history, the combinations with a price by then.
GetLists(g) ==
    /\ get[g].step = "hgetall"
    /\ GetUpdate(g, [get[g] EXCEPT !.step = "hget", !.todo = Listed,
                       !.due = {prirt[<<x[1], x[2].id>>] : x \in Listed} \ {None}])
    /\ UNCHANGED segrt

\* Mutant: the walk stops at the first combination without a price.
GetPriceBreaks(g, x) == LET c == prirt[<<x[1], x[2].id>>] IN
    /\ get[g].step = "hget"
    /\ x \in get[g].todo
    /\ GetUpdate(g, [get[g] EXCEPT !.todo = IF c = None THEN {} ELSE @ \ {x},
                       !.step = IF c = None THEN "hget" ELSE "setnx",
                       !.at = IF c = None THEN None ELSE <<c, x[1], x[2].id>>])
    /\ UNCHANGED segrt

\* HGET pri:rt:<gid>:<bid>
GetPrice(g, x) == LET c == prirt[<<x[1], x[2].id>>] IN
    /\ get[g].step = "hget"
    /\ x \in get[g].todo
    /\ GetUpdate(g, [get[g] EXCEPT !.todo = @ \ {x},
                       !.step = IF c = None THEN "hget" ELSE "setnx",
                       !.at = IF c = None THEN None ELSE <<c, x[1], x[2].id>>])
    /\ UNCHANGED segrt

\* SETNX seg:rt:<combination> "gid,bid", then the record joins the answer.
GetNote(g) == LET at == get[g].at IN
    /\ get[g].step = "setnx"
    /\ segrt' = [segrt EXCEPT ![at[1]] = IF @ = None THEN <<at[2], at[3]>> ELSE @]
    /\ GetUpdate(g, [get[g] EXCEPT !.step = "hget", !.at = None,
                       !.bigtab = Append(@, at[1])])

GetAnswer(g) == /\ get[g].step = "hget"
                /\ get[g].todo = {}
                /\ GetUpdate(g, [get[g] EXCEPT !.step = "done"])
                /\ UNCHANGED segrt

\* The request is over: answered, or error003 after a failed command.
GetEnd(g) == /\ get[g].step = "done" \/ (Faults /\ get[g].step # "idle")
             /\ GetUpdate(g, NoGet)
             /\ UNCHANGED segrt
-----------------------------------------------------------------------------
(* getseg.lua, asked for a flight line or for a combination. *)

LookUpdate(q, v) == /\ look' = [look EXCEPT ![q] = v]
                    /\ UNCHANGED <<idVars, rtKeys, post, get>>

LookBegin(q, x) == /\ look[q] = NoLook
                   /\ LookUpdate(q, [NoLook EXCEPT !.step = "flt", !.fltid = x])

\* GET flt:<fltid>:id, which no combination has.
LookId(q) == LET l == look[q].fltid IN
    /\ look[q].step = "flt"
    /\ LookUpdate(q, IF l \in Lines /\ fltid[l] # 0
                     THEN [look[q] EXCEPT !.step = "one", !.g = fltid[l]]
                     ELSE [look[q] EXCEPT !.step = "segrt"])

\* Mutant: the two halves of the pair are exchanged.
LookPairSwapped(q) == LET c == look[q].fltid IN
    /\ look[q].step = "segrt"
    /\ LookUpdate(q, IF c \in Combos /\ segrt[c] # None
                     THEN [look[q] EXCEPT !.step = "out", !.g = segrt[c][2], !.b = segrt[c][1]]
                     ELSE NoLook)

\* GET seg:rt:<fltid>; without one string.find raises.
LookPair(q) == LET c == look[q].fltid IN
    /\ look[q].step = "segrt"
    /\ LookUpdate(q, IF c \in Combos /\ segrt[c] # None
                     THEN [look[q] EXCEPT !.step = "out", !.g = segrt[c][1], !.b = segrt[c][2]]
                     ELSE NoLook)

\* HGETALL seg:<id> of a single line: 503 with two segment lists, error002 with none.
LookOne(q) == LET s == seg[look[q].g] IN
    /\ look[q].step = "one"
    /\ LookUpdate(q, IF Cardinality(s) = 1
                     THEN [look[q] EXCEPT !.step = "done", !.answer = SetToSeq(s)]
                     ELSE NoLook)

\* HGETALL seg:<gid>, then seg:<bid>: an answer needs exactly one list from each.
LookOut(q) == /\ look[q].step = "out"
              /\ LookUpdate(q, [look[q] EXCEPT !.step = "back", !.out = seg[look[q].g]])

LookBack(q) == LET s == seg[look[q].b] IN
    /\ look[q].step = "back"
    /\ LookUpdate(q, IF Cardinality(look[q].out) = 1 /\ Cardinality(s) = 1
                     THEN [look[q] EXCEPT !.step = "done",
                                          !.answer = SetToSeq(look[q].out) \o SetToSeq(s)]
                     ELSE NoLook)

LookEnd(q) == /\ look[q].step = "done" \/ (Faults /\ look[q].step # "idle")
              /\ LookUpdate(q, NoLook)
-----------------------------------------------------------------------------
PostProgress(r) == \/ LegStep(r) \/ LegDone(r) \/ (\E s \in Segs : BackBegin(r, s))
                   \/ ListRead(r) \/ ListWrite(r) \/ PriceWrite(r)
GetProgress(g) == \/ GetLists(g) \/ (\E x \in Ids \X Entry : GetPrice(g, x))
                  \/ GetNote(g) \/ GetAnswer(g) \/ GetEnd(g)
LookProgress(q) == \/ LookId(q) \/ LookPair(q) \/ LookOne(q) \/ LookOut(q)
                   \/ LookBack(q) \/ LookEnd(q)

Posting(r) == PostProgress(r) \/ \E c \in Combos, s \in Segs : PostBegin(r, c, s)
Failing(r) == LegFails(r) \/ PostEnds(r)
Getting(g) == GetBegin(g) \/ GetProgress(g)
Looking(q) == LookProgress(q) \/ \E x \in Lines \cup Combos : LookBegin(q, x)

RtNext == \/ \E r \in RtReqs : Posting(r) \/ Failing(r)
          \/ \E g \in Gets : Getting(g)
          \/ \E q \in Lookups : Looking(q)

RtSpec == RtInit /\ [][RtNext]_rtVars
-----------------------------------------------------------------------------
(* Properties. *)

Id(l) == fltid[l]
Key(c) == <<Id(c[1]), Id(c[2])>>

\* Every list entry, price and noted pair belongs to the combination whose two
\* lines own the ids, whichever requests raced over the ids: a search never
\* shows one combination's fare for another, and getseg is never sent to the
\* segments of other lines (rt/receiveprice.lua:222-256, 311).
CombosOwned ==
    /\ \A x \in Listed : \E c \in Combos : Key(c) = <<x[1], x[2].id>>
    /\ \A k \in DOMAIN prirt : prirt[k] # None => Key(prirt[k]) = k
    /\ \A c \in Combos : segrt[c] # None => segrt[c] = Key(c)

\* A return line is listed at most once as a number and once as the string a
\* lost SETNX leaves, however many posts race (rt/receiveprice.lua:233-249): a
\* fare is answered at most twice.
ListedTwiceAtMost == \A i \in Ids : IsInjective(rtlist[i])

\* The answer of a GET holds every combination that was listed and priced when
\* it read the lists, and nothing but combinations with a price, each noted for
\* getseg: the answer a user sees can be expanded to segments.
AnswerComplete ==
    \A g \in Gets : get[g].step = "done" =>
        LET shown == {get[g].bigtab[k] : k \in DOMAIN get[g].bigtab}
        IN  /\ get[g].due \subseteq shown
            /\ \A c \in shown : prirt[Key(c)] = c /\ segrt[c] = Key(c)

\* getseg answers with one segment list of each line asked for, outbound first,
\* across the three scripts that write the keys it reads.
LookupIsOwn ==
    \A q \in Lookups : look[q].step = "done" =>
        LET x == look[q].fltid
            lines == IF x \in Lines THEN <<x>> ELSE x
        IN  [k \in DOMAIN look[q].answer |-> look[q].answer[k][1]] = lines

\* A return line is settled when every post about to write its list has read it
\* where it is.  Posts for the same outbound line overwrite each other's list, but
\* never lose a settled return line (rt/receiveprice.lua:225-249).
Settled(i) == {k \in DOMAIN rtlist[i] :
                 \A r \in RtReqs : post[r].step = "hset" /\ post[r].gid = i =>
                    k \in DOMAIN post[r].tmpbid /\ post[r].tmpbid[k] = rtlist[i][k]}
ReturnsSettle ==
    [][\A i \in Ids : \A k \in Settled(i) :
          k \in Settled(i)' /\ rtlist'[i][k] = rtlist[i][k]]_rtVars
-----------------------------------------------------------------------------
(* The inductive invariant behind the safety properties. *)

\* The two ids belong to the lines of one combination.
PairOwned(i, j) == \E c \in Combos : Key(c) = <<i, j>>

ListOK(i, list) == /\ IsInjective(list)
                   /\ \A k \in DOMAIN list : PairOwned(i, list[k].id)

ListsOK == \A i \in Ids : ListOK(i, rtlist[i])
PricesOK == \A k \in Ids \X Ids : prirt[k] # None => Key(prirt[k]) = k
NotesOK == \A c \in Combos : segrt[c] # None => segrt[c] = Key(c)

\* A POST holds the ids of its own lines, and the list it is about to write is
\* owned and lacks the entry it is to get.
PostOK(r) == LET p == post[r] IN
    /\ p.step # "idle" => p.combo \in Combos
    /\ pc[r] # "idle" => \/ p.step = "out" /\ line[r] = p.combo[1]
                         \/ p.step = "back" /\ line[r] = p.combo[2]
    /\ p.step \in {"back", "hget", "hset", "price"} /\ p.gid # 0 => p.gid = Id(p.combo[1])
    /\ p.step \in {"hget", "hset", "price"} /\ p.bid # Nil => p.bid.id = Id(p.combo[2])
    /\ p.step \in {"hset", "price"} => p.gid # 0
    /\ p.step = "price" => p.bid # Nil
    /\ p.step = "hset" => ListOK(p.gid, p.tmpbid) /\ ~Contains(p.tmpbid, p.bid)

\* A GET has shown, or holds, or will still read, every combination that was due.
Shown(g) == {get[g].bigtab[k] : k \in DOMAIN get[g].bigtab}
InHand(g) == IF get[g].step = "setnx" THEN {get[g].at[1]} ELSE {}
Ahead(g) == {prirt[<<x[1], x[2].id>>] : x \in get[g].todo}
GetOK(g) ==
    /\ None \notin get[g].due
    /\ get[g].step \in {"idle", "hgetall"} => get[g].bigtab = <<>>
    /\ \A c \in Shown(g) : Key(c) \in Ids \X Ids /\ prirt[Key(c)] = c /\ segrt[c] = Key(c)
    /\ get[g].step = "setnx" =>
         /\ get[g].at \in Combos \X Ids \X Ids
         /\ prirt[<<get[g].at[2], get[g].at[3]>>] = get[g].at[1]
    /\ get[g].step \in {"hget", "setnx", "done"} =>
         get[g].due \subseteq Shown(g) \cup InHand(g) \cup Ahead(g)
    /\ get[g].step = "done" => get[g].todo = {}

\* A lookup holds the ids of the lines it was asked for.
LookOK(q) == LET l == look[q] IN
    /\ l.step = "one" => l.fltid \in Lines /\ l.g # 0 /\ l.g = Id(l.fltid)
    /\ l.step \in {"out", "back"} => /\ l.fltid \in Combos /\ l.g # 0 /\ l.b # 0
                                    /\ Key(l.fltid) = <<l.g, l.b>>
    /\ l.step = "back" => \A v \in l.out : v[1] = l.fltid[1]
    /\ IsFiniteSet(l.out)

RtIInv == /\ IInv /\ RtTypeOK
          /\ \A i \in Ids : IsFiniteSet(seg[i])
          /\ ListsOK /\ PricesOK /\ NotesOK
          /\ \A r \in RtReqs : PostOK(r)
          /\ \A g \in Gets : GetOK(g)
          /\ \A q \in Lookups : LookOK(q)
          /\ LookupIsOwn
=============================================================================
