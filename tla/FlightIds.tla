------------------------------ MODULE FlightIds ------------------------------
(***************************************************************************)
(* The allocation of flight-line ids, shared by the two posting scripts:   *)
(* ow/receiveprice.lua (lines 164-222) and getfid of rt/receiveprice.lua   *)
(* (lines 48-94).  Each request is an nginx coroutine that yields at every *)
(* redis command, so the commands of concurrent requests interleave; each  *)
(* command is atomic in redis.                                             *)
(*                                                                         *)
(* Redis keys: flt:id (counter), flt:<FlightLineID>:id (fltid), seg:<id>   *)
(* (seg, a hash whose field is the md5 of its value: a set of values).     *)
(***************************************************************************)
EXTENDS Naturals, FiniteSets

CONSTANTS OwReqs,  \* concurrent POSTs of ow/receiveprice.lua
          RtReqs,  \* concurrent POSTs of rt/receiveprice.lua
          Lines,   \* flight lines, named by the md5 of ports and times
          Segs,    \* segment lists a post may carry for one line
          MaxId,   \* bound on flt:id
          None     \* no line, no segment list

ASSUME ReqsDisjoint == OwReqs \cap RtReqs = {}
ASSUME MaxIdIsNat == MaxId \in Nat
ASSUME NoneIsNew == None \notin Lines \cup Segs

Reqs == OwReqs \cup RtReqs
Ids  == 1..MaxId

VARIABLES counter,  \* flt:id
          fltid,    \* flt:<line>:id, 0 while absent
          seg,      \* seg:<id>: the <<line, segment list>> values stored
          pc,       \* the redis command a request sends next
          line,     \* FlightLineID of the record a request works on
          sg,       \* its segment list (seginf)
          held      \* farecounter, then fltid of the script

store   == <<counter, fltid, seg>>
locals  == <<pc, line, sg, held>>
idVars  == <<counter, fltid, seg, pc, line, sg, held>>

PCs == {"idle", "get", "incr", "setnx", "winner", "zadd", "seg", "ready"}

TypeOK == /\ counter \in 0..MaxId
          /\ fltid \in [Lines -> 0..MaxId]
          /\ seg \in [Ids -> SUBSET (Lines \X Segs)]
          /\ pc \in [Reqs -> PCs]
          /\ line \in [Reqs -> Lines \cup {None}]
          /\ sg \in [Reqs -> Segs \cup {None}]
          /\ held \in [Reqs -> 0..MaxId]
          /\ \A r \in Reqs : pc[r] # "idle" => line[r] \in Lines /\ sg[r] \in Segs

Init == /\ counter = 0
        /\ fltid = [l \in Lines |-> 0]
        /\ seg = [i \in Ids |-> {}]
        /\ pc = [r \in Reqs |-> "idle"]
        /\ line = [r \in Reqs |-> None]
        /\ sg = [r \in Reqs |-> None]
        /\ held = [r \in Reqs |-> 0]
-----------------------------------------------------------------------------
(* Control of one request. *)

Goto(r, p) == pc' = [pc EXCEPT ![r] = p]

\* The request is over: its Lua locals are gone.
Drop(r) == /\ Goto(r, "idle")
           /\ line' = [line EXCEPT ![r] = None]
           /\ sg' = [sg EXCEPT ![r] = None]
           /\ held' = [held EXCEPT ![r] = 0]

\* Mutant: the one-way script forgets its ZADD.
AfterAllocNoIndex(r) == "seg"

\* After the id is settled, only the one-way script adds it to its index.
AfterAlloc(r) == IF r \in OwReqs THEN "zadd" ELSE "seg"

(* The effects of the three commands that write. *)

\* Mutant: the counter is read, not incremented.
IncrOnlyReads(r) == /\ pc[r] = "incr"
                    /\ counter < MaxId
                    /\ UNCHANGED <<counter, fltid, seg>>

IncrApplied(r) == /\ pc[r] = "incr"
                  /\ counter < MaxId
                  /\ counter' = counter + 1
                  /\ UNCHANGED <<fltid, seg>>

Wins(r) == fltid[line[r]] = 0

\* Mutant: SET in place of SETNX.
SetApplied(r) == /\ pc[r] = "setnx"
                 /\ fltid' = [fltid EXCEPT ![line[r]] = held[r]]
                 /\ UNCHANGED <<counter, seg>>

SetnxApplied(r) == /\ pc[r] = "setnx"
                   /\ fltid' = IF Wins(r) THEN [fltid EXCEPT ![line[r]] = held[r]]
                                          ELSE fltid
                   /\ UNCHANGED <<counter, seg>>

\* Mutant: segments go under the newest counter value.
SegUnderCounter(r) == /\ pc[r] = "seg"
                      /\ seg' = [seg EXCEPT ![counter] = @ \cup {<<line[r], sg[r]>>}]
                      /\ UNCHANGED <<counter, fltid>>

SegApplied(r) == /\ pc[r] = "seg"
                 /\ seg' = [seg EXCEPT ![held[r]] = @ \cup {<<line[r], sg[r]>>}]
                 /\ UNCHANGED <<counter, fltid>>
-----------------------------------------------------------------------------
(* One action per redis command. *)

\* The script reaches the next record of the posted document: it has
\* computed FlightLineID and seginf and is about to send the first GET.
Begin(r, l, s) == /\ pc[r] = "idle"
                  /\ Goto(r, "get")
                  /\ line' = [line EXCEPT ![r] = l]
                  /\ sg' = [sg EXCEPT ![r] = s]
                  /\ UNCHANGED <<store, held>>

\* Mutant: the reply is not looked at, every record allocates.
GetIdIgnored(r) == /\ pc[r] = "get"
                   /\ Goto(r, "incr")
                   /\ UNCHANGED <<store, line, sg, held>>

\* GET flt:<line>:id; tonumber of the reply is nil while the key is absent.
GetId(r) == /\ pc[r] = "get"
            /\ \/ /\ fltid[line[r]] = 0
                  /\ Goto(r, "incr")
                  /\ UNCHANGED held
               \/ /\ fltid[line[r]] # 0
                  /\ Goto(r, "ready")
                  /\ held' = [held EXCEPT ![r] = fltid[line[r]]]
            /\ UNCHANGED <<store, line, sg>>

\* INCR flt:id
IncrId(r) == /\ IncrApplied(r)
             /\ Goto(r, "setnx")
             /\ held' = [held EXCEPT ![r] = counter + 1]
             /\ UNCHANGED <<line, sg>>

\* Mutant: the result of SETNX is not looked at.
SetnxUnchecked(r) == /\ SetnxApplied(r)
                     /\ Goto(r, AfterAlloc(r))
                     /\ UNCHANGED <<line, sg, held>>

\* SETNX flt:<line>:id farecounter; the loser asks for the winner's id.
SetnxId(r) == /\ SetnxApplied(r)
              /\ Goto(r, IF Wins(r) THEN AfterAlloc(r) ELSE "winner")
              /\ UNCHANGED <<line, sg, held>>

\* Mutant: the loser goes on with its own counter value.
GetWinnerKeepsOwn(r) == /\ pc[r] = "winner"
                        /\ Goto(r, AfterAlloc(r))
                        /\ UNCHANGED <<store, line, sg, held>>

\* GET flt:<line>:id, by the loser of the SETNX.
GetWinner(r) == /\ pc[r] = "winner"
                /\ held' = [held EXCEPT ![r] = fltid[line[r]]]
                /\ Goto(r, AfterAlloc(r))
                /\ UNCHANGED <<store, line, sg>>

\* ZADD ow:<ORG>:<DST>; the index itself is a variable of OwStore.
Index(r) == /\ pc[r] = "zadd"
            /\ Goto(r, "seg")
            /\ UNCHANGED <<store, line, sg, held>>

\* HSET seg:<id> md5(segstr) segstr
StoreSeg(r) == /\ SegApplied(r)
               /\ Goto(r, "ready")
               /\ UNCHANGED <<line, sg, held>>

\* The caller has used the id (it stores a price under it) and is done with it.
Finish(r) == /\ pc[r] = "ready"
             /\ Drop(r)
             /\ UNCHANGED store

\* A command fails before redis runs it, and the script returns early with
\* error003; or the nginx worker dies between two commands.
Abort(r) == /\ pc[r] # "idle"
            /\ Drop(r)
            /\ UNCHANGED store

\* Redis runs a command but its reply is lost (the 3 s timeout): the script
\* returns early although the store has changed.
LostReply(r) == /\ IncrApplied(r) \/ SetnxApplied(r) \/ SegApplied(r)
                /\ Drop(r)
-----------------------------------------------------------------------------
Step(r) == \/ \E l \in Lines, s \in Segs : Begin(r, l, s)
           \/ GetId(r) \/ IncrId(r) \/ SetnxId(r) \/ GetWinner(r)
           \/ Index(r) \/ StoreSeg(r) \/ Finish(r)
           \/ Abort(r) \/ LostReply(r)

Next == \E r \in Reqs : Step(r)

Spec == Init /\ [][Next]_idVars
-----------------------------------------------------------------------------
(* Properties. *)

\* r saw no id for its line and has not yet finished giving it one.
AllocPath == {"incr", "setnx", "winner", "zadd", "seg"}
Allocating(l) == \E r \in Reqs : pc[r] \in AllocPath /\ line[r] = l

\* No two flight lines share an id, whatever the interleaving of INCR and
\* SETNX (ow/receiveprice.lua:175-194): a shared id would serve the prices of
\* one line as those of another.
UniqueIds == \A l, m \in Lines : fltid[l] = fltid[m] /\ fltid[l] # 0 => l = m

\* A request that goes on to write under an id (index, segments, price) holds
\* the id its line owns in redis, also when it lost the SETNX race and threw
\* its own counter value away (receiveprice.lua:190-194).
HeldIsOwn == \A r \in Reqs : pc[r] \in {"zadd", "seg", "ready"} =>
                held[r] # 0 /\ held[r] = fltid[line[r]]

\* Every segment list under seg:<id> was posted for the line that owns the id:
\* getseg.lua never answers one line with another line's segments.
SegOwned == \A i \in Ids : \A v \in seg[i] : fltid[v[1]] = i

\* Once a line has an id and the posts that did not see it are over, the
\* allocation is closed for good: nobody allocates for the line again and its
\* segments never change, so a seg: hash with two fields (503 of getseg.lua)
\* can only be made by posts racing over the line's very first record.
AllocationCloses ==
    [][\A l \in Lines : fltid[l] # 0 /\ ~Allocating(l) =>
          /\ fltid'[l] = fltid[l]
          /\ ~Allocating(l)'
          /\ seg'[fltid[l]] = seg[fltid[l]]]_idVars

\* The protocol implements the abstract registry: a line gets an id once and
\* ids are never shared or changed.
Registry == INSTANCE IdRegistry WITH Lines <- Lines, MaxId <- MaxId, fltid <- fltid
RegistrySpec == Registry!Spec
-----------------------------------------------------------------------------
(* The inductive invariant behind these properties. *)

\* A counter value on its way to SETNX belongs to no line and to one request.
Pending == \A r \in Reqs : pc[r] = "setnx" =>
              /\ held[r] \in 1..counter
              /\ \A l \in Lines : fltid[l] # held[r]
              /\ \A q \in Reqs : q # r /\ pc[q] = "setnx" => held[q] # held[r]

Below == \A l \in Lines : fltid[l] <= counter

LoserHasWinner == \A r \in Reqs : pc[r] = "winner" => fltid[line[r]] # 0

IInv == TypeOK /\ UniqueIds /\ HeldIsOwn /\ SegOwned /\ Pending /\ Below /\ LoserHasWinner
=============================================================================
