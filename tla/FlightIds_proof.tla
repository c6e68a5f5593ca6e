--------------------------- MODULE FlightIds_proof ---------------------------
(***************************************************************************)
(* Machine-checked proofs about FlightIds, for every number of requests,   *)
(* flight lines, segment lists and ids.                                    *)
(***************************************************************************)
EXTENDS FlightIds, TLAPS

\* The type invariant is inductive on its own.
LEMMA TypeInit == Init => TypeOK
  BY MaxIdIsNat DEF Init, TypeOK, PCs, Ids

\* HSET adds a well-typed value to one hash and keeps the others.
LEMMA SegTyped ==
  ASSUME TypeOK, NEW r \in Reqs, SegApplied(r)
  PROVE  seg' \in [Ids -> SUBSET (Lines \X Segs)]
<1>1. <<line[r], sg[r]>> \in Lines \X Segs
  BY DEF TypeOK, SegApplied
<1>2. ASSUME NEW i \in Ids PROVE seg'[i] \in SUBSET (Lines \X Segs)
  <2>1. seg[i] \in SUBSET (Lines \X Segs)
    BY DEF TypeOK
  <2>2. seg'[i] = IF i = held[r] THEN seg[i] \cup {<<line[r], sg[r]>>} ELSE seg[i]
    BY DEF TypeOK, SegApplied
  <2>3. QED
    BY <1>1, <2>1, <2>2
<1>3. seg' = [i \in Ids |-> seg'[i]]
  BY DEF TypeOK, SegApplied
<1>4. QED
  BY <1>2, <1>3

\* Every step keeps it.
LEMMA TypeStep == TypeOK /\ [Next]_idVars => TypeOK'
<1> SUFFICES ASSUME TypeOK, [Next]_idVars PROVE TypeOK'
  OBVIOUS
<1> USE MaxIdIsNat, NoneIsNew DEF TypeOK, PCs, Ids, store, Goto
<1>1. CASE UNCHANGED idVars
  BY <1>1 DEF idVars
<1>2. ASSUME NEW r \in Reqs, Step(r) PROVE TypeOK'
  <2>1. ASSUME NEW l \in Lines, NEW s \in Segs, Begin(r, l, s) PROVE TypeOK'
    BY <2>1 DEF Begin
  <2>2. CASE GetId(r)
    BY <2>2 DEF GetId
  <2>3. CASE IncrId(r)
    BY <2>3 DEF IncrId, IncrApplied
  <2>4. CASE SetnxId(r)
    BY <2>4 DEF SetnxId, SetnxApplied, Wins, AfterAlloc
  <2>5. CASE GetWinner(r)
    BY <2>5 DEF GetWinner, AfterAlloc
  <2>6. CASE Index(r)
    BY <2>6 DEF Index
  <2>7. CASE StoreSeg(r)
    <3>1. seg' \in [Ids -> SUBSET (Lines \X Segs)]
      BY <2>7, SegTyped DEF StoreSeg
    <3>2. QED
      BY <2>7, <3>1 DEF StoreSeg, SegApplied
  <2>8. CASE Finish(r)
    BY <2>8 DEF Finish, Drop
  <2>9. CASE Abort(r)
    BY <2>9 DEF Abort, Drop
  <2>10. CASE LostReply(r)
    <3>1. CASE IncrApplied(r)
      BY <2>10, <3>1 DEF LostReply, Drop, IncrApplied
    <3>2. CASE SetnxApplied(r)
      BY <2>10, <3>2 DEF LostReply, Drop, SetnxApplied, Wins
    <3>3. CASE SegApplied(r)
      <4>1. seg' \in [Ids -> SUBSET (Lines \X Segs)]
        BY <3>3, SegTyped
      <4>2. QED
        BY <2>10, <3>3, <4>1 DEF LostReply, Drop, SegApplied
    <3>4. QED
      BY <2>10, <3>1, <3>2, <3>3 DEF LostReply
  <2>11. QED
    BY <1>2, <2>1, <2>2, <2>3, <2>4, <2>5, <2>6, <2>7, <2>8, <2>9, <2>10 DEF Step
<1>3. QED
  BY <1>1, <1>2 DEF Next

\* The keys and the locals of every request stay in their types.
THEOREM TypeCorrect == Spec => []TypeOK
  BY TypeInit, TypeStep, PTL DEF Spec
-----------------------------------------------------------------------------
(* What each writing command does to the shared keys. *)

\* SETNX sets the key of one line, and only while it is absent.
LEMMA SetnxEffect ==
  ASSUME TypeOK, NEW r \in Reqs, SetnxApplied(r), NEW l \in Lines
  PROVE  fltid'[l] = IF l = line[r] /\ fltid[l] = 0 THEN held[r] ELSE fltid[l]
<1>1. line[r] \in Lines
  BY DEF TypeOK, SetnxApplied
<1>2. CASE Wins(r)
  BY <1>1, <1>2 DEF TypeOK, SetnxApplied, Wins
<1>3. CASE ~Wins(r)
  BY <1>3 DEF SetnxApplied, Wins
<1>4. QED
  BY <1>2, <1>3

\* A SETNX keeps the ids distinct, below the counter and owning their segments.
LEMMA SetnxKeeps ==
  ASSUME IInv, NEW r \in Reqs, SetnxApplied(r)
  PROVE  UniqueIds' /\ Below' /\ SegOwned'
<1>1. TypeOK /\ pc[r] = "setnx" /\ counter' = counter /\ seg' = seg
  BY DEF IInv, SetnxApplied
<1>2. held[r] \in 1..counter /\ \A l \in Lines : fltid[l] # held[r]
  BY <1>1 DEF IInv, Pending
<1>3. \A l \in Lines :
         fltid'[l] = IF l = line[r] /\ fltid[l] = 0 THEN held[r] ELSE fltid[l]
  BY <1>1, SetnxEffect
<1>4. UniqueIds'
  BY <1>2, <1>3 DEF UniqueIds, IInv
<1>5. Below'
  BY <1>1, <1>2, <1>3 DEF Below, IInv, TypeOK
<1>6. SegOwned'
  <2> SUFFICES ASSUME NEW i \in Ids, NEW v \in seg[i] PROVE fltid'[v[1]] = i
    BY <1>1 DEF SegOwned
  <2>1. v[1] \in Lines /\ fltid[v[1]] = i /\ i # 0
    BY <1>1 DEF IInv, SegOwned, TypeOK, Ids
  <2>2. QED
    BY <1>3, <2>1
<1>7. QED
  BY <1>4, <1>5, <1>6

\* An HSET of segments goes to the hash of the request's own line.
LEMMA SegKeeps ==
  ASSUME IInv, NEW r \in Reqs, SegApplied(r)
  PROVE  SegOwned'
<1>1. TypeOK /\ pc[r] = "seg" /\ fltid' = fltid
  BY DEF IInv, SegApplied
<1>2. held[r] # 0 /\ fltid[line[r]] = held[r]
  BY <1>1 DEF IInv, HeldIsOwn
<1> SUFFICES ASSUME NEW i \in Ids, NEW v \in seg'[i] PROVE fltid[v[1]] = i
  BY <1>1 DEF SegOwned
<1>3. seg'[i] = IF i = held[r] THEN seg[i] \cup {<<line[r], sg[r]>>} ELSE seg[i]
  BY <1>1 DEF SegApplied, TypeOK
<1>4. CASE v \in seg[i]
  BY <1>4 DEF IInv, SegOwned
<1>5. CASE v \notin seg[i]
  <2>1. i = held[r] /\ v = <<line[r], sg[r]>>
    BY <1>3, <1>5
  <2>2. QED
    BY <1>2, <2>1
<1>6. QED
  BY <1>4, <1>5

\* A step that leaves the keys alone keeps what is said of the keys only.
LEMMA StoreQuiet ==
  ASSUME IInv, UNCHANGED store
  PROVE  UniqueIds' /\ Below' /\ SegOwned'
BY DEF IInv, store, UniqueIds, Below, SegOwned

\* An id once given stays: the part every other request relies on.
KeepsIds == \A l \in Lines : fltid[l] # 0 => fltid'[l] = fltid[l]

\* SETNX never overwrites.
LEMMA SetnxKeepsIds ==
  ASSUME TypeOK, NEW r \in Reqs, SetnxApplied(r)
  PROVE  KeepsIds
BY SetnxEffect DEF KeepsIds

\* A request that stops holds nothing; the others still hold what they held.
LEMMA DropKeeps ==
  ASSUME IInv, NEW r \in Reqs, Drop(r), KeepsIds
  PROVE  HeldIsOwn' /\ LoserHasWinner'
<1>1. \A q \in Reqs : pc'[q] # "idle" =>
          q # r /\ pc'[q] = pc[q] /\ line'[q] = line[q] /\ held'[q] = held[q] /\ line[q] \in Lines
  BY DEF IInv, TypeOK, Drop, Goto
<1>2. HeldIsOwn'
  BY <1>1 DEF IInv, HeldIsOwn, KeepsIds
<1>3. LoserHasWinner'
  BY <1>1 DEF IInv, LoserHasWinner, KeepsIds
<1>4. QED
  BY <1>2, <1>3
\* No step changes an id that was given.
LEMMA StepKeepsIds ==
  ASSUME IInv, [Next]_idVars
  PROVE  KeepsIds
<1>1. CASE UNCHANGED idVars
  BY <1>1 DEF idVars, KeepsIds
<1>2. ASSUME NEW r \in Reqs, Step(r), SetnxApplied(r)
      PROVE  KeepsIds
  BY <1>2, SetnxKeepsIds DEF IInv
<1>3. ASSUME NEW r \in Reqs, Step(r), ~SetnxApplied(r)
      PROVE  KeepsIds
  <2>1. fltid' = fltid
    BY <1>3 DEF Step, Begin, GetId, IncrId, IncrApplied, SetnxId, GetWinner, Index,
       StoreSeg, SegApplied, Finish, Abort, LostReply, store
  <2>2. QED
    BY <2>1 DEF KeepsIds
<1>4. QED
  BY <1>1, <1>2, <1>3 DEF Next

\* The other requests stay where they are.
LEMMA OthersStay ==
  ASSUME TypeOK, NEW r \in Reqs, Step(r), NEW q \in Reqs, q # r
  PROVE  pc'[q] = pc[q] /\ line'[q] = line[q]
BY DEF Step, Begin, GetId, IncrId, SetnxId, GetWinner, Index, StoreSeg, Finish, Abort,
   LostReply, Drop, Goto, TypeOK
-----------------------------------------------------------------------------
(* The strengthened invariant. *)

\* With no key set and no request under way every part holds.
LEMMA IInvInit == Init => IInv
<1> SUFFICES ASSUME Init PROVE IInv
  OBVIOUS
<1>1. TypeOK
  BY TypeInit
<1>2. UniqueIds /\ Below /\ SegOwned
  BY DEF Init, UniqueIds, Below, SegOwned
<1>3. HeldIsOwn /\ Pending /\ LoserHasWinner
  BY DEF Init, HeldIsOwn, Pending, LoserHasWinner
<1>4. QED
  BY <1>1, <1>2, <1>3 DEF IInv

\* A step of one request keeps it.
LEMMA IInvStep == IInv /\ [Next]_idVars => IInv'
<1> SUFFICES ASSUME IInv, [Next]_idVars PROVE IInv'
  OBVIOUS
<1>1. TypeOK /\ TypeOK'
  BY TypeStep DEF IInv
<1>2. CASE UNCHANGED idVars
  BY <1>1, <1>2 DEF idVars, IInv, UniqueIds, HeldIsOwn, SegOwned, Pending, Below, LoserHasWinner
<1>3. ASSUME NEW r \in Reqs, Step(r) PROVE IInv'
  <2>1. ASSUME NEW l \in Lines, NEW s \in Segs, Begin(r, l, s) PROVE IInv'
    <3>1. UniqueIds' /\ Below' /\ SegOwned'
      BY <2>1, StoreQuiet DEF Begin
    <3>2. HeldIsOwn'
      BY <1>1, <2>1 DEF Begin, Goto, store, IInv, HeldIsOwn, TypeOK
    <3>3. Pending'
      BY <1>1, <2>1 DEF Begin, Goto, store, IInv, Pending, TypeOK
    <3>4. LoserHasWinner'
      BY <1>1, <2>1 DEF Begin, Goto, store, IInv, LoserHasWinner, TypeOK
    <3>5. QED
      BY <1>1, <3>1, <3>2, <3>3, <3>4 DEF IInv
  <2>2. CASE GetId(r)
    <3>1. UniqueIds' /\ Below' /\ SegOwned'
      BY <2>2, StoreQuiet DEF GetId
    <3>2. HeldIsOwn'
      BY <1>1, <2>2 DEF GetId, Goto, store, IInv, HeldIsOwn, TypeOK
    <3>3. Pending'
      BY <1>1, <2>2 DEF GetId, Goto, store, IInv, Pending, TypeOK
    <3>4. LoserHasWinner'
      BY <1>1, <2>2 DEF GetId, Goto, store, IInv, LoserHasWinner, TypeOK
    <3>5. QED
      BY <1>1, <3>1, <3>2, <3>3, <3>4 DEF IInv
  <2>3. CASE IncrId(r)
    <3>1. UniqueIds' /\ Below' /\ SegOwned'
      BY <2>3, <1>1 DEF IncrId, IncrApplied, IInv, UniqueIds, Below, SegOwned, TypeOK
    <3>2. HeldIsOwn'
      BY <1>1, <2>3 DEF IncrId, IncrApplied, Goto, store, IInv, HeldIsOwn, TypeOK
    <3>3. Pending'
      <4> SUFFICES ASSUME NEW q \in Reqs, pc'[q] = "setnx"
                   PROVE  /\ held'[q] \in 1..counter'
                          /\ \A l \in Lines : fltid[l] # held'[q]
                          /\ \A p \in Reqs : p # q /\ pc'[p] = "setnx" => held'[p] # held'[q]
        BY <2>3 DEF IncrId, IncrApplied, Pending
      <4>1. counter \in Nat /\ counter' = counter + 1 /\ held'[r] = counter + 1
        BY <1>1, <2>3 DEF IncrId, IncrApplied, TypeOK
      <4>2. \A p \in Reqs : pc'[p] = "setnx" /\ p # r =>
               pc[p] = "setnx" /\ held'[p] = held[p] /\ held[p] \in 1..counter
        BY <1>1, <2>3 DEF IncrId, Goto, IInv, Pending, TypeOK
      <4>3. \A l \in Lines : fltid[l] \in Nat /\ fltid[l] <= counter
        BY <1>1 DEF IInv, Below, TypeOK
      <4>4. CASE q = r
        BY <4>1, <4>2, <4>3, <4>4
      <4>5. CASE q # r
        <5>1. \A l \in Lines : fltid[l] # held[q]
          BY <4>2, <4>5 DEF IInv, Pending
        <5>2. \A p \in Reqs : p # q /\ p # r /\ pc'[p] = "setnx" => held[p] # held[q]
          BY <4>2, <4>5 DEF IInv, Pending
        <5>3. QED
          BY <4>1, <4>2, <4>5, <5>1, <5>2
      <4>6. QED
        BY <4>4, <4>5
    <3>4. LoserHasWinner'
      BY <1>1, <2>3 DEF IncrId, IncrApplied, Goto, store, IInv, LoserHasWinner, TypeOK
    <3>5. QED
      BY <1>1, <3>1, <3>2, <3>3, <3>4 DEF IInv
  <2>4. CASE SetnxId(r)
    <3>1. UniqueIds' /\ Below' /\ SegOwned'
      BY <2>4, SetnxKeeps DEF SetnxId
    <3>2. KeepsIds
      BY <1>1, <2>4, SetnxKeepsIds DEF SetnxId
    <3>3. fltid'[line[r]] = IF fltid[line[r]] = 0 THEN held[r] ELSE fltid[line[r]]
      BY <1>1, <2>4, SetnxEffect DEF SetnxId, SetnxApplied, TypeOK
    <3>4. HeldIsOwn'
      <4> SUFFICES ASSUME NEW q \in Reqs, pc'[q] \in {"zadd", "seg", "ready"}
                   PROVE  held[q] # 0 /\ held[q] = fltid'[line[q]]
        BY <2>4 DEF SetnxId, HeldIsOwn
      <4>1. CASE q = r
        <5>1. Wins(r)
          BY <1>1, <2>4, <4>1 DEF SetnxId, Goto, TypeOK
        <5>2. held[r] # 0
          BY <2>4 DEF SetnxId, SetnxApplied, IInv, Pending
        <5>3. QED
          BY <3>3, <4>1, <5>1, <5>2 DEF Wins
      <4>2. CASE q # r
        <5>1. pc[q] = pc'[q]
          BY <1>1, <2>4, <4>2 DEF SetnxId, Goto, TypeOK
        <5>2. line[q] \in Lines
          BY <1>1, <5>1 DEF TypeOK
        <5>3. QED
          BY <3>2, <5>1, <5>2 DEF IInv, HeldIsOwn, KeepsIds
      <4>3. QED
        BY <4>1, <4>2
    <3>5. Pending'
      <4> SUFFICES ASSUME NEW q \in Reqs, pc'[q] = "setnx"
                   PROVE  /\ held[q] \in 1..counter
                          /\ \A l \in Lines : fltid'[l] # held[q]
                          /\ \A p \in Reqs : p # q /\ pc'[p] = "setnx" => held[p] # held[q]
        BY <2>4 DEF SetnxId, SetnxApplied, Pending
      <4>1. q # r /\ pc[q] = "setnx" /\ pc[r] = "setnx"
        BY <1>1, <2>4 DEF SetnxId, SetnxApplied, Goto, TypeOK, AfterAlloc
      <4>2. held[q] \in 1..counter /\ held[q] # held[r] /\ \A l \in Lines : fltid[l] # held[q]
        BY <4>1 DEF IInv, Pending
      <4>3. \A l \in Lines : fltid'[l] # held[q]
        BY <1>1, <2>4, <4>2, SetnxEffect DEF SetnxId
      <4>4. \A p \in Reqs : pc'[p] = "setnx" => pc[p] = "setnx"
        BY <1>1, <2>4 DEF SetnxId, SetnxApplied, Goto, TypeOK
      <4>5. QED
        BY <4>1, <4>2, <4>3, <4>4 DEF IInv, Pending
    <3>6. LoserHasWinner'
      <4> SUFFICES ASSUME NEW q \in Reqs, pc'[q] = "winner" PROVE fltid'[line[q]] # 0
        BY <2>4 DEF SetnxId, LoserHasWinner
      <4>1. CASE q = r
        <5>1. ~Wins(r)
          BY <1>1, <2>4, <4>1 DEF SetnxId, Goto, TypeOK, AfterAlloc
        <5>2. QED
          BY <3>3, <4>1, <5>1 DEF Wins
      <4>2. CASE q # r
        BY <1>1, <2>4, <3>2, <4>2 DEF SetnxId, Goto, TypeOK, IInv, LoserHasWinner, KeepsIds
      <4>3. QED
        BY <4>1, <4>2
    <3>7. QED
      BY <1>1, <3>1, <3>4, <3>5, <3>6 DEF IInv
  <2>5. CASE GetWinner(r)
    <3>1. UniqueIds' /\ Below' /\ SegOwned'
      BY <2>5, StoreQuiet DEF GetWinner
    <3>2. HeldIsOwn'
      <4>1. fltid[line[r]] # 0
        BY <2>5 DEF GetWinner, IInv, LoserHasWinner
      <4>2. QED
        BY <1>1, <2>5, <4>1 DEF GetWinner, Goto, store, IInv, HeldIsOwn, TypeOK
    <3>3. Pending'
      BY <1>1, <2>5 DEF GetWinner, AfterAlloc, Goto, store, IInv, Pending, TypeOK
    <3>4. LoserHasWinner'
      BY <1>1, <2>5 DEF GetWinner, AfterAlloc, Goto, store, IInv, LoserHasWinner, TypeOK
    <3>5. QED
      BY <1>1, <3>1, <3>2, <3>3, <3>4 DEF IInv
  <2>6. CASE Index(r)
    <3>1. UniqueIds' /\ Below' /\ SegOwned'
      BY <2>6, StoreQuiet DEF Index
    <3>2. HeldIsOwn'
      BY <1>1, <2>6 DEF Index, Goto, store, IInv, HeldIsOwn, TypeOK
    <3>3. Pending'
      BY <1>1, <2>6 DEF Index, Goto, store, IInv, Pending, TypeOK
    <3>4. LoserHasWinner'
      BY <1>1, <2>6 DEF Index, Goto, store, IInv, LoserHasWinner, TypeOK
    <3>5. QED
      BY <1>1, <3>1, <3>2, <3>3, <3>4 DEF IInv
  <2>7. CASE StoreSeg(r)
    <3>1. UniqueIds' /\ Below' /\ SegOwned'
      BY <2>7, SegKeeps DEF StoreSeg, SegApplied, IInv, UniqueIds, Below
    <3>2. HeldIsOwn'
      BY <1>1, <2>7 DEF StoreSeg, SegApplied, Goto, store, IInv, HeldIsOwn, TypeOK
    <3>3. Pending'
      BY <1>1, <2>7 DEF StoreSeg, SegApplied, Goto, store, IInv, Pending, TypeOK
    <3>4. LoserHasWinner'
      BY <1>1, <2>7 DEF StoreSeg, SegApplied, Goto, store, IInv, LoserHasWinner, TypeOK
    <3>5. QED
      BY <1>1, <3>1, <3>2, <3>3, <3>4 DEF IInv
  <2>8. CASE Finish(r)
    <3>1. UniqueIds' /\ Below' /\ SegOwned'
      BY <2>8, StoreQuiet DEF Finish
    <3>2. HeldIsOwn' /\ LoserHasWinner'
      BY <2>8, DropKeeps DEF Finish, KeepsIds, store
    <3>3. Pending'
      BY <1>1, <2>8 DEF Finish, Drop, Goto, store, IInv, Pending, TypeOK
    <3>4. QED
      BY <1>1, <3>1, <3>2, <3>3 DEF IInv
  <2>9. CASE Abort(r)
    <3>1. UniqueIds' /\ Below' /\ SegOwned'
      BY <2>9, StoreQuiet DEF Abort
    <3>2. HeldIsOwn' /\ LoserHasWinner'
      BY <2>9, DropKeeps DEF Abort, KeepsIds, store
    <3>3. Pending'
      BY <1>1, <2>9 DEF Abort, Drop, Goto, store, IInv, Pending, TypeOK
    <3>4. QED
      BY <1>1, <3>1, <3>2, <3>3 DEF IInv
  <2>10. CASE LostReply(r)
    <3>1. CASE IncrApplied(r) /\ Drop(r)
      <4>1. UniqueIds' /\ Below' /\ SegOwned'
        BY <1>1, <3>1 DEF IncrApplied, IInv, UniqueIds, Below, SegOwned, TypeOK
      <4>2. HeldIsOwn' /\ LoserHasWinner'
        BY <3>1, DropKeeps DEF IncrApplied, KeepsIds
      <4>3. Pending'
        BY <1>1, <3>1 DEF IncrApplied, Drop, Goto, IInv, Pending, TypeOK
      <4>4. QED
        BY <1>1, <4>1, <4>2, <4>3 DEF IInv
    <3>2. CASE SetnxApplied(r) /\ Drop(r)
      <4>1. UniqueIds' /\ Below' /\ SegOwned'
        BY <3>2, SetnxKeeps
      <4>2. HeldIsOwn' /\ LoserHasWinner'
        BY <1>1, <3>2, DropKeeps, SetnxKeepsIds
      <4>3. Pending'
        <5> SUFFICES ASSUME NEW q \in Reqs, pc'[q] = "setnx"
                     PROVE  /\ held'[q] \in 1..counter
                            /\ \A l \in Lines : fltid'[l] # held'[q]
                            /\ \A p \in Reqs : p # q /\ pc'[p] = "setnx" => held'[p] # held'[q]
          BY <3>2 DEF SetnxApplied, Pending
        <5>1. \A p \in Reqs : pc'[p] = "setnx" => p # r /\ pc[p] = "setnx" /\ held'[p] = held[p]
          BY <1>1, <3>2 DEF Drop, Goto, TypeOK
        <5>2. held[q] \in 1..counter /\ held[q] # held[r] /\ \A l \in Lines : fltid[l] # held[q]
          BY <3>2, <5>1 DEF SetnxApplied, IInv, Pending
        <5>3. \A l \in Lines : fltid'[l] # held[q]
          BY <1>1, <3>2, <5>2, SetnxEffect
        <5>4. QED
          BY <5>1, <5>2, <5>3 DEF IInv, Pending
      <4>4. QED
        BY <1>1, <4>1, <4>2, <4>3 DEF IInv
    <3>3. CASE SegApplied(r) /\ Drop(r)
      <4>1. UniqueIds' /\ Below' /\ SegOwned'
        BY <3>3, SegKeeps DEF SegApplied, IInv, UniqueIds, Below
      <4>2. HeldIsOwn' /\ LoserHasWinner'
        BY <3>3, DropKeeps DEF SegApplied, KeepsIds
      <4>3. Pending'
        BY <1>1, <3>3 DEF SegApplied, Drop, Goto, IInv, Pending, TypeOK
      <4>4. QED
        BY <1>1, <4>1, <4>2, <4>3 DEF IInv
    <3>4. QED
      BY <2>10, <3>1, <3>2, <3>3 DEF LostReply
  <2>11. QED
    BY <1>3, <2>1, <2>2, <2>3, <2>4, <2>5, <2>6, <2>7, <2>8, <2>9, <2>10 DEF Step
<1>4. QED
  BY <1>2, <1>3 DEF Next

\* The strengthened invariant holds in every reachable state: a counter value on
\* its way to SETNX is unused and unshared, and ids stay below the counter.
THEOREM Inductive == Spec => []IInv
  BY IInvInit, IInvStep, PTL DEF Spec
-----------------------------------------------------------------------------
(* The safety properties and the refinement. *)

\* No two flight lines ever share an id (ow/receiveprice.lua:175-194).
THEOREM IdsUnique == Spec => []UniqueIds
<1>1. IInv => UniqueIds
  BY DEF IInv
<1>2. QED
  BY <1>1, Inductive, PTL

\* Every write under an id is a write under the id of the request's own line,
\* for the winner and the loser of the SETNX alike (receiveprice.lua:190-194).
THEOREM WritesOwnId == Spec => []HeldIsOwn
<1>1. IInv => HeldIsOwn
  BY DEF IInv
<1>2. QED
  BY <1>1, Inductive, PTL

\* seg:<id> only ever holds segment lists of the line that owns the id
\* (ow/receiveprice.lua:204, rt/receiveprice.lua:83).
THEOREM SegmentsOwned == Spec => []SegOwned
<1>1. IInv => SegOwned
  BY DEF IInv
<1>2. QED
  BY <1>1, Inductive, PTL

\* A SETNX that is won registers an unused id; one that is lost stutters.
LEMMA SetnxRegisters ==
  ASSUME IInv, NEW r \in Reqs, SetnxApplied(r)
  PROVE  [Registry!Next]_fltid
<1>1. TypeOK /\ line[r] \in Lines /\ counter \in 0..MaxId
  BY DEF IInv, TypeOK, SetnxApplied
<1>2. held[r] \in 1..MaxId /\ \A l \in Lines : fltid[l] # held[r]
  <2>1. held[r] \in 1..counter /\ \A l \in Lines : fltid[l] # held[r]
    BY DEF IInv, Pending, SetnxApplied
  <2>2. QED
    BY <1>1, <2>1, MaxIdIsNat
<1>3. CASE Wins(r)
  <2>1. Registry!Register(line[r], held[r])
    BY <1>1, <1>2, <1>3 DEF Registry!Register, Registry!Unused, SetnxApplied, Wins
  <2>2. QED
    BY <1>1, <1>2, <2>1 DEF Registry!Next
<1>4. CASE ~Wins(r)
  BY <1>4 DEF SetnxApplied
<1>5. QED
  BY <1>3, <1>4

\* The INCR / SETNX / GET protocol implements the registry: ids are given once,
\* never changed and never shared.
THEOREM ImplementsRegistry == Spec => RegistrySpec
<1>1. Init => Registry!Init
  BY DEF Init, Registry!Init
<1>2. IInv /\ [Next]_idVars => [Registry!Next]_fltid
  <2> SUFFICES ASSUME IInv, [Next]_idVars PROVE [Registry!Next]_fltid
    OBVIOUS
  <2>1. CASE UNCHANGED idVars
    BY <2>1 DEF idVars
  <2>2. ASSUME NEW r \in Reqs, Step(r) PROVE [Registry!Next]_fltid
    <3>1. CASE SetnxId(r)
      BY <3>1, SetnxRegisters DEF SetnxId
    <3>2. CASE LostReply(r)
      BY <3>2, SetnxRegisters DEF LostReply, IncrApplied, SegApplied
    <3>3. CASE ~SetnxId(r) /\ ~LostReply(r)
      BY <2>2, <3>3 DEF Step, Begin, GetId, IncrId, IncrApplied, GetWinner, Index,
         StoreSeg, SegApplied, Finish, Abort, store
    <3>4. QED
      BY <3>1, <3>2, <3>3
  <2>3. QED
    BY <2>1, <2>2 DEF Next
<1>3. QED
  BY <1>1, <1>2, Inductive, PTL DEF Spec, RegistrySpec, Registry!Spec

\* Once every post that saw no id is over, nobody allocates for the line again
\* and its segments never change.
THEOREM AllocationClosesForGood == Spec => AllocationCloses
<1>1. IInv /\ [Next]_idVars =>
        [\A l \in Lines : fltid[l] # 0 /\ ~Allocating(l) =>
           /\ fltid'[l] = fltid[l]
           /\ ~Allocating(l)'
           /\ seg'[fltid[l]] = seg[fltid[l]]]_idVars
  <2> SUFFICES ASSUME IInv, NEW r \in Reqs, Step(r),
                      NEW l \in Lines, fltid[l] # 0, ~Allocating(l)
               PROVE  /\ fltid'[l] = fltid[l]
                      /\ ~Allocating(l)'
                      /\ seg'[fltid[l]] = seg[fltid[l]]
    BY DEF Next
  <2>1. TypeOK /\ TypeOK'
    <3>1. [Next]_idVars
      BY DEF Next
    <3>2. QED
      BY <3>1, TypeStep DEF IInv
  <2>2. \A q \in Reqs : pc[q] \in AllocPath => line[q] # l
    BY DEF Allocating
  <2>3. fltid'[l] = fltid[l]
    <3>1. CASE SetnxApplied(r)
      BY <2>1, <3>1, SetnxEffect
    <3>2. CASE ~SetnxApplied(r)
      BY <3>2 DEF Step, Begin, GetId, IncrId, IncrApplied, SetnxId, GetWinner, Index,
         StoreSeg, SegApplied, Finish, Abort, LostReply, store
    <3>3. QED
      BY <3>1, <3>2
  <2>4. seg'[fltid[l]] = seg[fltid[l]]
    <3>1. CASE SegApplied(r)
      <4>1. line[r] # l /\ line[r] \in Lines /\ held[r] = fltid[line[r]] /\ held[r] # 0
        BY <2>1, <2>2, <3>1 DEF SegApplied, AllocPath, IInv, HeldIsOwn, TypeOK
      <4>2. held[r] # fltid[l]
        BY <4>1 DEF IInv, UniqueIds
      <4>3. fltid[l] \in Ids
        BY <2>1, MaxIdIsNat DEF TypeOK, Ids
      <4>4. QED
        BY <2>1, <3>1, <4>2, <4>3 DEF SegApplied, TypeOK
    <3>2. CASE ~SegApplied(r)
      BY <3>2 DEF Step, Begin, GetId, IncrId, IncrApplied, SetnxId, SetnxApplied, GetWinner,
         Index, StoreSeg, Finish, Abort, LostReply, store
    <3>3. QED
      BY <3>1, <3>2
  <2>5. ~Allocating(l)'
    <3> SUFFICES ASSUME NEW q \in Reqs, pc'[q] \in AllocPath, line'[q] = l PROVE FALSE
      BY DEF Allocating
    <3>1. CASE q # r
      <4>1. pc'[q] = pc[q] /\ line'[q] = line[q]
        BY <2>1, <3>1 DEF Step, Begin, GetId, IncrId, SetnxId, GetWinner, Index,
           StoreSeg, Finish, Abort, LostReply, Drop, Goto, TypeOK
      <4>2. QED
        BY <2>2, <4>1
    <3>2. CASE q = r
      <4>1. ~GetId(r)
        BY <2>1, <3>2 DEF GetId, Goto, AllocPath, TypeOK
      <4>2. pc[r] \in AllocPath /\ line'[r] = line[r]
        BY <2>1, <3>2, <4>1 DEF Step, Begin, IncrId, IncrApplied, SetnxId, SetnxApplied,
           GetWinner, Index, StoreSeg, SegApplied, Finish, Abort, LostReply, Drop, Goto,
           TypeOK, AllocPath
      <4>3. QED
        BY <2>2, <3>2, <4>2
    <3>3. QED
      BY <3>1, <3>2
  <2>6. QED
    BY <2>3, <2>4, <2>5
<1>2. QED
  BY <1>1, Inductive, PTL DEF Spec, AllocationCloses
=============================================================================
