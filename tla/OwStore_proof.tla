---------------------------- MODULE OwStore_proof ----------------------------
(***************************************************************************)
(* Proofs about OwStore, for every set of requests, lines, segment lists   *)
(* and dates.  Its steps are steps of FlightIds, whose theorems carry over. *)
(***************************************************************************)
EXTENDS OwStore, FlightIds_proof, FiniteSetTheorems, SequenceTheorems

\* Every step of the store is a step of the id protocol, or leaves it alone.
LEMMA OwStepIsStep == [OwNext]_owVars => [Next]_idVars
<1> SUFFICES ASSUME [OwNext]_owVars PROVE [Next]_idVars
  OBVIOUS
<1>1. CASE UNCHANGED owVars
  BY <1>1 DEF owVars
<1>2. ASSUME NEW r \in OwReqs, NEW l \in Lines, NEW s \in Segs, NEW d \in Dates,
             OwBegin(r, l, s, d)
      PROVE  Next
  BY <1>2 DEF OwBegin, Next, Step, Reqs
<1>3. ASSUME NEW r \in RtReqs, NEW l \in Lines, NEW s \in Segs, RtBegin(r, l, s)
      PROVE  Next
  BY <1>3 DEF RtBegin, Next, Step, Reqs
<1>4. ASSUME NEW r \in Reqs, Settle(r) \/ IdStep(r) \/ OwIndex(r) \/ OwPrice(r) \/ RtReady(r)
      PROVE  Next
  BY <1>4 DEF Settle, IdStep, OwIndex, OwPrice, RtReady, Next, Step
<1>5. ASSUME NEW r \in Reqs, OwAbort(r) \/ OwLostReply(r)
      PROVE  Next
  BY <1>5 DEF OwAbort, OwLostReply, Next, Step
<1>6. ASSUME NEW g \in Gets, (\E d \in Dates : GetBegin(g, d)) \/ GetProgress(g)
      PROVE  UNCHANGED idVars
  BY <1>6 DEF GetBegin, GetProgress, GetKayak, GetIndex, GetPrice, GetAnswer, GetEnd
<1>7. QED
  BY <1>1, <1>2, <1>3, <1>4, <1>5, <1>6 DEF OwNext, OwProgress, RtProgress, Reqs

\* The one-way store implements the id protocol: all that FlightIds proves of ids
\* and segments holds while the store runs on top of it.
THEOREM OwImplementsIds == OwSpec => Spec
<1>1. OwInit => Init
  BY DEF OwInit
<1>2. QED
  BY <1>1, OwStepIsStep, PTL DEF OwSpec, Spec
-----------------------------------------------------------------------------
(* Index and prices. *)

\* The part of the invariant that says whose the index entries and prices are.
Owned == /\ owidx \subseteq Ids
         /\ pri \in [Ids -> [Dates -> Lines \cup {None}]]
         /\ PricesOwned

\* What is owned stays owned while ids do not change.
LEMMA QuietOwned ==
  ASSUME Owned, KeepsIds, UNCHANGED owKeys
  PROVE  Owned'
<1>1. owidx' = owidx /\ pri' = pri
  BY DEF owKeys
<1>2. ASSUME NEW i \in Ids, NEW d \in Dates, pri[i][d] # None
      PROVE  fltid'[pri[i][d]] = i
  BY <1>2, MaxIdIsNat DEF Owned, PricesOwned, KeepsIds, Ids
<1>3. ASSUME NEW i \in owidx
      PROVE  \E l \in Lines : fltid'[l] = i
  <2>1. PICK l \in Lines : fltid[l] = i
    BY DEF Owned, PricesOwned
  <2>2. i # 0
    BY MaxIdIsNat DEF Owned, Ids
  <2>3. QED
    BY <2>1, <2>2 DEF KeepsIds
<1>4. QED
  BY <1>1, <1>2, <1>3 DEF Owned, PricesOwned

\* An index entry goes in under the id of the request's own line.
LEMMA IndexOwned ==
  ASSUME IInv, Owned, NEW r \in Reqs, pc[r] = "zadd",
         owidx' = owidx \cup {held[r]}, pri' = pri, fltid' = fltid
  PROVE  Owned'
<1>1. line[r] \in Lines /\ held[r] \in Ids /\ fltid[line[r]] = held[r]
  BY MaxIdIsNat DEF IInv, TypeOK, HeldIsOwn, Ids
<1>2. QED
  BY <1>1 DEF Owned, PricesOwned

\* A price goes in under the id of the request's own line.
LEMMA PriceOwned ==
  ASSUME IInv, Owned, NEW r \in OwReqs, OwPrice(r)
  PROVE  Owned'
<1>1. /\ r \in Reqs /\ pc[r] = "ready" /\ fltid' = fltid /\ owidx' = owidx
      /\ pri' = [pri EXCEPT ![held[r]][date[r]] = line[r]]
  BY DEF OwPrice, Finish, store, Reqs
<1>2. line[r] \in Lines /\ held[r] \in Ids /\ fltid[line[r]] = held[r]
  BY <1>1, MaxIdIsNat DEF IInv, TypeOK, HeldIsOwn, Ids
<1>3. pri' \in [Ids -> [Dates -> Lines \cup {None}]]
  BY <1>1, <1>2 DEF Owned
<1>4. ASSUME NEW i \in Ids, NEW d \in Dates, pri'[i][d] # None
      PROVE  fltid[pri'[i][d]] = i
  <2>1. pri'[i][d] = IF i = held[r] /\ d = date[r] THEN line[r] ELSE pri[i][d]
    BY <1>1, <1>2 DEF Owned
  <2>2. QED
    BY <1>2, <1>4, <2>1 DEF Owned, PricesOwned
<1>5. QED
  BY <1>1, <1>3, <1>4 DEF Owned, PricesOwned

\* Every step keeps index entries and prices with the owner of the id.
LEMMA OwnedStep ==
  ASSUME IInv, Owned, [OwNext]_owVars
  PROVE  Owned'
<1>1. KeepsIds
  BY OwStepIsStep, StepKeepsIds
<1>2. CASE UNCHANGED owKeys
  BY <1>1, <1>2, QuietOwned
<1>3. ASSUME NEW r \in OwReqs, OwPrice(r)
      PROVE  Owned'
  BY <1>3, PriceOwned
<1>4. ASSUME NEW r \in Reqs, OwIndex(r)
      PROVE  Owned'
  BY <1>4, IndexOwned DEF OwIndex, Index, store
<1>5. ASSUME NEW r \in Reqs, OwLostReply(r), ~UNCHANGED owKeys
      PROVE  Owned'
  <2>1. pc[r] = "zadd" /\ fltid' = fltid /\ owidx' = owidx \cup {held[r]} /\ pri' = pri
    BY <1>5 DEF OwLostReply, Abort, store, owKeys
  <2>2. QED
    BY <2>1, IndexOwned
<1>6. ASSUME NEW r \in Reqs, Settle(r) \/ IdStep(r) \/ RtReady(r) \/ OwAbort(r)
      PROVE  UNCHANGED owKeys
  BY <1>6 DEF Settle, IdStep, RtReady, OwAbort
<1>7. ASSUME NEW g \in Gets, (\E d \in Dates : GetBegin(g, d)) \/ GetProgress(g)
      PROVE  UNCHANGED owKeys
  BY <1>7 DEF GetBegin, GetProgress, GetKayak, GetIndex, GetPrice, GetAnswer, GetEnd
<1>8. UNCHANGED owVars => UNCHANGED owKeys
  BY DEF owVars
<1>9. ASSUME NEW r \in Reqs, NEW l \in Lines, NEW s \in Segs,
             RtBegin(r, l, s) \/ \E d \in Dates : OwBegin(r, l, s, d)
      PROVE  UNCHANGED owKeys
  BY <1>9 DEF RtBegin, OwBegin
<1>10. QED
  BY <1>2, <1>3, <1>4, <1>5, <1>6, <1>7, <1>8, <1>9 DEF OwNext, OwProgress, RtProgress, Reqs
-----------------------------------------------------------------------------
(* Lines that are not in the index. *)

\* What explains that line l, which has an id, is not found by searches.
Explained(l) == \/ fltid[l] \in owidx
                \/ \E r \in OwReqs : pc[r] = "zadd" /\ line[r] = l
                \/ l \in orphaned

\* A SETNX makes a line known; its winner goes on to the ZADD or is a round-trip post.
LEMMA SettleExplains ==
  ASSUME IInv, IndexedOrExplained, NEW r \in Reqs, Settle(r), NEW l \in Lines, fltid'[l] # 0
  PROVE  Explained(l)'
<1>1. /\ TypeOK /\ pc[r] = "setnx" /\ SetnxApplied(r) /\ Step(r) /\ owidx' = owidx
      /\ orphaned \subseteq orphaned'
  BY DEF IInv, Settle, SetnxId, SetnxApplied, Step, owKeys
<1>2. fltid'[l] = IF l = line[r] /\ fltid[l] = 0 THEN held[r] ELSE fltid[l]
  BY <1>1, SetnxEffect
<1>3. CASE fltid[l] = 0
  <2>1. l = line[r] /\ Wins(r)
    BY <1>2, <1>3 DEF Wins
  <2>2. CASE r \in RtReqs
    BY <2>1, <2>2 DEF Settle, Explained
  <2>3. CASE r \in OwReqs
    <3>1. pc'[r] = "zadd" /\ line'[r] = l
      BY <1>1, <2>1, <2>3 DEF Settle, SetnxId, Goto, AfterAlloc, TypeOK
    <3>2. QED
      BY <2>3, <3>1 DEF Explained
  <2>4. QED
    BY <2>2, <2>3 DEF Reqs
<1>4. CASE fltid[l] # 0
  <2>1. fltid'[l] = fltid[l]
    BY <1>2, <1>4
  <2>2. ASSUME NEW q \in OwReqs, pc[q] = "zadd", line[q] = l
        PROVE  pc'[q] = "zadd" /\ line'[q] = l
    BY <1>1, <2>2, OthersStay DEF Reqs
  <2>3. QED
    BY <1>1, <1>4, <2>1, <2>2 DEF IndexedOrExplained, Explained
<1>5. QED
  BY <1>3, <1>4

\* Apart from a SETNX, an explanation is lost only at the ZADD, which indexes the
\* line or leaves it orphaned.
LEMMA StaysExplained ==
  ASSUME IInv, IndexedOrExplained, NEW r \in Reqs, Step(r), fltid' = fltid,
         owidx \subseteq owidx', orphaned \subseteq orphaned',
         pc[r] = "zadd" => held[r] \in owidx' \/ line[r] \in orphaned',
         NEW l \in Lines, fltid'[l] # 0
  PROVE  Explained(l)'
<1>1. ASSUME NEW q \in OwReqs, pc[q] = "zadd", line[q] = l
      PROVE  Explained(l)'
  <2>1. CASE q = r
    <3>1. held[r] = fltid[l]
      BY <1>1, <2>1 DEF IInv, HeldIsOwn
    <3>2. QED
      BY <1>1, <2>1, <3>1 DEF Explained
  <2>2. CASE q # r
    <3>1. pc'[q] = "zadd" /\ line'[q] = l
      BY <1>1, <2>2, OthersStay DEF Reqs, IInv
    <3>2. QED
      BY <3>1 DEF Explained
  <2>3. QED
    BY <2>1, <2>2
<1>2. QED
  BY <1>1 DEF IndexedOrExplained, Explained

\* Every step keeps every line with an id indexed or explained.
LEMMA ExplainedStep ==
  ASSUME IInv, IndexedOrExplained, [OwNext]_owVars
  PROVE  IndexedOrExplained'
<1> SUFFICES ASSUME NEW l \in Lines, fltid'[l] # 0 PROVE Explained(l)'
  BY DEF IndexedOrExplained, Explained
<1>1. CASE UNCHANGED <<idVars, owidx, orphaned>>
  BY <1>1 DEF idVars, IndexedOrExplained, Explained
<1>2. ASSUME NEW r \in Reqs, Settle(r)
      PROVE  Explained(l)'
  BY <1>2, SettleExplains
<1>3. ASSUME NEW r \in Reqs, NEW k \in Lines, NEW s \in Segs,
             RtBegin(r, k, s) \/ \E d \in Dates : OwBegin(r, k, s, d)
      PROVE  Explained(l)'
  <2>1. Begin(r, k, s) /\ owidx' = owidx /\ orphaned' = orphaned
    BY <1>3 DEF RtBegin, OwBegin, owKeys
  <2>2. Step(r) /\ fltid' = fltid /\ pc[r] # "zadd"
    BY <2>1 DEF Begin, Step, store
  <2>3. QED
    BY <2>1, <2>2, StaysExplained
<1>4. ASSUME NEW r \in Reqs, IdStep(r) \/ OwPrice(r) \/ RtReady(r)
      PROVE  Explained(l)'
  <2>1. owidx' = owidx /\ orphaned' = orphaned
    BY <1>4 DEF IdStep, OwPrice, RtReady, owKeys
  <2>2. Step(r) /\ fltid' = fltid /\ pc[r] # "zadd"
    BY <1>4 DEF IdStep, OwPrice, RtReady, GetId, IncrId, IncrApplied, GetWinner, StoreSeg,
       SegApplied, Finish, Step, store
  <2>3. QED
    BY <2>1, <2>2, StaysExplained
<1>5. ASSUME NEW r \in Reqs, OwIndex(r)
      PROVE  Explained(l)'
  <2>1. /\ Step(r) /\ fltid' = fltid
        /\ owidx' = owidx \cup {held[r]} /\ orphaned' = orphaned
    BY <1>5 DEF OwIndex, Index, Step, store
  <2>2. QED
    BY <2>1, StaysExplained
<1>6. ASSUME NEW r \in Reqs, OwAbort(r)
      PROVE  Explained(l)'
  <2>1. /\ Step(r) /\ fltid' = fltid /\ owidx' = owidx
        /\ orphaned' = IF pc[r] = "zadd" THEN orphaned \cup {line[r]} ELSE orphaned
    BY <1>6 DEF OwAbort, Abort, Step, store, owKeys
  <2>2. QED
    BY <2>1, StaysExplained
<1>7. ASSUME NEW r \in Reqs, OwLostReply(r)
      PROVE  Explained(l)'
  <2>1. CASE /\ LostReply(r) /\ pc[r] = "setnx" /\ owidx' = owidx
             /\ orphaned' = IF Wins(r) THEN orphaned \cup {line[r]} ELSE orphaned
    <3>1. SetnxApplied(r) /\ Step(r)
      BY <2>1 DEF LostReply, IncrApplied, SegApplied, Step
    <3>2. fltid'[l] = IF l = line[r] /\ fltid[l] = 0 THEN held[r] ELSE fltid[l]
      BY <3>1, SetnxEffect DEF IInv
    <3>3. CASE fltid[l] = 0
      BY <2>1, <3>2, <3>3 DEF Wins, Explained
    <3>4. CASE fltid[l] # 0
      <4>1. ASSUME NEW q \in OwReqs, pc[q] = "zadd", line[q] = l
            PROVE  pc'[q] = "zadd" /\ line'[q] = l
        BY <2>1, <3>1, <4>1, OthersStay DEF Reqs, IInv
      <4>2. QED
        BY <2>1, <3>2, <3>4, <4>1 DEF IndexedOrExplained, Explained
    <3>5. QED
      BY <3>3, <3>4
  <2>2. CASE /\ LostReply(r) /\ pc[r] # "setnx" /\ owidx' = owidx /\ orphaned' = orphaned
    <3>1. Step(r) /\ fltid' = fltid /\ pc[r] # "zadd"
      BY <2>2 DEF LostReply, IncrApplied, SetnxApplied, SegApplied, Step
    <3>2. QED
      BY <2>2, <3>1, StaysExplained
  <2>3. CASE /\ Abort(r) /\ owidx' = owidx \cup {held[r]} /\ orphaned' = orphaned
    <3>1. Step(r) /\ fltid' = fltid
      BY <2>3 DEF Abort, Step, store
    <3>2. QED
      BY <2>3, <3>1, StaysExplained
  <2>4. QED
    BY <1>7, <2>1, <2>2, <2>3 DEF OwLostReply, owKeys
<1>8. ASSUME NEW g \in Gets, (\E d \in Dates : GetBegin(g, d)) \/ GetProgress(g)
      PROVE  UNCHANGED <<idVars, owidx, orphaned>>
  BY <1>8 DEF GetBegin, GetProgress, GetKayak, GetIndex, GetPrice, GetAnswer, GetEnd, owKeys
<1>9. UNCHANGED owVars => UNCHANGED <<idVars, owidx, orphaned>>
  BY DEF owVars, owKeys
<1>10. QED
  BY <1>1, <1>2, <1>3, <1>4, <1>5, <1>6, <1>7, <1>8, <1>9
     DEF OwNext, OwProgress, RtProgress, Reqs
-----------------------------------------------------------------------------
(* The theorems. *)

\* The invariant of the store holds in every reachable state.
THEOREM OwInductive == OwSpec => []OwIInv
<1>1. OwInit => OwIInv
  <2> SUFFICES ASSUME OwInit PROVE OwIInv
    OBVIOUS
  <2>1. IInv
    BY IInvInit DEF OwInit
  <2>2. PricesOwned /\ pri \in [Ids -> [Dates -> Lines \cup {None}]] /\ owidx \subseteq Ids
    BY DEF OwInit, PricesOwned
  <2>3. IndexedOrExplained
    BY DEF OwInit, Init, IndexedOrExplained
  <2>4. QED
    BY <2>1, <2>2, <2>3 DEF OwIInv
<1>2. OwIInv /\ [OwNext]_owVars => OwIInv'
  <2> SUFFICES ASSUME OwIInv, [OwNext]_owVars PROVE OwIInv'
    OBVIOUS
  <2>1. IInv'
    BY OwStepIsStep, IInvStep DEF OwIInv
  <2>2. Owned'
    BY OwnedStep DEF OwIInv, Owned
  <2>3. IndexedOrExplained'
    BY ExplainedStep DEF OwIInv
  <2>4. QED
    BY <2>1, <2>2, <2>3 DEF OwIInv, Owned
<1>3. QED
  BY <1>1, <1>2, PTL DEF OwSpec

\* A search never shows one line's fare under another line: prices and index
\* entries belong to the owner of the id (ow/receiveprice.lua:196-224).
THEOREM OwPricesOwned == OwSpec => []PricesOwned
<1>1. OwIInv => PricesOwned
  BY DEF OwIInv
<1>2. QED
  BY <1>1, OwInductive, PTL

\* A line with an id is indexed, about to be, or was allocated by a round-trip post
\* or by a request that broke off before its ZADD.
THEOREM OwIndexedOrExplained == OwSpec => []IndexedOrExplained
<1>1. OwIInv => IndexedOrExplained
  BY DEF OwIInv
<1>2. QED
  BY <1>1, OwInductive, PTL

\* A line left out of the index while nobody allocates for it is left out for ever.
THEOREM OwLossIsFinal == OwSpec => LossIsFinal
<1>1. OwIInv /\ [OwNext]_owVars =>
        [\A l \in Lines : fltid[l] # 0 /\ fltid[l] \notin owidx /\ ~Allocating(l) =>
            fltid[l] \notin owidx']_owVars
  <2> SUFFICES ASSUME OwIInv, OwNext, NEW l \in Lines,
                      fltid[l] # 0, fltid[l] \notin owidx, ~Allocating(l)
               PROVE  fltid[l] \notin owidx'
    OBVIOUS
  <2>1. CASE owidx' = owidx
    BY <2>1
  <2>2. ASSUME NEW r \in Reqs, pc[r] = "zadd", owidx' = owidx \cup {held[r]}
        PROVE  fltid[l] \notin owidx'
    <3>1. line[r] # l /\ line[r] \in Lines /\ held[r] = fltid[line[r]]
      BY <2>2 DEF Allocating, AllocPath, OwIInv, IInv, HeldIsOwn, TypeOK
    <3>2. held[r] # fltid[l]
      BY <3>1 DEF OwIInv, IInv, UniqueIds
    <3>3. QED
      BY <2>2, <3>2
  <2>3. ASSUME NEW r \in Reqs, OwIndex(r)
        PROVE  fltid[l] \notin owidx'
    BY <2>2, <2>3 DEF OwIndex, Index
  <2>4. ASSUME NEW r \in Reqs, OwLostReply(r)
        PROVE  fltid[l] \notin owidx'
    BY <2>1, <2>2, <2>4 DEF OwLostReply, owKeys
  <2>5. ASSUME NEW r \in Reqs, Settle(r) \/ IdStep(r) \/ OwPrice(r) \/ RtReady(r) \/ OwAbort(r)
        PROVE  owidx' = owidx
    BY <2>5 DEF Settle, IdStep, OwPrice, RtReady, OwAbort, owKeys
  <2>6. ASSUME NEW r \in Reqs, NEW k \in Lines, NEW s \in Segs,
               RtBegin(r, k, s) \/ \E d \in Dates : OwBegin(r, k, s, d)
        PROVE  owidx' = owidx
    BY <2>6 DEF RtBegin, OwBegin, owKeys
  <2>7. ASSUME NEW g \in Gets, (\E d \in Dates : GetBegin(g, d)) \/ GetProgress(g)
        PROVE  owidx' = owidx
    BY <2>7 DEF GetBegin, GetProgress, GetKayak, GetIndex, GetPrice, GetAnswer, GetEnd, owKeys
  <2>8. QED
    BY <2>1, <2>3, <2>4, <2>5, <2>6, <2>7 DEF OwNext, OwProgress, RtProgress, Reqs
<1>2. QED
  BY <1>1, OwInductive, PTL DEF OwSpec, LossIsFinal
-----------------------------------------------------------------------------
(* Searches. *)

\* What is visible stays so: ids do not change, nothing leaves the index, and a price
\* is only overwritten by a price.
LEMMA VisibleStays ==
  ASSUME SearchInv, [OwNext]_owVars, NEW d \in Dates
  PROVE  Visible(d) \subseteq Visible(d)' /\ owidx \subseteq owidx'
<1> USE DEF SearchInv
<1>1. KeepsIds
  BY OwStepIsStep, StepKeepsIds DEF OwIInv
<1>2. ASSUME NEW i \in Ids, pri[i][d] # None
      PROVE  pri'[i][d] # None
  <2>1. CASE pri' = pri
    BY <1>2, <2>1
  <2>2. ASSUME NEW r \in OwReqs, OwPrice(r)
        PROVE  pri'[i][d] # None
    <3>1. line[r] \in Lines /\ line[r] # None
      <4>1. r \in Reqs /\ pc[r] = "ready"
        BY <2>2 DEF OwPrice, Finish, Reqs
      <4>2. QED
        BY <4>1, NoneIsNew DEF OwIInv, IInv, TypeOK
    <3>2. pri' = [pri EXCEPT ![held[r]][date[r]] = line[r]]
      BY <2>2 DEF OwPrice
    <3>3. pri'[i][d] \in {pri[i][d], line[r]}
      BY <3>2 DEF OwTypeOK
    <3>4. QED
      BY <1>2, <3>1, <3>3
  <2>3. pri' = pri \/ \E r \in OwReqs : OwPrice(r)
    BY DEF OwNext, OwProgress, RtProgress, GetProgress, OwBegin, RtBegin, Settle, IdStep, OwIndex,
       RtReady, OwAbort, OwLostReply, GetBegin, GetKayak, GetIndex, GetPrice, GetAnswer, GetEnd,
       owVars, owKeys
  <2>4. QED
    BY <2>1, <2>2, <2>3
<1>3. owidx \subseteq owidx'
  BY DEF OwNext, OwProgress, RtProgress, GetProgress, OwBegin, RtBegin, Settle, IdStep, OwIndex,
     OwPrice, RtReady, OwAbort, OwLostReply, GetBegin, GetKayak, GetIndex, GetPrice, GetAnswer,
     GetEnd, owVars, owKeys
<1>4. ASSUME NEW l \in Visible(d) PROVE l \in Visible(d)'
  <2>1. l \in Lines /\ fltid[l] \in owidx /\ pri[fltid[l]][d] # None
    BY DEF Visible
  <2>2. fltid[l] \in Ids /\ fltid[l] # 0
    <3>1. owidx \subseteq 1..MaxId
      BY DEF OwTypeOK, Ids
    <3>2. \A n \in 1..MaxId : n # 0
      BY MaxIdIsNat
    <3>3. fltid[l] \in 1..MaxId
      BY <2>1, <3>1
    <3>4. QED
      BY <3>2, <3>3 DEF Ids
  <2>3. fltid'[l] = fltid[l]
    BY <1>1, <2>1, <2>2 DEF KeepsIds
  <2>4. QED
    BY <1>2, <1>3, <2>1, <2>2, <2>3 DEF Visible
<1>5. QED
  BY <1>3, <1>4

\* A search that does nothing keeps what it has.
LEMMA SearchWaits ==
  ASSUME SearchInv, [OwNext]_owVars, NEW g \in Gets,
         gpc'[g] = gpc[g], gdate'[g] = gdate[g], todo'[g] = todo[g], got'[g] = got[g],
         seen'[g] = seen[g]
  PROVE  GetOK(g)'
<1>1. GetOK(g) /\ OwTypeOK
  BY DEF SearchInv
<1>2. \A l \in Lines : fltid[l] # 0 => fltid'[l] = fltid[l]
  <2>1. KeepsIds
    BY OwStepIsStep, StepKeepsIds DEF SearchInv, OwIInv
  <2>2. QED
    BY <2>1 DEF KeepsIds
<1>3. Found(g)' = Found(g)
  BY DEF Found
<1>4. gpc[g] # "idle" => seen[g] \cup Found(g) \subseteq Visible(gdate[g])'
  BY <1>1, VisibleStays DEF GetOK
<1>5. owidx \subseteq owidx'
  <2>1. CASE gpc[g] = "idle"
    <3>1. todo[g] = {}
      BY <1>1, <2>1 DEF GetOK
    <3>2. owidx \subseteq owidx'
      BY DEF OwNext, OwProgress, RtProgress, GetProgress, OwBegin, RtBegin, Settle, IdStep,
         OwIndex, OwPrice, RtReady, OwAbort, OwLostReply, GetBegin, GetKayak, GetIndex, GetPrice,
         GetAnswer, GetEnd, owVars, owKeys
    <3>3. QED
      BY <3>2
  <2>2. CASE gpc[g] # "idle"
    BY <1>1, <2>2, VisibleStays DEF GetOK
  <2>3. QED
    BY <2>1, <2>2
<1>6. ASSUME NEW l \in seen[g] \cup Found(g), gpc[g] # "idle" PROVE fltid'[l] = fltid[l]
  <2>1. l \in Lines /\ fltid[l] \in owidx
    BY <1>1, <1>6 DEF GetOK, Visible
  <2>2. fltid[l] # 0
    BY <1>1, <2>1, MaxIdIsNat DEF OwTypeOK, Ids
  <2>3. QED
    BY <1>2, <2>1, <2>2
<1>7. CASE gpc[g] = "idle"
  <2>1. Found(g) = {}
    BY <1>1, <1>7 DEF GetOK, Found
  <2>2. QED
    BY <1>1, <1>3, <1>5, <1>7, <2>1 DEF GetOK
<1>8. CASE gpc[g] # "idle"
  BY <1>1, <1>3, <1>4, <1>5, <1>6, <1>8 DEF GetOK
<1>9. QED
  BY <1>7, <1>8

\* One price read: the line it belongs to is found, and no more ahead.
LEMMA SearchReads ==
  ASSUME SearchInv, NEW g \in Gets, NEW i \in Ids, GetPrice(g, i)
  PROVE  GetOK(g)'
<1> DEFINE d == gdate[g]
           l == pri[i][d]
<1>1. GetOK(g) /\ OwTypeOK /\ PricesOwned /\ UniqueIds
  BY DEF SearchInv, OwIInv, IInv
<1>2. /\ gpc[g] = "hget" /\ i \in todo[g]
      /\ UNCHANGED <<fltid, owKeys, gpc, gdate, seen>>
      /\ todo'[g] = todo[g] \ {i}
      /\ got'[g] = IF l = None THEN got[g] ELSE Append(got[g], l)
  BY DEF GetPrice, OwTypeOK, SearchInv, idVars, store
<1>3. d \in Dates /\ i \in owidx /\ i # 0
  BY <1>1, <1>2, MaxIdIsNat DEF GetOK, Ids
<1>4. pri' = pri /\ owidx' = owidx
  BY <1>2 DEF owKeys
<1>5. \A e : Visible(e)' = Visible(e)
  BY <1>2, <1>4 DEF Visible
<1>6. got[g] \in Seq(Lines)
  BY <1>1 DEF OwTypeOK
<1>7. CASE l = None
  <2>1. got'[g] = got[g] /\ Found(g)' = Found(g)
    BY <1>2, <1>7 DEF Found
  <2>2. \A m \in seen[g] : fltid[m] # i
    BY <1>1, <1>2, <1>7 DEF GetOK, Visible
  <2>3. QED
    BY <1>1, <1>2, <1>4, <1>5, <2>1, <2>2 DEF GetOK
<1>8. CASE l # None
  <2>1. l \in Lines /\ fltid[l] = i
    BY <1>1, <1>3, <1>8 DEF OwTypeOK, PricesOwned
  <2>2. got'[g] = Append(got[g], l)
    BY <1>2, <1>8
  <2> HIDE DEF l
  <2>3. PICK n \in Nat : /\ n = Len(got[g])
                         /\ DOMAIN got[g] = 1..n
                         /\ DOMAIN got'[g] = 1..(n + 1)
                         /\ \A k \in 1..n : got'[g][k] = got[g][k]
                         /\ got'[g][n + 1] = l
    BY <1>6, <2>1, <2>2, AppendProperties, LenProperties
  <2>4. Found(g)' = Found(g) \cup {l}
    BY <2>3 DEF Found
  <2>5. l \notin Found(g)
    BY <1>1, <1>2, <2>1 DEF GetOK
  <2>6. \A j, k \in DOMAIN got'[g] : got'[g][j] = got'[g][k] => j = k
    <3>1. \A k \in 1..n : got[g][k] # l
      BY <2>3, <2>5 DEF Found
    <3>2. \A j, k \in 1..n : got[g][j] = got[g][k] => j = k
      BY <1>1, <2>3 DEF GetOK
    <3>3. \A k \in 1..(n + 1) : k \in 1..n \/ k = n + 1
      OBVIOUS
    <3>4. QED
      BY <2>3, <3>1, <3>2, <3>3
  <2>7. l \in Visible(d)
    BY <1>3, <1>8, <2>1 DEF Visible, l
  <2>8. \A m \in seen[g] : m \in Found(g) \cup {l} \/ fltid[m] \in todo[g] \ {i}
    <3> SUFFICES ASSUME NEW m \in seen[g], fltid[m] = i
                 PROVE  m = l
      BY <1>1, <1>2 DEF GetOK
    <3>1. m \in Lines
      BY <1>1, <1>2 DEF GetOK, Visible
    <3>2. QED
      BY <1>1, <1>3, <2>1, <3>1 DEF UniqueIds
  <2>9. \A m \in Found(g) \cup {l} : fltid[m] \notin todo[g] \ {i}
    BY <1>1, <2>1 DEF GetOK
  <2>10. seen[g] \cup Found(g) \cup {l} \subseteq Visible(d)
    BY <1>1, <1>2, <2>7 DEF GetOK
  <2>11. QED
    BY <1>1, <1>2, <1>3, <1>4, <1>5, <2>4, <2>6, <2>8, <2>9, <2>10 DEF GetOK
<1>9. QED
  BY <1>7, <1>8

\* The other steps of a search.
LEMMA SearchSteps ==
  ASSUME SearchInv, NEW g \in Gets,
         \/ \E d \in Dates : GetBegin(g, d)
         \/ GetKayak(g) \/ GetIndex(g) \/ GetAnswer(g) \/ GetEnd(g)
  PROVE  GetOK(g)'
<1>1. GetOK(g) /\ OwTypeOK
  BY DEF SearchInv
<1>2. fltid' = fltid /\ pri' = pri /\ owidx' = owidx
  BY DEF GetBegin, GetKayak, GetIndex, GetAnswer, GetEnd, idVars, store, owKeys
<1>3. \A e : Visible(e)' = Visible(e)
  BY <1>2 DEF Visible
<1>4. got'[g] = got[g] => Found(g)' = Found(g)
  BY DEF Found
<1>5. ASSUME NEW d \in Dates, GetBegin(g, d)
      PROVE  GetOK(g)'
  <2>1. /\ gpc[g] = "idle" /\ gpc'[g] = "kayak" /\ gdate'[g] = d /\ seen'[g] = Visible(d)
        /\ got'[g] = got[g] /\ todo'[g] = todo[g]
    BY <1>1, <1>5 DEF GetBegin, OwTypeOK
  <2>2. Found(g)' = {}
    BY <1>1, <2>1 DEF GetOK, Found
  <2>3. QED
    BY <1>1, <1>2, <1>3, <2>1, <2>2 DEF GetOK
<1>6. CASE GetKayak(g)
  <2>1. /\ gpc[g] = "kayak" /\ gpc'[g] = "zrange" /\ gdate'[g] = gdate[g]
        /\ seen'[g] = seen[g] /\ got'[g] = got[g] /\ todo'[g] = todo[g]
    BY <1>1, <1>6 DEF GetKayak, OwTypeOK
  <2>2. QED
    BY <1>1, <1>2, <1>3, <1>4, <2>1 DEF GetOK
<1>7. CASE GetIndex(g)
  <2>1. /\ gpc[g] = "zrange" /\ gpc'[g] = "hget" /\ gdate'[g] = gdate[g]
        /\ seen'[g] = seen[g] /\ got'[g] = got[g] /\ todo'[g] = owidx
    BY <1>1, <1>7 DEF GetIndex, OwTypeOK
  <2>2. Found(g) = {}
    BY <1>1, <2>1 DEF GetOK, Found
  <2>3. \A l \in seen[g] : fltid[l] \in owidx
    BY <1>1, <2>1 DEF GetOK, Visible
  <2>4. QED
    BY <1>1, <1>2, <1>3, <1>4, <2>1, <2>2, <2>3 DEF GetOK
<1>8. CASE GetAnswer(g)
  <2>1. /\ gpc[g] = "hget" /\ gpc'[g] = "done" /\ gdate'[g] = gdate[g] /\ todo[g] = {}
        /\ seen'[g] = seen[g] /\ got'[g] = got[g] /\ todo'[g] = todo[g]
    BY <1>1, <1>8 DEF GetAnswer, OwTypeOK
  <2>2. QED
    BY <1>1, <1>2, <1>3, <1>4, <2>1 DEF GetOK
<1>9. CASE GetEnd(g)
  <2>1. gpc'[g] = "idle" /\ seen'[g] = {} /\ got'[g] = <<>> /\ todo'[g] = {}
    BY <1>1, <1>9 DEF GetEnd, OwTypeOK
  <2>2. Found(g)' = {}
    BY <2>1 DEF Found
  <2>3. QED
    BY <2>1, <2>2 DEF GetOK
<1>10. QED
  BY <1>5, <1>6, <1>7, <1>8, <1>9

LEMMA SearchStep ==
  ASSUME SearchInv, [OwNext]_owVars, NEW g \in Gets
  PROVE  GetOK(g)'
<1>1. CASE UNCHANGED getter
  BY <1>1, SearchWaits DEF getter
<1>2. ASSUME NEW h \in Gets, (\E d \in Dates : GetBegin(h, d)) \/ GetProgress(h), h # g
      PROVE  GetOK(g)'
  <2>1. /\ gpc'[g] = gpc[g] /\ gdate'[g] = gdate[g] /\ todo'[g] = todo[g]
        /\ got'[g] = got[g] /\ seen'[g] = seen[g]
    BY <1>2 DEF GetBegin, GetProgress, GetKayak, GetIndex, GetPrice, GetAnswer, GetEnd,
       SearchInv, OwTypeOK
  <2>2. QED
    BY <2>1, SearchWaits
<1>3. CASE (\E d \in Dates : GetBegin(g, d)) \/ GetProgress(g)
  BY <1>3, SearchReads, SearchSteps DEF GetProgress
<1>4. UNCHANGED getter \/ \E h \in Gets : (\E d \in Dates : GetBegin(h, d)) \/ GetProgress(h)
  BY DEF OwNext, OwProgress, RtProgress, OwBegin, RtBegin, Settle, IdStep, OwIndex,
     OwPrice, RtReady, OwAbort, OwLostReply, owVars, getter
<1>5. QED
  BY <1>1, <1>2, <1>3, <1>4

\* The types that OwIInv leaves out.
LEMMA OwTypeStep ==
  ASSUME SearchInv, [OwNext]_owVars, OwIInv'
  PROVE  OwTypeOK'
<1>0. OwTypeOK /\ TypeOK' /\ owidx' \subseteq Ids /\ pri' \in [Ids -> [Dates -> Lines \cup {None}]]
  BY DEF SearchInv, OwIInv, IInv
<1>1. ASSUME UNCHANGED getter, orphaned' \subseteq Lines,
             date' \in [OwReqs -> Dates \cup {None}]
      PROVE  OwTypeOK'
  BY <1>0, <1>1 DEF OwTypeOK, getter
<1>2. ASSUME UNCHANGED <<date, orphaned>>,
             gpc' \in [Gets -> {"idle", "kayak", "zrange", "hget", "done"}],
             gdate' \in [Gets -> Dates \cup {None}],
             todo' \in [Gets -> SUBSET Ids],
             got' \in [Gets -> Seq(Lines)],
             seen' \in [Gets -> SUBSET Lines]
      PROVE  OwTypeOK'
  BY <1>0, <1>2 DEF OwTypeOK
<1>3. ASSUME NEW r \in OwReqs, NEW l \in Lines, NEW s \in Segs, NEW d \in Dates,
             OwBegin(r, l, s, d)
      PROVE  OwTypeOK'
  BY <1>0, <1>1, <1>3 DEF OwBegin, OwTypeOK
<1>4. ASSUME NEW r \in RtReqs, NEW l \in Lines, NEW s \in Segs, RtBegin(r, l, s)
      PROVE  OwTypeOK'
  BY <1>0, <1>1, <1>4 DEF RtBegin, OwTypeOK
<1>5. ASSUME NEW r \in Reqs, Settle(r)
      PROVE  OwTypeOK'
  <2>1. pc[r] = "setnx"
    BY <1>5 DEF Settle, SetnxId, SetnxApplied
  <2>2. pc[r] = "setnx" => line[r] \in Lines
    BY DEF SearchInv, OwIInv, IInv, TypeOK
  <2>3. QED
    BY <1>0, <1>1, <1>5, <2>1, <2>2 DEF Settle, OwTypeOK
<1>6. ASSUME NEW r \in Reqs, IdStep(r) \/ OwIndex(r) \/ RtReady(r)
      PROVE  OwTypeOK'
  BY <1>0, <1>1, <1>6 DEF IdStep, OwIndex, RtReady, OwTypeOK
<1>7. ASSUME NEW r \in OwReqs, OwPrice(r)
      PROVE  OwTypeOK'
  BY <1>0, <1>1, <1>7 DEF OwPrice, OwTypeOK
<1>8. ASSUME NEW r \in Reqs, OwAbort(r) \/ OwLostReply(r)
      PROVE  OwTypeOK'
  <2>1. pc[r] \in {"zadd", "setnx"} => line[r] \in Lines
    BY DEF SearchInv, OwIInv, IInv, TypeOK
  <2>2. UNCHANGED getter /\ orphaned' \in {orphaned, orphaned \cup {line[r]}}
    BY <1>8 DEF OwAbort, OwLostReply
  <2>3. orphaned' = orphaned \/ line[r] \in Lines
    BY <1>8, <2>1 DEF OwAbort, OwLostReply
  <2>4. date' \in [OwReqs -> Dates \cup {None}]
    BY <1>0, <1>8 DEF OwAbort, OwLostReply, ForgetDate, OwTypeOK
  <2>5. orphaned' \subseteq Lines
    BY <1>0, <2>2, <2>3 DEF OwTypeOK
  <2>6. QED
    BY <1>1, <2>2, <2>4, <2>5
<1>9. ASSUME NEW g \in Gets, NEW d \in Dates, GetBegin(g, d)
      PROVE  OwTypeOK'
  <2>1. Visible(d) \subseteq Lines
    BY DEF Visible
  <2>2. QED
    BY <1>0, <1>2, <1>9, <2>1 DEF GetBegin, OwTypeOK
<1>10. ASSUME NEW g \in Gets, GetKayak(g) \/ GetIndex(g) \/ GetAnswer(g)
      PROVE  OwTypeOK'
  BY <1>0, <1>2, <1>10 DEF GetKayak, GetIndex, GetAnswer, OwTypeOK
<1>11. ASSUME NEW g \in Gets, GetEnd(g)
      PROVE  OwTypeOK'
  BY <1>0, <1>2, <1>11, EmptySeq DEF GetEnd, OwTypeOK
<1>12. ASSUME NEW g \in Gets, NEW i \in Ids, GetPrice(g, i)
      PROVE  OwTypeOK'
  <2>1. gdate[g] \in Dates /\ pri[i][gdate[g]] \in Lines \cup {None}
    <3>1. GetOK(g)
      BY DEF SearchInv
    <3>2. QED
      BY <1>0, <1>12, <3>1 DEF GetPrice, GetOK, OwTypeOK
  <2>2. got[g] \in Seq(Lines)
    BY <1>0 DEF OwTypeOK
  <2>3. pri[i][gdate[g]] # None => Append(got[g], pri[i][gdate[g]]) \in Seq(Lines)
    BY <2>1, <2>2, AppendProperties
  <2>4. got' \in [Gets -> Seq(Lines)] /\ todo' \in [Gets -> SUBSET Ids]
    BY <1>0, <1>12, <2>2, <2>3 DEF GetPrice, OwTypeOK
  <2>5. QED
    BY <1>0, <1>2, <1>12, <2>4 DEF GetPrice, OwTypeOK
<1>13. UNCHANGED owVars => OwTypeOK'
  BY <1>0, <1>1 DEF owVars, OwTypeOK
<1>14. QED
  BY <1>3, <1>4, <1>5, <1>6, <1>7, <1>8, <1>9, <1>10, <1>11, <1>12, <1>13
     DEF OwNext, OwProgress, RtProgress, GetProgress, Reqs

\* What searches have found, and what is ahead of them, is invariant together with the
\* types and the invariant of the store.
THEOREM OwSearchInductive == OwSpec => []SearchInv
<1>1. OwInit => OwTypeOK /\ \A g \in Gets : GetOK(g)
  <2> SUFFICES ASSUME OwInit PROVE OwTypeOK /\ \A g \in Gets : GetOK(g)
    OBVIOUS
  <2>1. TypeOK
    BY IInvInit DEF OwInit, IInv
  <2>2. OwTypeOK
    BY <2>1, EmptySeq DEF OwInit, OwTypeOK
  <2>3. ASSUME NEW g \in Gets PROVE GetOK(g)
    BY DEF OwInit, GetOK, Found
  <2>4. QED
    BY <2>2, <2>3
<1>2. OwTypeOK /\ (\A g \in Gets : GetOK(g)) /\ OwIInv /\ OwIInv' /\ [OwNext]_owVars
        => (OwTypeOK /\ \A g \in Gets : GetOK(g))'
  BY SearchStep, OwTypeStep DEF SearchInv
<1>3. QED
  BY <1>1, <1>2, OwInductive, PTL DEF OwSpec, SearchInv

\* The answer of a search lies between what was visible when it began and what is
\* visible when it ends, each line once (ow/receiveprice.lua:260-294).
THEOREM OwAnswerBracketed == OwSpec => []AnswerBracketed
<1>1. SearchInv => AnswerBracketed
  <2> SUFFICES ASSUME SearchInv, NEW g \in Gets, gpc[g] = "done"
               PROVE  /\ seen[g] \subseteq Found(g)
                      /\ Found(g) \subseteq Visible(gdate[g])
                      /\ Cardinality(Found(g)) = Len(got[g])
    BY DEF AnswerBracketed, Found
  <2>1. GetOK(g) /\ got[g] \in Seq(Lines)
    BY DEF SearchInv, OwTypeOK
  <2>2. seen[g] \subseteq Found(g) /\ Found(g) \subseteq Visible(gdate[g])
    BY <2>1 DEF GetOK
  <2>3. PICK n \in Nat : n = Len(got[g]) /\ DOMAIN got[g] = 1..n
    BY <2>1, LenProperties
  <2>4. got[g] \in Surjection(1..n, Found(g)) /\ got[g] \in Injection(1..n, Found(g))
    BY <2>1, <2>3 DEF Found, GetOK, Surjection, Injection, IsInjective
  <2>5. IsFiniteSet(1..n) /\ Cardinality(1..n) = n
    BY FS_Interval
  <2>6. Cardinality(Found(g)) = n
    BY <2>4, <2>5, FS_Surjection
  <2>7. QED
    BY <2>2, <2>3, <2>6
<1>2. QED
  BY <1>1, OwSearchInductive, PTL
=============================================================================
