---------------------------- MODULE RtStore_proof ----------------------------
(***************************************************************************)
(* Proofs about RtStore, for every set of posts, searches, lookups and     *)
(* combinations, with and without failures.  Its steps are steps of        *)
(* FlightIds, whose theorems carry over.                                   *)
(***************************************************************************)
EXTENDS RtStore, FlightIds_proof, FiniteSetTheorems, SequenceTheorems

\* Every step of the store is a step of the id protocol, or leaves it alone.
LEMMA RtStepIsStep ==
  ASSUME RtIInv, [RtNext]_rtVars
  PROVE  [Next]_idVars
<1>1. CASE UNCHANGED rtVars
  BY <1>1 DEF rtVars
<1>2. ASSUME NEW r \in RtReqs, NEW c \in Combos, NEW s \in Segs, PostBegin(r, c, s)
      PROVE  Next
  BY <1>2, CombosAreLines DEF PostBegin, Next, Step, Reqs
<1>3. ASSUME NEW r \in RtReqs, LegStep(r) \/ LegDone(r) \/ LegFails(r)
      PROVE  Next
  BY <1>3 DEF LegStep, LegDone, LegFails, Next, Step, Reqs
<1>4. ASSUME NEW r \in RtReqs, NEW s \in Segs, BackBegin(r, s)
      PROVE  Next
  BY <1>4, CombosAreLines DEF BackBegin, RtIInv, PostOK, Next, Step, Reqs
<1>5. ASSUME NEW r \in RtReqs, ListRead(r) \/ ListWrite(r) \/ PriceWrite(r)
      PROVE  UNCHANGED idVars
  BY <1>5 DEF ListRead, ListWrite, PriceWrite
<1>6. ASSUME NEW r \in RtReqs, PostEnds(r)
      PROVE  [Next]_idVars
  BY <1>6 DEF PostEnds, Next, Step, Reqs
<1>7. ASSUME NEW g \in Gets, GetBegin(g) \/ GetProgress(g)
      PROVE  UNCHANGED idVars
  BY <1>7 DEF GetBegin, GetProgress, GetLists, GetPrice, GetNote, GetAnswer, GetEnd, GetUpdate
<1>8. ASSUME NEW q \in Lookups, LookProgress(q) \/ \E x \in Lines \cup Combos : LookBegin(q, x)
      PROVE  UNCHANGED idVars
  BY <1>8 DEF LookBegin, LookProgress, LookId, LookPair, LookOne, LookOut, LookBack, LookEnd,
     LookUpdate
<1>9. QED
  BY <1>1, <1>2, <1>3, <1>4, <1>5, <1>6, <1>7, <1>8
     DEF RtNext, Posting, Failing, Getting, Looking, PostProgress

\* The steps that touch a POST, one disjunct per operation.
PostStep(r) == \/ \E c \in Combos, s \in Segs : PostBegin(r, c, s)
               \/ PostProgress(r) \/ LegFails(r) \/ PostEnds(r)

\* The keys of a combination, once both lines have an id, stay.
LEMMA KeyStays ==
  ASSUME KeepsIds, NEW c \in Combos, Key(c) \in Ids \X Ids
  PROVE  Key(c)' = Key(c)
<1>1. c[1] \in Lines /\ c[2] \in Lines
  BY CombosAreLines
<1>2. fltid[c[1]] # 0 /\ fltid[c[2]] # 0
  BY MaxIdIsNat DEF Key, Id, Ids
<1>3. QED
  BY <1>1, <1>2 DEF Key, Id, KeepsIds

\* One key belongs to one combination.
LEMMA KeyIsOwn ==
  ASSUME IInv, NEW c \in Combos, NEW d \in Combos, Key(c) \in Ids \X Ids, Key(c) = Key(d)
  PROVE  c = d
<1>1. c \in Lines \X Lines /\ d \in Lines \X Lines
  BY CombosAreLines
<1>2. fltid[c[1]] = fltid[d[1]] /\ fltid[c[2]] = fltid[d[2]] /\ fltid[c[1]] # 0 /\ fltid[c[2]] # 0
  BY MaxIdIsNat DEF Key, Id, Ids
<1>3. c[1] = d[1] /\ c[2] = d[2]
  BY <1>1, <1>2 DEF IInv, UniqueIds
<1>4. QED
  BY <1>1, <1>3
-----------------------------------------------------------------------------
(* The POSTs. *)

\* What a step of one POST does not touch.
LEMMA OtherPosts ==
  ASSUME RtIInv, NEW r \in RtReqs, PostStep(r), NEW q \in RtReqs, q # r
  PROVE  post'[q] = post[q] /\ pc'[q] = pc[q] /\ line'[q] = line[q]
<1>1. post'[q] = post[q]
  BY DEF PostStep, PostBegin, PostProgress, LegStep, LegDone, LegFails, LegEnds, BackBegin,
     ListRead, ListWrite, PriceWrite, PostEnds, RtIInv, RtTypeOK
<1>2. CASE UNCHANGED idVars
  BY <1>1, <1>2 DEF idVars
<1>3. CASE Step(r)
  BY <1>1, <1>3, OthersStay DEF RtIInv, IInv, Reqs
<1>4. QED
  BY <1>2, <1>3, CombosAreLines DEF PostStep, PostBegin, PostProgress, LegStep, LegDone, LegFails,
     BackBegin, ListRead, ListWrite, PriceWrite, PostEnds, RtIInv, PostOK, Step

\* The list a POST writes is owned and without repetition.
LEMMA NewListOK ==
  ASSUME RtIInv, NEW r \in RtReqs, post[r].step = "hset"
  PROVE  /\ post[r].gid \in Ids
         /\ NewList(r) \in Seq(Entry)
         /\ ListOK(post[r].gid, NewList(r))
<1> DEFINE p == post[r]
           i == p.gid
           b == p.bid
           t == p.tmpbid
<1>1. p \in Post /\ PostOK(r)
  BY DEF RtIInv, RtTypeOK
<1>2. i \in Ids /\ t \in Seq(Entry) /\ ListOK(i, t) /\ b \in Entry \cup {Nil}
  BY <1>1, MaxIdIsNat DEF PostOK, Post, Ids
<1>3. CASE b = Nil
  BY <1>2, <1>3 DEF NewList
<1>4. CASE b # Nil
  <2>1. b \in Entry /\ ~Contains(t, b) /\ NewList(r) = Append(t, b)
    BY <1>1, <1>2, <1>4 DEF PostOK, NewList
  <2>2. p.combo \in Combos /\ i = Id(p.combo[1]) /\ b.id = Id(p.combo[2])
    BY <1>1, <1>4 DEF PostOK
  <2>3. PairOwned(i, b.id)
    BY <2>2 DEF PairOwned, Key
  <2> HIDE DEF b, t, i
  <2>4. Append(t, b) \in Seq(Entry) /\ DOMAIN Append(t, b) = 1..Len(t) + 1
    BY <1>2, <2>1
  <2>5. \A k \in 1..Len(t) + 1 : Append(t, b)[k] = IF k = Len(t) + 1 THEN b ELSE t[k]
    BY <1>2, <2>1
  <2>6. DOMAIN t = 1..Len(t) /\ Len(t) \in Nat
    BY <1>2
  <2>7. IsInjective(Append(t, b))
    BY <1>2, <2>1, <2>4, <2>5, <2>6 DEF ListOK, IsInjective, Contains
  <2>8. \A k \in DOMAIN Append(t, b) : PairOwned(i, Append(t, b)[k].id)
    BY <1>2, <2>3, <2>4, <2>5, <2>6 DEF ListOK
  <2>9. QED
    BY <1>2, <2>1, <2>4, <2>7, <2>8 DEF ListOK, i
<1>5. QED
  BY <1>3, <1>4

\* A list that is owned stays so.
LEMMA ListStays ==
  ASSUME KeepsIds, NEW i \in Ids, NEW t \in Seq(Entry), ListOK(i, t)
  PROVE  IsInjective(t) /\ \A k \in DOMAIN t : \E c \in Combos : Key(c)' = <<i, t[k].id>>
<1>1. ASSUME NEW k \in DOMAIN t
      PROVE  \E c \in Combos : Key(c)' = <<i, t[k].id>>
  <2>1. PICK c \in Combos : Key(c) = <<i, t[k].id>>
    BY DEF ListOK, PairOwned
  <2>2. t[k].id \in Ids
    <3>1. t[k] \in Entry
      OBVIOUS
    <3>2. QED
      BY <3>1 DEF Entry
  <2>3. Key(c)' = Key(c)
    BY <2>1, <2>2, KeyStays
  <2>4. QED
    BY <2>1, <2>3
<1>2. QED
  BY <1>1 DEF ListOK

\* The ids a POST holds are those of its lines, also after somebody else's step.
LEMMA PostIdsStay ==
  ASSUME RtIInv, KeepsIds, NEW r \in RtReqs
  PROVE  LET p == post[r] IN
         /\ p.step \in {"back", "hget", "hset", "price"} /\ p.gid # 0 =>
              p.gid = fltid'[p.combo[1]]
         /\ p.step \in {"hget", "hset", "price"} /\ p.bid # Nil =>
              p.bid.id = fltid'[p.combo[2]]
<1> DEFINE p == post[r]
<1>1. p \in Post /\ PostOK(r)
  BY DEF RtIInv, RtTypeOK
<1>2. p.bid # Nil => p.bid.id # 0
  BY <1>1, MaxIdIsNat DEF Post, Entry, Ids
<1>3. p.step # "idle" => p.combo[1] \in Lines /\ p.combo[2] \in Lines
  BY <1>1, CombosAreLines DEF PostOK
<1>4. QED
  BY <1>1, <1>2, <1>3 DEF PostOK, Id, KeepsIds

\* What a POST holds stays right while others work.
LEMMA PostStays ==
  ASSUME RtIInv, KeepsIds, NEW r \in RtReqs,
         post'[r] = post[r], pc'[r] = pc[r], line'[r] = line[r]
  PROVE  PostOK(r)'
<1> DEFINE p == post[r]
<1>1. p \in Post /\ PostOK(r)
  BY DEF RtIInv, RtTypeOK
<1>2. p.step = "hset" => /\ IsInjective(p.tmpbid)
                         /\ \A k \in DOMAIN p.tmpbid :
                               \E c \in Combos : Key(c)' = <<p.gid, p.tmpbid[k].id>>
  BY <1>1, ListStays, MaxIdIsNat DEF PostOK, Post, Ids
<1>3. p.step = "hset" => ListOK(p.gid, p.tmpbid)'
  BY <1>2 DEF ListOK, PairOwned
<1>4. QED
  BY <1>1, <1>3, PostIdsStay DEF PostOK, Id

\* getfid has returned id i: the POST holds it for the right one of its lines.
LEMMA LegEndsOK ==
  ASSUME RtIInv, KeepsIds, NEW r \in RtReqs, NEW i \in 0..MaxId, LegEnds(r, i),
         pc[r] # "idle", pc'[r] = "idle", i # 0 => i = fltid'[line[r]]
  PROVE  PostOK(r)'
<1> DEFINE p == post[r]
<1>1. p \in Post /\ PostOK(r) /\ post \in [RtReqs -> Post]
  BY DEF RtIInv, RtTypeOK
<1>2. CASE p.step = "out"
  <2>1. /\ post'[r].step = "back" /\ post'[r].combo = p.combo /\ post'[r].gid = i
    BY <1>1, <1>2 DEF LegEnds, Post
  <2>2. line[r] = p.combo[1] /\ p.combo \in Combos
    BY <1>1, <1>2 DEF PostOK
  <2>3. QED
    BY <2>1, <2>2 DEF PostOK, Id
<1>3. CASE p.step = "back"
  <2>1. /\ post'[r].step = "hget" /\ post'[r].combo = p.combo /\ post'[r].gid = p.gid
        /\ post'[r].bid = IF i = 0 THEN Nil ELSE [id |-> i, str |-> p.str]
    BY <1>1, <1>3 DEF LegEnds, Post
  <2>2. line[r] = p.combo[2] /\ p.combo \in Combos
    BY <1>1, <1>3 DEF PostOK
  <2>3. p.gid # 0 => p.gid = fltid'[p.combo[1]]
    BY <1>3, PostIdsStay
  <2>4. post'[r].bid # Nil => post'[r].bid.id = fltid'[p.combo[2]]
    BY <2>1, <2>2
  <2>5. QED
    BY <2>1, <2>2, <2>3, <2>4 DEF PostOK, Id
<1>4. QED
  BY <1>1, <1>2, <1>3 DEF PostOK

\* Every step of a POST keeps what it holds right.
LEMMA PostOwnStep ==
  ASSUME RtIInv, KeepsIds, NEW r \in RtReqs, PostStep(r)
  PROVE  PostOK(r)'
<1> DEFINE p == post[r]
<1>1. /\ p \in Post /\ PostOK(r) /\ KeepsIds
      /\ post \in [RtReqs -> Post] /\ pc \in [Reqs -> PCs] /\ r \in Reqs
      /\ line \in [Reqs -> Lines \cup {None}] /\ held \in [Reqs -> 0..MaxId]
  BY DEF RtIInv, RtTypeOK, TypeOK, Reqs
<1>2. ASSUME post'[r] = NoPost, pc'[r] = "idle"
      PROVE  PostOK(r)'
  BY <1>2 DEF PostOK, NoPost
<1>3. ASSUME NEW c \in Combos, NEW s \in Segs, PostBegin(r, c, s)
      PROVE  PostOK(r)'
  <2>1. post'[r].step = "out" /\ post'[r].combo = c /\ line'[r] = c[1]
    BY <1>1, <1>3 DEF PostBegin, Begin, NoPost
  <2>2. QED
    BY <2>1 DEF PostOK
<1>4. CASE LegStep(r)
  <2>1. /\ post'[r].step = p.step /\ post'[r].combo = p.combo /\ post'[r].gid = p.gid
        /\ line'[r] = line[r] /\ pc[r] # "idle"
    BY <1>1, <1>4 DEF LegStep, GetId, IncrId, IncrApplied, SetnxId, SetnxApplied, GetWinner,
       StoreSeg, SegApplied, Post
  <2>2. p.step \in {"out", "back"}
    BY <1>1, <2>1 DEF PostOK
  <2>3. QED
    BY <1>1, <2>1, <2>2, PostIdsStay DEF PostOK, Id
<1>5. CASE LegDone(r)
  <2>1. pc[r] = "ready" /\ pc'[r] = "idle" /\ fltid' = fltid /\ LegEnds(r, held[r])
    BY <1>1, <1>5 DEF LegDone, Finish, Drop, Goto, store
  <2>2. held[r] = fltid'[line[r]] /\ held[r] \in 0..MaxId
    BY <1>1, <2>1 DEF RtIInv, IInv, HeldIsOwn
  <2>3. QED
    BY <1>1, <2>1, <2>2, LegEndsOK
<1>6. CASE LegFails(r)
  <2>1. pc[r] # "idle" /\ pc'[r] = "idle" /\ LegEnds(r, 0)
    BY <1>1, <1>6 DEF LegFails, Abort, LostReply, IncrApplied, SetnxApplied, SegApplied, Drop, Goto
  <2>2. QED
    BY <1>1, <2>1, LegEndsOK, MaxIdIsNat
<1>7. ASSUME NEW s \in Segs, BackBegin(r, s)
      PROVE  PostOK(r)'
  <2>1. p.step = "back" /\ post' = post /\ line'[r] = p.combo[2] /\ fltid' = fltid
    BY <1>1, <1>7 DEF BackBegin, Begin, store
  <2>2. QED
    BY <1>1, <2>1 DEF PostOK, Id
<1>8. CASE ListRead(r)
  <2>1. p.step = "hget" /\ pc[r] = "idle" /\ pc' = pc /\ fltid' = fltid
    BY <1>1, <1>8 DEF ListRead, PostOK, idVars
  <2>2. CASE p.gid = 0
    BY <1>1, <1>2, <1>8, <2>1, <2>2 DEF ListRead
  <2>3. CASE p.gid # 0 /\ Contains(rtlist[p.gid], p.bid)
    <3>1. p.gid \in Ids /\ rtlist[p.gid] \in Seq(Entry)
      BY <1>1, <2>3, MaxIdIsNat DEF Post, Ids, RtIInv, RtTypeOK
    <3>2. p.bid \in Entry
      BY <3>1, <2>3 DEF Contains
    <3>3. p.bid # Nil
      BY <3>2, MaxIdIsNat DEF Entry, Nil, Ids
    <3>4. /\ post'[r].step = "price" /\ post'[r].combo = p.combo /\ post'[r].gid = p.gid
          /\ post'[r].bid = p.bid
      BY <1>1, <1>8, <2>3 DEF ListRead, Post
    <3>5. QED
      BY <1>1, <2>1, <2>3, <3>3, <3>4 DEF PostOK, Id
  <2>4. CASE p.gid # 0 /\ ~Contains(rtlist[p.gid], p.bid)
    <3>1. p.gid \in Ids
      BY <1>1, <2>4, MaxIdIsNat DEF Post, Ids
    <3>2. ListOK(p.gid, rtlist[p.gid])
      BY <3>1 DEF RtIInv, ListsOK
    <3>3. /\ post'[r].step = "hset" /\ post'[r].combo = p.combo /\ post'[r].gid = p.gid
          /\ post'[r].bid = p.bid /\ post'[r].tmpbid = rtlist[p.gid]
      BY <1>1, <1>8, <2>4 DEF ListRead, Post
    <3>4. ListOK(p.gid, rtlist[p.gid]) => ListOK(post[r].gid, post[r].tmpbid)'
      BY <2>1, <3>3 DEF ListOK, PairOwned, Key, Id
    <3>5. QED
      BY <1>1, <2>1, <2>4, <3>2, <3>3, <3>4 DEF PostOK, Id
  <2>5. QED
    BY <2>2, <2>3, <2>4
<1>9. CASE ListWrite(r)
  <2>1. p.step = "hset" /\ pc[r] = "idle" /\ pc' = pc /\ fltid' = fltid
    BY <1>1, <1>9 DEF ListWrite, PostOK, idVars
  <2>2. CASE p.bid = Nil
    BY <1>1, <1>2, <1>9, <2>1, <2>2 DEF ListWrite
  <2>3. CASE p.bid # Nil
    <3>1. /\ post'[r].step = "price" /\ post'[r].combo = p.combo /\ post'[r].gid = p.gid
          /\ post'[r].bid = p.bid
      BY <1>1, <1>9, <2>3 DEF ListWrite, Post
    <3>2. QED
      BY <1>1, <2>1, <2>3, <3>1 DEF PostOK, Id
  <2>4. QED
    BY <2>2, <2>3
<1>10. CASE PriceWrite(r)
  BY <1>1, <1>2, <1>10 DEF PriceWrite, PostOK, idVars
<1>11. CASE PostEnds(r)
  BY <1>1, <1>2, <1>11 DEF PostEnds, Abort, Drop, Goto, idVars
<1>12. QED
  BY <1>3, <1>4, <1>5, <1>6, <1>7, <1>8, <1>9, <1>10, <1>11 DEF PostStep, PostProgress
-----------------------------------------------------------------------------
(* The keys. *)

\* What a step may write to the three keys.
LEMMA KeyWrites ==
  ASSUME RtIInv, [RtNext]_rtVars
  PROVE  /\ \/ rtlist' = rtlist
            \/ \E r \in RtReqs : /\ post[r].step = "hset"
                                 /\ rtlist' = [rtlist EXCEPT ![post[r].gid] = NewList(r)]
         /\ \/ prirt' = prirt
            \/ \E r \in RtReqs :
                 /\ post[r].step = "price"
                 /\ prirt' = [prirt EXCEPT ![<<post[r].gid, post[r].bid.id>>] = post[r].combo]
         /\ \/ segrt' = segrt
            \/ \E g \in Gets : GetNote(g)
<1>1. CASE UNCHANGED rtVars
  BY <1>1 DEF rtVars, rtKeys
<1>2. ASSUME NEW r \in RtReqs, PostStep(r), ~ListWrite(r), ~PriceWrite(r), ~PostEnds(r)
      PROVE  UNCHANGED rtKeys
  BY <1>2 DEF PostStep, PostBegin, PostProgress, LegStep, LegDone, LegFails, LegEnds,
     BackBegin, ListRead
<1>3. ASSUME NEW r \in RtReqs, ListWrite(r)
      PROVE  /\ post[r].step = "hset" /\ rtlist' = [rtlist EXCEPT ![post[r].gid] = NewList(r)]
             /\ prirt' = prirt /\ segrt' = segrt
  BY <1>3 DEF ListWrite
<1>4. ASSUME NEW r \in RtReqs, PriceWrite(r)
      PROVE  /\ post[r].step = "price" /\ rtlist' = rtlist /\ segrt' = segrt
             /\ prirt' = [prirt EXCEPT ![<<post[r].gid, post[r].bid.id>>] = post[r].combo]
  BY <1>4 DEF PriceWrite
<1>5. ASSUME NEW r \in RtReqs, PostEnds(r)
      PROVE  /\ segrt' = segrt
             /\ \/ rtlist' = rtlist /\ prirt' = prirt
                \/ /\ post[r].step = "hset" /\ prirt' = prirt
                   /\ rtlist' = [rtlist EXCEPT ![post[r].gid] = NewList(r)]
                \/ /\ post[r].step = "price" /\ rtlist' = rtlist
                   /\ prirt' = [prirt EXCEPT ![<<post[r].gid, post[r].bid.id>>] = post[r].combo]
  BY <1>5 DEF PostEnds, rtKeys
<1>6. ASSUME NEW g \in Gets, GetBegin(g) \/ GetProgress(g)
      PROVE  rtlist' = rtlist /\ prirt' = prirt /\ (segrt' = segrt \/ GetNote(g))
  BY <1>6 DEF GetBegin, GetProgress, GetLists, GetPrice, GetNote, GetAnswer, GetEnd, GetUpdate
<1>7. ASSUME NEW q \in Lookups, LookProgress(q) \/ \E x \in Lines \cup Combos : LookBegin(q, x)
      PROVE  UNCHANGED rtKeys
  BY <1>7 DEF LookBegin, LookProgress, LookId, LookPair, LookOne, LookOut, LookBack, LookEnd,
     LookUpdate
<1>8. ASSUME NEW r \in RtReqs, PostStep(r)
      PROVE  /\ segrt' = segrt
             /\ \/ rtlist' = rtlist /\ prirt' = prirt
                \/ /\ post[r].step = "hset" /\ prirt' = prirt
                   /\ rtlist' = [rtlist EXCEPT ![post[r].gid] = NewList(r)]
                \/ /\ post[r].step = "price" /\ rtlist' = rtlist
                   /\ prirt' = [prirt EXCEPT ![<<post[r].gid, post[r].bid.id>>] = post[r].combo]
  BY <1>2, <1>3, <1>4, <1>5, <1>8 DEF rtKeys
<1>9. RtNext \/ UNCHANGED rtVars
  OBVIOUS
<1>10. RtNext => \/ \E r \in RtReqs : PostStep(r)
                 \/ \E g \in Gets : GetBegin(g) \/ GetProgress(g)
                 \/ \E q \in Lookups : \/ \E x \in Lines \cup Combos : LookBegin(q, x)
                                       \/ LookProgress(q)
  BY DEF RtNext, Posting, Failing, Getting, Looking, PostStep
<1>11. CASE \E r \in RtReqs : PostStep(r)
  BY <1>8, <1>11
<1>12. CASE \E g \in Gets : GetBegin(g) \/ GetProgress(g)
  BY <1>6, <1>12
<1>13. CASE \E q \in Lookups : LookProgress(q) \/ \E x \in Lines \cup Combos : LookBegin(q, x)
  BY <1>7, <1>13 DEF rtKeys
<1>14. QED
  BY <1>1, <1>9, <1>10, <1>11, <1>12, <1>13

\* The lists stay owned and without repetition.
LEMMA ListsStep ==
  ASSUME RtIInv, KeepsIds, [RtNext]_rtVars
  PROVE  ListsOK' /\ rtlist' \in [Ids -> Seq(Entry)]
<1>1. rtlist \in [Ids -> Seq(Entry)] /\ ListsOK
  BY DEF RtIInv, RtTypeOK
<1>2. ASSUME NEW i \in Ids
      PROVE  rtlist'[i] \in Seq(Entry) /\ ListOK(i, rtlist'[i])
  <2>1. CASE rtlist' = rtlist
    BY <1>1, <2>1 DEF ListsOK
  <2>2. ASSUME NEW r \in RtReqs, post[r].step = "hset",
               rtlist' = [rtlist EXCEPT ![post[r].gid] = NewList(r)]
        PROVE  rtlist'[i] \in Seq(Entry) /\ ListOK(i, rtlist'[i])
    <3>1. rtlist'[i] = IF i = post[r].gid THEN NewList(r) ELSE rtlist[i]
      BY <1>1, <2>2
    <3>2. QED
      BY <1>1, <2>2, <3>1, NewListOK DEF ListsOK
  <2>3. QED
    BY <2>1, <2>2, KeyWrites
<1>3. ASSUME NEW i \in Ids
      PROVE  ListOK(i, rtlist[i])'
  BY <1>2, ListStays DEF ListOK, PairOwned
<1>4. rtlist' = [i \in Ids |-> rtlist'[i]]
  BY <1>1, KeyWrites
<1>5. QED
  BY <1>2, <1>3, <1>4 DEF ListsOK

\* A price stays where it is, with the combination it belongs to: no other
\* combination has its key.
LEMMA PricesStep ==
  ASSUME RtIInv, KeepsIds, [RtNext]_rtVars
  PROVE  /\ PricesOK'
         /\ prirt' \in [Ids \X Ids -> Combos \cup {None}]
         /\ \A k \in Ids \X Ids : prirt[k] # None => prirt'[k] = prirt[k]
<1>1. prirt \in [Ids \X Ids -> Combos \cup {None}] /\ PricesOK /\ IInv
  BY DEF RtIInv, RtTypeOK
<1>2. CASE prirt' = prirt
  <2>1. ASSUME NEW k \in Ids \X Ids, prirt[k] # None
        PROVE  Key(prirt[k])' = k
    BY <1>1, <1>2, <2>1, KeyStays DEF PricesOK, Key, Id
  <2>2. QED
    BY <1>1, <1>2, <2>1 DEF PricesOK
<1>3. ASSUME NEW r \in RtReqs, post[r].step = "price",
             prirt' = [prirt EXCEPT ![<<post[r].gid, post[r].bid.id>>] = post[r].combo]
      PROVE  /\ PricesOK'
             /\ prirt' \in [Ids \X Ids -> Combos \cup {None}]
             /\ \A k \in Ids \X Ids : prirt[k] # None => prirt'[k] = prirt[k]
  <2> DEFINE c == post[r].combo
             key == <<post[r].gid, post[r].bid.id>>
  <2>1. c \in Combos /\ key \in Ids \X Ids /\ Key(c) = key
    <3>1. post[r] \in Post /\ PostOK(r)
      BY DEF RtIInv, RtTypeOK
    <3>2. post[r].gid \in Ids /\ post[r].bid \in Entry
      BY <1>3, <3>1, MaxIdIsNat DEF PostOK, Post, Ids
    <3>3. QED
      BY <1>3, <3>1, <3>2 DEF PostOK, Entry, Key
  <2>2. \A k \in Ids \X Ids : prirt'[k] = IF k = key THEN c ELSE prirt[k]
    BY <1>1, <1>3
  <2>3. ASSUME NEW k \in Ids \X Ids, prirt[k] # None
        PROVE  prirt'[k] = prirt[k] /\ prirt[k] \in Combos /\ Key(prirt[k]) = k
    <3>1. prirt[k] \in Combos /\ Key(prirt[k]) = k
      BY <1>1, <2>3 DEF PricesOK
    <3>2. k = key => prirt[k] = c
      BY <1>1, <2>1, <3>1, KeyIsOwn
    <3>3. QED
      BY <2>2, <3>1, <3>2
  <2>4. ASSUME NEW k \in Ids \X Ids, prirt'[k] # None
        PROVE  Key(prirt'[k]) = k /\ prirt'[k] \in Combos
    BY <1>1, <2>1, <2>2, <2>3, <2>4 DEF PricesOK
  <2>5. ASSUME NEW k \in Ids \X Ids, prirt'[k] # None
        PROVE  Key(prirt[k])' = k
    <3>1. Key(prirt'[k]) \in Ids \X Ids
      BY <2>4, <2>5
    <3>2. \A d \in Combos : Key(d) \in Ids \X Ids => <<fltid'[d[1]], fltid'[d[2]]>> = Key(d)
      BY KeyStays DEF Key, Id
    <3>3. QED
      BY <2>4, <2>5, <3>1, <3>2 DEF Key, Id
  <2>6. prirt' \in [Ids \X Ids -> Combos \cup {None}]
    BY <1>1, <1>3, <2>1
  <2>7. QED
    BY <2>3, <2>5, <2>6 DEF PricesOK
<1>4. QED
  BY <1>2, <1>3, KeyWrites

\* The ids noted for a combination are its own, and stay.
LEMMA NotesStep ==
  ASSUME RtIInv, KeepsIds, [RtNext]_rtVars
  PROVE  /\ NotesOK'
         /\ segrt' \in [Combos -> (Ids \X Ids) \cup {None}]
         /\ \A c \in Combos : segrt[c] = Key(c) => segrt'[c] = Key(c)
<1>1. segrt \in [Combos -> (Ids \X Ids) \cup {None}] /\ NotesOK
  BY DEF RtIInv, RtTypeOK
<1>2. ASSUME NEW c \in Combos
      PROVE  /\ segrt'[c] \in (Ids \X Ids) \cup {None}
             /\ segrt'[c] # None => segrt'[c] = Key(c)
             /\ segrt[c] = Key(c) => segrt'[c] = Key(c)
  <2>1. CASE segrt' = segrt
    BY <1>1, <2>1 DEF NotesOK
  <2>2. ASSUME NEW g \in Gets, GetNote(g)
        PROVE  /\ segrt'[c] \in (Ids \X Ids) \cup {None}
               /\ segrt'[c] # None => segrt'[c] = Key(c)
               /\ segrt[c] = Key(c) => segrt'[c] = Key(c)
    <3> DEFINE at == get[g].at
    <3>1. get[g] \in Get /\ GetOK(g) /\ get[g].step = "setnx" /\ PricesOK
      BY <2>2 DEF RtIInv, RtTypeOK, GetNote
    <3>2. at \in Combos \X Ids \X Ids /\ prirt[<<at[2], at[3]>>] = at[1]
      BY <3>1 DEF GetOK, Get
    <3>3. at[1] \in Combos /\ <<at[2], at[3]>> \in Ids \X Ids /\ at[1] # None
      BY <3>2, CombosAreNew
    <3>4. Key(at[1]) = <<at[2], at[3]>>
      BY <3>1, <3>2, <3>3 DEF PricesOK
    <3>5. segrt' = [segrt EXCEPT ![at[1]] = IF @ = None THEN <<at[2], at[3]>> ELSE @]
      BY <2>2 DEF GetNote
    <3>6. segrt'[c] = IF c = at[1] /\ segrt[c] = None THEN <<at[2], at[3]>> ELSE segrt[c]
      BY <1>1, <3>5
    <3>7. QED
      BY <1>1, <3>3, <3>4, <3>6 DEF NotesOK
  <2>3. QED
    BY <2>1, <2>2, KeyWrites
<1>3. ASSUME NEW c \in Combos, segrt'[c] # None
      PROVE  segrt'[c] = Key(c)'
  BY <1>2, <1>3, KeyStays
<1>4. segrt' = [c \in Combos |-> segrt'[c]]
  BY <1>1, KeyWrites DEF GetNote
<1>5. QED
  BY <1>2, <1>3, <1>4 DEF NotesOK
-----------------------------------------------------------------------------
(* The searches. *)

\* What a search has shown, holds or will read stays right while others work.
LEMMA GetStays ==
  ASSUME RtIInv, KeepsIds, [RtNext]_rtVars, NEW g \in Gets, get'[g] = get[g]
  PROVE  GetOK(g)'
<1> DEFINE s == get[g]
<1>1. s \in Get /\ GetOK(g) /\ prirt \in [Ids \X Ids -> Combos \cup {None}]
  BY DEF RtIInv, RtTypeOK
<1>2. \A k \in Ids \X Ids : prirt[k] # None => prirt'[k] = prirt[k]
  BY PricesStep
<1>3. ASSUME NEW c \in Shown(g)
      PROVE  /\ Key(c)' \in Ids \X Ids /\ prirt'[Key(c)'] = c /\ segrt'[c] = Key(c)'
  <2>1. c \in Combos
    <3>1. s.bigtab \in Seq(Combos)
      BY <1>1 DEF Get
    <3>2. QED
      BY <3>1 DEF Shown
  <2>2. Key(c) \in Ids \X Ids /\ prirt[Key(c)] = c /\ segrt[c] = Key(c) /\ c # None
    BY <1>1, <2>1, CombosAreNew DEF GetOK
  <2>3. Key(c)' = Key(c)
    BY <2>1, <2>2, KeyStays
  <2>4. prirt'[Key(c)] = c
    BY <1>2, <2>2
  <2>5. segrt'[c] = Key(c)
    BY <2>1, <2>2, NotesStep
  <2>6. QED
    BY <2>2, <2>3, <2>4, <2>5
<1>4. Shown(g)' = Shown(g) /\ InHand(g)' = InHand(g)
  BY DEF Shown, InHand
<1>5. ASSUME s.step = "setnx"
      PROVE  prirt'[<<s.at[2], s.at[3]>>] = s.at[1]
  <2>1. s.at \in Combos \X Ids \X Ids /\ prirt[<<s.at[2], s.at[3]>>] = s.at[1]
    BY <1>1, <1>5 DEF GetOK, Get
  <2>2. s.at[1] # None /\ <<s.at[2], s.at[3]>> \in Ids \X Ids
    BY <2>1, CombosAreNew
  <2>3. QED
    BY <1>2, <2>1, <2>2
<1>6. ASSUME NEW c \in s.due, c \in Ahead(g)
      PROVE  c \in Ahead(g)'
  <2>1. PICK x \in s.todo : c = prirt[<<x[1], x[2].id>>]
    BY <1>6 DEF Ahead
  <2>2. <<x[1], x[2].id>> \in Ids \X Ids
    BY <1>1 DEF Get, Entry
  <2>3. c # None
    BY <1>1 DEF GetOK
  <2>4. prirt'[<<x[1], x[2].id>>] = c
    BY <1>2, <2>1, <2>2, <2>3
  <2>5. QED
    BY <2>4 DEF Ahead
<1>7. \A c \in Shown(g)' : (Key(c) \in Ids \X Ids /\ prirt[Key(c)] = c /\ segrt[c] = Key(c))'
  BY <1>3, <1>4 DEF Key, Id
<1>8. s.step \in {"hget", "setnx", "done"} =>
        s.due \subseteq Shown(g)' \cup InHand(g)' \cup Ahead(g)'
  BY <1>1, <1>4, <1>6 DEF GetOK
<1>9. QED
  BY <1>1, <1>5, <1>7, <1>8 DEF GetOK

\* A step of a search loses no combination that was due and shows none that is not
\* priced and noted.
LEMMA GetOwnStep ==
  ASSUME RtIInv, NEW g \in Gets, GetBegin(g) \/ GetProgress(g)
  PROVE  GetOK(g)' /\ get'[g] \in Get
<1> DEFINE s == get[g]
<1>1. /\ s \in Get /\ GetOK(g) /\ get \in [Gets -> Get]
      /\ prirt \in [Ids \X Ids -> Combos \cup {None}]
      /\ segrt \in [Combos -> (Ids \X Ids) \cup {None}]
  BY DEF RtIInv, RtTypeOK
<1>2. fltid' = fltid /\ prirt' = prirt
  BY DEF GetBegin, GetProgress, GetLists, GetPrice, GetNote, GetAnswer, GetEnd, GetUpdate, idVars
<1>3. CASE GetBegin(g)
  <2>1. get'[g] = [s EXCEPT !.step = "hgetall"] /\ segrt' = segrt /\ s.step = "idle"
    BY <1>1, <1>3 DEF GetBegin, GetUpdate
  <2>2. /\ get'[g] \in Get /\ get'[g].step = "hgetall" /\ get'[g].bigtab = <<>>
        /\ get'[g].due = s.due
    BY <1>1, <2>1 DEF Get, GetOK
  <2>3. QED
    BY <1>1, <2>2 DEF GetOK, Shown
<1>4. CASE GetLists(g)
  <2> DEFINE priced == {prirt[<<x[1], x[2].id>>] : x \in Listed} \ {None}
  <2>1. get'[g] = [s EXCEPT !.step = "hget", !.todo = Listed, !.due = priced]
        /\ segrt' = segrt /\ s.step = "hgetall"
    BY <1>1, <1>4 DEF GetLists, GetUpdate
  <2>2. Listed \subseteq Ids \X Entry
    BY DEF Listed
  <2>3. priced \subseteq Combos
    <3>1. \A x \in Listed : <<x[1], x[2].id>> \in Ids \X Ids
      BY <2>2 DEF Entry
    <3>2. QED
      BY <1>1, <3>1
  <2>4. /\ get'[g].step = "hget" /\ get'[g].bigtab = <<>>
        /\ get'[g].due = priced /\ get'[g].todo = Listed
    BY <1>1, <2>1 DEF Get, GetOK
  <2>5. get'[g] \in Get
    BY <1>1, <2>1, <2>2, <2>3 DEF Get
  <2>6. priced \subseteq Ahead(g)'
    BY <1>2, <2>4 DEF Ahead
  <2>7. None \notin priced /\ Shown(g)' = {}
    BY <2>4 DEF Shown
  <2>8. QED
    BY <2>4, <2>5, <2>6, <2>7 DEF GetOK
<1>5. ASSUME NEW x \in Ids \X Entry, GetPrice(g, x)
      PROVE  GetOK(g)' /\ get'[g] \in Get
  <2> DEFINE c == prirt[<<x[1], x[2].id>>]
  <2>1. /\ s.step = "hget" /\ x \in s.todo /\ segrt' = segrt
        /\ get'[g] = [s EXCEPT !.todo = @ \ {x},
                               !.step = IF c = None THEN "hget" ELSE "setnx",
                               !.at = IF c = None THEN None ELSE <<c, x[1], x[2].id>>]
    BY <1>1, <1>5 DEF GetPrice, GetUpdate
  <2>2. x[1] \in Ids /\ x[2].id \in Ids /\ c \in Combos \cup {None}
    BY <1>1 DEF Entry
  <2>3. get'[g] \in Get
    <3>1. s.todo \ {x} \in SUBSET (Ids \X Entry)
      BY <1>1 DEF Get
    <3>2. CASE c = None
      BY <1>1, <2>1, <3>1, <3>2 DEF Get
    <3>3. CASE c # None
      <4>1. <<c, x[1], x[2].id>> \in Combos \X Ids \X Ids
        BY <2>2, <3>3
      <4> HIDE DEF c
      <4>2. QED
        BY <1>1, <2>1, <3>1, <3>3, <4>1 DEF Get
    <3>4. QED
      BY <3>2, <3>3
  <2>4. /\ get'[g].todo = s.todo \ {x} /\ get'[g].due = s.due /\ get'[g].bigtab = s.bigtab
        /\ get'[g].step = IF c = None THEN "hget" ELSE "setnx"
        /\ c # None => get'[g].at = <<c, x[1], x[2].id>>
    BY <1>1, <2>1 DEF Get
  <2>5. Shown(g)' = Shown(g) /\ (c # None => InHand(g)' = {c})
    BY <2>4 DEF Shown, InHand
  <2>6. Ahead(g) \subseteq Ahead(g)' \cup {c}
    BY <1>2, <2>4 DEF Ahead
  <2>7. InHand(g) = {} /\ None \notin s.due
    BY <1>1, <2>1 DEF GetOK, InHand
  <2>8. s.due \subseteq Shown(g)' \cup InHand(g)' \cup Ahead(g)'
    <3>1. s.due \subseteq Shown(g) \cup InHand(g) \cup Ahead(g)
      BY <1>1, <2>1 DEF GetOK
    <3>2. QED
      BY <2>5, <2>6, <2>7, <3>1
  <2>9. \A d \in Shown(g)' : (Key(d) \in Ids \X Ids /\ prirt[Key(d)] = d /\ segrt[d] = Key(d))'
    BY <1>1, <1>2, <2>1, <2>5 DEF GetOK, Key, Id
  <2>10. c # None => (/\ get[g].at \in Combos \X Ids \X Ids
                      /\ prirt[<<get[g].at[2], get[g].at[3]>>] = get[g].at[1])'
    BY <1>2, <2>2, <2>4
  <2>11. QED
    BY <2>3, <2>4, <2>7, <2>8, <2>9, <2>10 DEF GetOK
<1>6. CASE GetNote(g)
  <2> DEFINE at == s.at
             c == at[1]
  <2>1. /\ s.step = "setnx"
        /\ segrt' = [segrt EXCEPT ![c] = IF @ = None THEN <<at[2], at[3]>> ELSE @]
        /\ get'[g] = [s EXCEPT !.step = "hget", !.at = None, !.bigtab = Append(@, c)]
    BY <1>1, <1>6 DEF GetNote, GetUpdate
  <2>2. at \in Combos \X Ids \X Ids /\ prirt[<<at[2], at[3]>>] = c /\ s.bigtab \in Seq(Combos)
    BY <1>1, <2>1 DEF GetOK, Get
  <2>3. c \in Combos /\ <<at[2], at[3]>> \in Ids \X Ids /\ c # None
    BY <2>2, CombosAreNew
  <2>4. Key(c) = <<at[2], at[3]>>
    BY <2>2, <2>3 DEF RtIInv, PricesOK
  <2>5. segrt'[c] = Key(c)
    BY <1>1, <2>1, <2>3, <2>4 DEF RtIInv, NotesOK
  <2>6. \A d \in Combos : segrt[d] = Key(d) => segrt'[d] = Key(d)
    BY <1>1, <2>1, <2>5
  <2>7. /\ get'[g].step = "hget" /\ get'[g].bigtab = Append(s.bigtab, c)
        /\ get'[g].due = s.due /\ get'[g].todo = s.todo
    BY <1>1, <2>1 DEF Get
  <2>8. get'[g] \in Get
    <3>1. Append(s.bigtab, c) \in Seq(Combos)
      BY <2>2, <2>3
    <3>2. QED
      BY <1>1, <2>1, <3>1 DEF Get
  <2>9. Shown(g)' = Shown(g) \cup {c} /\ Shown(g) \subseteq Combos
    <3> HIDE DEF c
    <3>1. /\ DOMAIN Append(s.bigtab, c) = 1..Len(s.bigtab) + 1
          /\ DOMAIN s.bigtab = 1..Len(s.bigtab) /\ Len(s.bigtab) \in Nat
          /\ Append(s.bigtab, c)[Len(s.bigtab) + 1] = c
          /\ \A k \in 1..Len(s.bigtab) : Append(s.bigtab, c)[k] = s.bigtab[k]
      BY <2>2, <2>3
    <3>2. \A k \in 1..Len(s.bigtab) + 1 : k \in 1..Len(s.bigtab) \/ k = Len(s.bigtab) + 1
      BY <3>1
    <3>3. \A k \in 1..Len(s.bigtab) : s.bigtab[k] \in Combos
      BY <2>2
    <3>4. Len(s.bigtab) + 1 \in 1..Len(s.bigtab) + 1
          /\ 1..Len(s.bigtab) \subseteq 1..Len(s.bigtab) + 1
      BY <3>1
    <3>5. QED
      BY <2>7, <3>1, <3>2, <3>3, <3>4 DEF Shown
  <2>10. Ahead(g)' = Ahead(g) /\ InHand(g) = {c}
    BY <1>2, <2>1, <2>7 DEF Ahead, InHand
  <2>11. s.due \subseteq Shown(g)' \cup InHand(g)' \cup Ahead(g)'
    <3>1. s.due \subseteq Shown(g) \cup InHand(g) \cup Ahead(g)
      BY <1>1, <2>1 DEF GetOK
    <3>2. QED
      BY <2>9, <2>10, <3>1
  <2>12. \A d \in Shown(g)' : Key(d) \in Ids \X Ids /\ prirt[Key(d)] = d /\ segrt'[d] = Key(d)
    BY <1>1, <2>2, <2>3, <2>4, <2>5, <2>6, <2>9 DEF GetOK
  <2>13. QED
    BY <1>1, <1>2, <2>7, <2>8, <2>11, <2>12 DEF GetOK, Key, Id
<1>7. CASE GetAnswer(g)
  <2>1. get'[g] = [s EXCEPT !.step = "done"] /\ segrt' = segrt /\ s.step = "hget" /\ s.todo = {}
    BY <1>1, <1>7 DEF GetAnswer, GetUpdate
  <2>2. /\ get'[g] \in Get /\ get'[g].step = "done" /\ get'[g].bigtab = s.bigtab
        /\ get'[g].due = s.due /\ get'[g].todo = s.todo
    BY <1>1, <2>1 DEF Get
  <2>3. Shown(g)' = Shown(g) /\ InHand(g) = {} /\ Ahead(g) = {}
    BY <2>1, <2>2 DEF Shown, InHand, Ahead
  <2>4. s.due \subseteq Shown(g)'
    BY <1>1, <2>1, <2>3 DEF GetOK
  <2>5. QED
    BY <1>1, <1>2, <2>1, <2>2, <2>3, <2>4 DEF GetOK, Key, Id
<1>8. CASE GetEnd(g)
  <2>1. get'[g] = NoGet
    BY <1>1, <1>8 DEF GetEnd, GetUpdate
  <2>2. NoGet \in Get
    BY DEF NoGet, Get
  <2>3. QED
    BY <2>1, <2>2 DEF GetOK, NoGet, Shown
<1>9. QED
  BY <1>3, <1>4, <1>5, <1>6, <1>7, <1>8 DEF GetProgress
-----------------------------------------------------------------------------
(* The lookups. *)

\* A set of one element is listed as that element.
LEMMA OneInSeq ==
  ASSUME NEW S, IsFiniteSet(S), Cardinality(S) = 1
  PROVE  \E v \in S : S = {v} /\ SetToSeq(S) = <<v>>
<1>1. PICK v : S = {v}
  BY FS_Singleton
<1>2. SetToSeq(S) = CHOOSE f \in [1..1 -> {v}] : IsInjective(f)
  BY <1>1 DEF SetToSeq
<1>3. \A f \in [1..1 -> {v}] : f = <<v>>
  OBVIOUS
<1>4. <<v>> \in [1..1 -> {v}] /\ IsInjective(<<v>>)
  BY DEF IsInjective
<1>5. QED
  BY <1>1, <1>2, <1>3, <1>4

\* A segment list found under the id of a line is that line's.
LEMMA SegIsOwn ==
  ASSUME RtIInv, NEW l \in Lines, fltid[l] # 0, NEW v \in seg[fltid[l]]
  PROVE  v \in Lines \X Segs /\ v[1] = l
<1>1. fltid[l] \in Ids
  BY MaxIdIsNat DEF RtIInv, IInv, TypeOK, Ids
<1>2. v \in Lines \X Segs /\ fltid[v[1]] = fltid[l]
  BY <1>1 DEF RtIInv, IInv, TypeOK, SegOwned
<1>3. QED
  BY <1>2 DEF RtIInv, IInv, UniqueIds

\* A lookup stays right while others work: what it waits for never changes its owner.
LEMMA LookStays ==
  ASSUME RtIInv, KeepsIds, NEW q \in Lookups, look'[q] = look[q]
  PROVE  LookOK(q)'
<1> DEFINE l == look[q]
<1>1. l \in Look /\ LookOK(q)
  BY DEF RtIInv, RtTypeOK
<1>2. l.step = "one" => l.g = fltid'[l.fltid]
  BY <1>1 DEF LookOK, Id, KeepsIds
<1>3. l.step \in {"out", "back"} => Key(l.fltid)' = <<l.g, l.b>>
  <2> SUFFICES ASSUME l.step \in {"out", "back"} PROVE Key(l.fltid)' = <<l.g, l.b>>
    OBVIOUS
  <2>1. l.fltid \in Combos /\ Key(l.fltid) = <<l.g, l.b>> /\ l.g \in Ids /\ l.b \in Ids
    BY <1>1, MaxIdIsNat DEF LookOK, Look, Ids
  <2>2. \A c \in Combos : Key(c) \in Ids \X Ids => <<fltid'[c[1]], fltid'[c[2]]>> = Key(c)
    BY KeyStays DEF Key, Id
  <2>3. QED
    BY <2>1, <2>2 DEF Key, Id
<1>4. QED
  BY <1>1, <1>2, <1>3 DEF LookOK, Id, Key

\* The answer part of the invariant, for one lookup.
AnswerIsOwn(q) ==
  look[q].step = "done" =>
    LET x == look[q].fltid
        lines == IF x \in Lines THEN <<x>> ELSE x
    IN  [k \in DOMAIN look[q].answer |-> look[q].answer[k][1]] = lines

\* A step of a lookup.
LEMMA LookOwnStep ==
  ASSUME RtIInv, NEW q \in Lookups,
         LookProgress(q) \/ \E x \in Lines \cup Combos : LookBegin(q, x)
  PROVE  LookOK(q)' /\ look'[q] \in Look /\ AnswerIsOwn(q)'
<1> DEFINE l == look[q]
<1>1. /\ l \in Look /\ LookOK(q) /\ look \in [Lookups -> Look]
      /\ fltid \in [Lines -> 0..MaxId] /\ seg \in [Ids -> SUBSET (Lines \X Segs)]
      /\ \A i \in Ids : IsFiniteSet(seg[i])
  BY DEF RtIInv, RtTypeOK, IInv, TypeOK
<1>2. fltid' = fltid
  BY DEF LookBegin, LookProgress, LookId, LookPair, LookOne, LookOut, LookBack, LookEnd,
     LookUpdate, idVars
<1>3. IsFiniteSet({}) /\ NoLook \in Look /\ NoLook.out = {} /\ NoLook.step = "idle"
  BY FS_EmptySet, MaxIdIsNat DEF NoLook, Look
<1>4. ASSUME look'[q] = NoLook
      PROVE  LookOK(q)' /\ look'[q] \in Look /\ AnswerIsOwn(q)'
  BY <1>3, <1>4 DEF LookOK, AnswerIsOwn
<1>5. ASSUME NEW x \in Lines \cup Combos, LookBegin(q, x)
      PROVE  LookOK(q)' /\ look'[q] \in Look /\ AnswerIsOwn(q)'
  <2>1. look'[q] = [NoLook EXCEPT !.step = "flt", !.fltid = x]
    BY <1>1, <1>5 DEF LookBegin, LookUpdate
  <2>2. look'[q] \in Look /\ look'[q].step = "flt" /\ look'[q].out = {}
    BY <1>3, <2>1 DEF NoLook, Look
  <2>3. QED
    BY <1>3, <2>2 DEF LookOK, AnswerIsOwn
<1>6. CASE LookId(q)
  <2>1. CASE l.fltid \in Lines /\ fltid[l.fltid] # 0
    <3>1. look'[q] = [l EXCEPT !.step = "one", !.g = fltid[l.fltid]]
      BY <1>1, <1>6, <2>1 DEF LookId, LookUpdate
    <3>2. /\ look'[q] \in Look /\ look'[q].step = "one" /\ look'[q].g = fltid[l.fltid]
          /\ look'[q].fltid = l.fltid /\ look'[q].out = l.out
      BY <1>1, <2>1, <3>1 DEF Look
    <3>3. QED
      BY <1>1, <1>2, <2>1, <3>2 DEF LookOK, Id, AnswerIsOwn
  <2>2. CASE ~(l.fltid \in Lines /\ fltid[l.fltid] # 0)
    <3>1. look'[q] = [l EXCEPT !.step = "segrt"]
      BY <1>1, <1>6, <2>2 DEF LookId, LookUpdate
    <3>2. look'[q] \in Look /\ look'[q].step = "segrt" /\ look'[q].out = l.out
      BY <1>1, <3>1 DEF Look
    <3>3. QED
      BY <1>1, <3>2 DEF LookOK, AnswerIsOwn
  <2>3. QED
    BY <2>1, <2>2
<1>7. CASE LookPair(q)
  <2> DEFINE c == l.fltid
  <2>1. CASE c \in Combos /\ segrt[c] # None
    <3>1. segrt[c] = Key(c) /\ segrt[c] \in Ids \X Ids
      BY <2>1 DEF RtIInv, RtTypeOK, NotesOK
    <3>2. look'[q] = [l EXCEPT !.step = "out", !.g = segrt[c][1], !.b = segrt[c][2]]
      BY <1>1, <1>7, <2>1 DEF LookPair, LookUpdate
    <3>3. segrt[c][1] \in 0..MaxId /\ segrt[c][2] \in 0..MaxId
          /\ segrt[c][1] # 0 /\ segrt[c][2] # 0
      BY <3>1, MaxIdIsNat DEF Ids
    <3>4. /\ look'[q] \in Look /\ look'[q].step = "out" /\ look'[q].fltid = c
          /\ look'[q].g = segrt[c][1] /\ look'[q].b = segrt[c][2] /\ look'[q].out = l.out
      BY <1>1, <3>2, <3>3 DEF Look
    <3>5. QED
      BY <1>1, <1>2, <2>1, <3>1, <3>3, <3>4 DEF LookOK, Key, Id, AnswerIsOwn
  <2>2. CASE ~(c \in Combos /\ segrt[c] # None)
    BY <1>1, <1>4, <1>7, <2>2 DEF LookPair, LookUpdate
  <2>3. QED
    BY <2>1, <2>2
<1>8. CASE LookOne(q)
  <2> DEFINE S == seg[l.g]
  <2>1. l.step = "one" /\ l.fltid \in Lines /\ l.g # 0 /\ l.g = fltid[l.fltid] /\ l.g \in Ids
    BY <1>1, <1>8, MaxIdIsNat DEF LookOne, LookOK, Look, Id, Ids
  <2>2. CASE Cardinality(S) = 1
    <3>1. look'[q] = [l EXCEPT !.step = "done", !.answer = SetToSeq(S)]
      BY <1>1, <1>8, <2>2 DEF LookOne, LookUpdate
    <3>2. PICK v \in S : SetToSeq(S) = <<v>>
      BY <1>1, <2>1, <2>2, OneInSeq
    <3>3. v \in Lines \X Segs /\ v[1] = l.fltid
      BY <2>1, SegIsOwn
    <3>4. <<v>> \in Seq(Lines \X Segs)
      BY <3>3
    <3> HIDE DEF S
    <3>5. /\ look'[q] \in Look /\ look'[q].step = "done" /\ look'[q].answer = <<v>>
          /\ look'[q].fltid = l.fltid /\ look'[q].out = l.out
      BY <1>1, <3>1, <3>2, <3>4 DEF Look
    <3>6. [k \in DOMAIN <<v>> |-> <<v>>[k][1]] = <<l.fltid>>
      BY <3>3
    <3>7. QED
      BY <1>1, <2>1, <3>5, <3>6 DEF LookOK, AnswerIsOwn
  <2>3. CASE Cardinality(S) # 1
    BY <1>1, <1>4, <1>8, <2>3 DEF LookOne, LookUpdate
  <2>4. QED
    BY <2>2, <2>3
<1>9. ASSUME l.step \in {"out", "back"}
      PROVE  /\ l.fltid \in Combos /\ l.fltid[1] \in Lines /\ l.fltid[2] \in Lines
             /\ l.g = fltid[l.fltid[1]] /\ l.b = fltid[l.fltid[2]]
             /\ l.g # 0 /\ l.b # 0 /\ l.g \in Ids /\ l.b \in Ids
  BY <1>1, <1>9, CombosAreLines, MaxIdIsNat DEF LookOK, Look, Key, Id, Ids
<1>10. CASE LookOut(q)
  <2>1. l.step = "out" /\ look'[q] = [l EXCEPT !.step = "back", !.out = seg[l.g]]
    BY <1>1, <1>10 DEF LookOut, LookUpdate
  <2>2. /\ look'[q] \in Look /\ look'[q].step = "back" /\ look'[q].out = seg[l.g]
        /\ look'[q].fltid = l.fltid /\ look'[q].g = l.g /\ look'[q].b = l.b
    BY <1>1, <1>9, <2>1 DEF Look
  <2>3. \A v \in seg[l.g] : v[1] = l.fltid[1]
    BY <1>9, <2>1, SegIsOwn
  <2>4. QED
    BY <1>1, <1>2, <1>9, <2>1, <2>2, <2>3 DEF LookOK, Key, Id, AnswerIsOwn
<1>11. CASE LookBack(q)
  <2> DEFINE S == seg[l.b]
  <2>1. l.step = "back" /\ \A v \in l.out : v[1] = l.fltid[1]
    BY <1>1, <1>11 DEF LookBack, LookOK
  <2>2. CASE Cardinality(l.out) = 1 /\ Cardinality(S) = 1
    <3>1. look'[q] = [l EXCEPT !.step = "done", !.answer = SetToSeq(l.out) \o SetToSeq(S)]
      BY <1>1, <1>11, <2>2 DEF LookBack, LookUpdate
    <3>2. PICK v \in l.out : SetToSeq(l.out) = <<v>>
      BY <1>1, <2>2, OneInSeq DEF LookOK
    <3>3. PICK w \in S : SetToSeq(S) = <<w>>
      BY <1>1, <1>9, <2>1, <2>2, OneInSeq
    <3>4. v \in Lines \X Segs /\ v[1] = l.fltid[1]
      BY <1>1, <2>1 DEF Look
    <3>5. w \in Lines \X Segs /\ w[1] = l.fltid[2]
      BY <1>9, <2>1, SegIsOwn
    <3>6. SetToSeq(l.out) \o SetToSeq(S) = <<v, w>> /\ <<v, w>> \in Seq(Lines \X Segs)
      <4>1. <<v>> \o <<w>> = <<v, w>>
        <5> DEFINE VS == Lines \X Segs
                   cat == <<v>> \o <<w>>
        <5>1. <<v>> \in Seq(VS) /\ <<w>> \in Seq(VS) /\ Len(<<v>>) = 1 /\ Len(<<w>>) = 1
              /\ <<v>>[1] = v /\ <<w>>[1] = w
          BY <3>4, <3>5
        <5> HIDE DEF VS
        <5>2. /\ cat \in Seq(VS) /\ Len(cat) = 1 + 1
              /\ \A k \in 1..1 + 1 : cat[k] = IF k <= 1 THEN <<v>>[k] ELSE <<w>>[k - 1]
          BY <5>1, ConcatProperties
        <5> HIDE DEF cat
        <5>3. Len(cat) = 2 /\ cat[1] = v /\ cat[2] = w
          BY <5>1, <5>2
        <5>4. cat = <<v, w>>
          BY <5>2, <5>3
        <5>5. QED
          BY <5>4 DEF cat
      <4>2. <<v, w>> \in Seq(Lines \X Segs)
        BY <3>4, <3>5
      <4>3. QED
        BY <3>2, <3>3, <4>1, <4>2, Zenon
    <3> HIDE DEF S
    <3>7. /\ look'[q] \in Look /\ look'[q].step = "done" /\ look'[q].answer = <<v, w>>
          /\ look'[q].fltid = l.fltid /\ look'[q].out = l.out
      BY <1>1, <3>1, <3>6 DEF Look
    <3>8. [k \in DOMAIN <<v, w>> |-> <<v, w>>[k][1]] = <<l.fltid[1], l.fltid[2]>>
      BY <3>4, <3>5
    <3>9. l.fltid = <<l.fltid[1], l.fltid[2]>> /\ l.fltid \notin Lines
      BY <1>9, <2>1, CombosAreLines, CombosAreNew
    <3>10. QED
      BY <1>1, <3>7, <3>8, <3>9 DEF LookOK, AnswerIsOwn
  <2>3. CASE ~(Cardinality(l.out) = 1 /\ Cardinality(S) = 1)
    BY <1>1, <1>4, <1>11, <2>3 DEF LookBack, LookUpdate
  <2>4. QED
    BY <2>2, <2>3
<1>12. CASE LookEnd(q)
  BY <1>1, <1>4, <1>12 DEF LookEnd, LookUpdate
<1>13. QED
  BY <1>5, <1>6, <1>7, <1>8, <1>10, <1>11, <1>12 DEF LookProgress
-----------------------------------------------------------------------------
(* The invariant. *)

\* Every seg: hash stays finite: one HSET adds one value.
LEMMA SegFinite ==
  ASSUME RtIInv, [Next]_idVars, NEW i \in Ids
  PROVE  IsFiniteSet(seg'[i])
<1>1. IsFiniteSet(seg[i]) /\ seg \in [Ids -> SUBSET (Lines \X Segs)]
  BY DEF RtIInv, IInv, TypeOK
<1>2. ASSUME NEW r \in Reqs, SegApplied(r)
      PROVE  IsFiniteSet(seg'[i])
  <2>1. seg'[i] = seg[i] \/ seg'[i] = seg[i] \cup {<<line[r], sg[r]>>}
    BY <1>1, <1>2 DEF SegApplied
  <2>2. IsFiniteSet(seg[i] \cup {<<line[r], sg[r]>>})
    BY <1>1, FS_AddElement, Zenon
  <2>3. QED
    BY <1>1, <2>1, <2>2
<1>3. ASSUME NEW r \in Reqs, Step(r), ~SegApplied(r)
      PROVE  seg' = seg
  BY <1>3 DEF Step, Begin, GetId, IncrId, IncrApplied, SetnxId, SetnxApplied, GetWinner,
     Index, StoreSeg, Finish, Abort, LostReply, store
<1>4. QED
  BY <1>1, <1>2, <1>3 DEF Next, idVars

\* Which actor moves, and what stays with the others.
LEMMA OneMoves ==
  ASSUME RtIInv, [RtNext]_rtVars
  PROVE  /\ \A r \in RtReqs : \/ PostStep(r)
                              \/ post'[r] = post[r] /\ pc'[r] = pc[r] /\ line'[r] = line[r]
         /\ \A g \in Gets : \/ GetBegin(g) \/ GetProgress(g)
                            \/ get'[g] = get[g]
         /\ \A q \in Lookups : \/ LookProgress(q) \/ \E x \in Lines \cup Combos : LookBegin(q, x)
                               \/ look'[q] = look[q]
<1>1. CASE UNCHANGED rtVars
  BY <1>1 DEF rtVars, idVars
<1>2. ASSUME NEW r \in RtReqs, PostStep(r)
      PROVE  UNCHANGED <<get, look>>
  BY <1>2 DEF PostStep, PostBegin, PostProgress, LegStep, LegDone, LegFails, LegEnds,
     BackBegin, ListRead, ListWrite, PriceWrite, PostEnds, Readers
<1>3. ASSUME NEW g \in Gets, GetBegin(g) \/ GetProgress(g)
      PROVE  /\ UNCHANGED <<post, idVars, look>>
             /\ \A h \in Gets : h # g => get'[h] = get[h]
  BY <1>3 DEF RtIInv, RtTypeOK, GetBegin, GetProgress, GetLists, GetPrice, GetNote, GetAnswer,
     GetEnd, GetUpdate
<1>4. ASSUME NEW q \in Lookups, LookProgress(q) \/ \E x \in Lines \cup Combos : LookBegin(q, x)
      PROVE  /\ UNCHANGED <<post, idVars, get>>
             /\ \A p \in Lookups : p # q => look'[p] = look[p]
  BY <1>4 DEF RtIInv, RtTypeOK, LookBegin, LookProgress, LookId, LookPair, LookOne, LookOut,
     LookBack, LookEnd, LookUpdate
<1>5. CASE \E r \in RtReqs : PostStep(r)
  BY <1>2, <1>5, OtherPosts
<1>6. CASE \E g \in Gets : GetBegin(g) \/ GetProgress(g)
  BY <1>3, <1>6 DEF idVars
<1>7. CASE \E q \in Lookups : LookProgress(q) \/ \E x \in Lines \cup Combos : LookBegin(q, x)
  BY <1>4, <1>7 DEF idVars
<1>8. QED
  BY <1>1, <1>5, <1>6, <1>7 DEF RtNext, Posting, Failing, Getting, Looking, PostStep

\* A step of a POST keeps its locals in their types.
LEMMA PostTyped ==
  ASSUME RtIInv, NEW r \in RtReqs, PostStep(r)
  PROVE  post'[r] \in Post
<1> DEFINE p == post[r]
<1>1. /\ p \in Post /\ PostOK(r) /\ post \in [RtReqs -> Post] /\ r \in Reqs
      /\ held \in [Reqs -> 0..MaxId] /\ rtlist \in [Ids -> Seq(Entry)]
  BY DEF RtIInv, RtTypeOK, IInv, TypeOK, Reqs
<1>2. NoPost \in Post
  BY MaxIdIsNat DEF NoPost, Post
<1>3. ASSUME NEW i \in 0..MaxId, LegEnds(r, i)
      PROVE  post'[r] \in Post
  <2>1. i # 0 => [id |-> i, str |-> p.str] \in Entry
    BY <1>1, MaxIdIsNat DEF Post, Entry, Ids
  <2>2. CASE p.step = "out"
    BY <1>1, <1>3, <2>2 DEF LegEnds, Post
  <2>3. CASE p.step # "out"
    <3> DEFINE b == IF i = 0 THEN Nil ELSE [id |-> i, str |-> p.str]
    <3>1. b \in Entry \cup {Nil}
      BY <2>1
    <3>2. post'[r] = [p EXCEPT !.step = "hget", !.str = FALSE, !.bid = b]
      BY <1>1, <1>3, <2>3 DEF LegEnds
    <3> HIDE DEF b
    <3>3. QED
      BY <1>1, <3>1, <3>2 DEF Post
  <2>4. QED
    BY <2>2, <2>3
<1>4. ASSUME NEW c \in Combos, NEW s \in Segs, PostBegin(r, c, s)
      PROVE  post'[r] \in Post
  BY <1>1, <1>4 DEF PostBegin, Post
<1>5. CASE LegStep(r)
  <2>1. CASE post' = post
    BY <1>1, <2>1
  <2>2. CASE post' = [post EXCEPT ![r].str = TRUE]
    <3>1. post'[r] = [p EXCEPT !.str = TRUE]
      BY <1>1, <2>2
    <3>2. QED
      BY <1>1, <3>1 DEF Post
  <2>3. QED
    BY <1>5, <2>1, <2>2 DEF LegStep
<1>6. CASE LegDone(r)
  BY <1>1, <1>3, <1>6 DEF LegDone
<1>7. CASE LegFails(r)
  BY <1>3, <1>7, MaxIdIsNat DEF LegFails
<1>8. ASSUME NEW s \in Segs, BackBegin(r, s)
      PROVE  post'[r] \in Post
  BY <1>1, <1>8 DEF BackBegin
<1>9. CASE ListRead(r)
  <2>1. CASE p.gid = 0
    BY <1>1, <1>2, <1>9, <2>1 DEF ListRead
  <2>2. CASE p.gid # 0 /\ Contains(rtlist[p.gid], p.bid)
    BY <1>1, <1>9, <2>2 DEF ListRead, Post
  <2>3. CASE p.gid # 0 /\ ~Contains(rtlist[p.gid], p.bid)
    <3>1. rtlist[p.gid] \in Seq(Entry)
      BY <1>1, <2>3, MaxIdIsNat DEF Post, Ids
    <3>2. post'[r] = [p EXCEPT !.step = "hset", !.tmpbid = rtlist[p.gid]]
      BY <1>1, <1>9, <2>3 DEF ListRead
    <3>3. QED
      BY <1>1, <3>1, <3>2 DEF Post
  <2>4. QED
    BY <2>1, <2>2, <2>3
<1>10. CASE ListWrite(r)
  <2>1. <<>> \in Seq(Entry)
    OBVIOUS
  <2>2. QED
    BY <1>1, <1>2, <1>10, <2>1 DEF ListWrite, Post
<1>11. CASE PriceWrite(r)
  BY <1>1, <1>2, <1>11 DEF PriceWrite
<1>12. CASE PostEnds(r)
  BY <1>1, <1>2, <1>12 DEF PostEnds
<1>13. QED
  BY <1>4, <1>5, <1>6, <1>7, <1>8, <1>9, <1>10, <1>11, <1>12 DEF PostStep, PostProgress

\* The invariant holds at the start.
LEMMA RtIInvInit == RtInit => RtIInv
<1> SUFFICES ASSUME RtInit PROVE RtIInv
  OBVIOUS
<1>1. IInv
  BY IInvInit DEF RtInit
<1>2. NoPost \in Post /\ NoGet \in Get /\ NoLook \in Look /\ <<>> \in Seq(Entry)
  BY MaxIdIsNat DEF NoPost, NoGet, NoLook, Post, Get, Look
<1>3. RtTypeOK
  BY <1>1, <1>2 DEF RtInit, RtTypeOK, IInv
<1>4. \A i \in Ids : IsFiniteSet(seg[i])
  BY FS_EmptySet DEF RtInit, Init
<1>5. ListsOK /\ PricesOK /\ NotesOK
  BY DEF RtInit, ListsOK, ListOK, IsInjective, PricesOK, NotesOK
<1>6. ASSUME NEW r \in RtReqs PROVE PostOK(r)
  BY DEF RtInit, Init, PostOK, NoPost, Reqs
<1>7. ASSUME NEW g \in Gets PROVE GetOK(g)
  BY DEF RtInit, GetOK, NoGet, Shown
<1>8. ASSUME NEW q \in Lookups PROVE LookOK(q)
  BY FS_EmptySet DEF RtInit, LookOK, NoLook
<1>9. LookupIsOwn
  BY DEF RtInit, LookupIsOwn, NoLook
<1>10. QED
  BY <1>1, <1>3, <1>4, <1>5, <1>6, <1>7, <1>8, <1>9 DEF RtIInv

\* Every step keeps it: one conjunct after the other.
LEMMA RtIInvStep == RtIInv /\ [RtNext]_rtVars => RtIInv'
<1> SUFFICES ASSUME RtIInv, [RtNext]_rtVars PROVE RtIInv'
  OBVIOUS
<1>1. IInv' /\ KeepsIds /\ [Next]_idVars
  BY RtStepIsStep, IInvStep, StepKeepsIds DEF RtIInv
<1>2. ListsOK' /\ rtlist' \in [Ids -> Seq(Entry)]
  BY <1>1, ListsStep
<1>3. PricesOK' /\ prirt' \in [Ids \X Ids -> Combos \cup {None}]
  BY <1>1, PricesStep
<1>4. NotesOK' /\ segrt' \in [Combos -> (Ids \X Ids) \cup {None}]
  BY <1>1, NotesStep
<1>5. \A i \in Ids : IsFiniteSet(seg'[i])
  BY <1>1, SegFinite
<1>6. post \in [RtReqs -> Post] /\ get \in [Gets -> Get] /\ look \in [Lookups -> Look]
  BY DEF RtIInv, RtTypeOK
<1>7. ASSUME NEW r \in RtReqs PROVE PostOK(r)' /\ post'[r] \in Post
  BY <1>1, <1>6, OneMoves, PostOwnStep, PostTyped, PostStays
<1>8. ASSUME NEW g \in Gets PROVE GetOK(g)' /\ get'[g] \in Get
  BY <1>1, <1>6, OneMoves, GetOwnStep, GetStays
<1>9. ASSUME NEW q \in Lookups PROVE LookOK(q)' /\ look'[q] \in Look /\ AnswerIsOwn(q)'
  <2>1. CASE look'[q] = look[q]
    <3>1. AnswerIsOwn(q)'
      BY <2>1 DEF AnswerIsOwn, RtIInv, LookupIsOwn
    <3>2. QED
      BY <1>1, <1>6, <2>1, <3>1, LookStays
  <2>2. CASE look'[q] # look[q]
    BY <2>2, OneMoves, LookOwnStep
  <2>3. QED
    BY <2>1, <2>2
<1>10. /\ post' = [r \in RtReqs |-> post'[r]] /\ get' = [g \in Gets |-> get'[g]]
       /\ look' = [q \in Lookups |-> look'[q]]
  <2>1. CASE UNCHANGED rtVars
    BY <1>6, <2>1 DEF rtVars
  <2>2. ASSUME NEW r \in RtReqs, PostStep(r)
        PROVE  post' = [x \in RtReqs |-> post'[x]] /\ get' = get /\ look' = look
    BY <1>6, <2>2 DEF PostStep, PostBegin, PostProgress, LegStep, LegDone, LegFails, LegEnds,
       BackBegin, ListRead, ListWrite, PriceWrite, PostEnds, Readers
  <2>3. ASSUME NEW g \in Gets, GetBegin(g) \/ GetProgress(g)
        PROVE  get' = [x \in Gets |-> get'[x]] /\ post' = post /\ look' = look
    BY <1>6, <2>3 DEF GetBegin, GetProgress, GetLists, GetPrice, GetNote, GetAnswer, GetEnd,
       GetUpdate
  <2>4. ASSUME NEW q \in Lookups,
               LookProgress(q) \/ \E x \in Lines \cup Combos : LookBegin(q, x)
        PROVE  look' = [x \in Lookups |-> look'[x]] /\ post' = post /\ get' = get
    BY <1>6, <2>4 DEF LookBegin, LookProgress, LookId, LookPair, LookOne, LookOut, LookBack,
       LookEnd, LookUpdate
  <2>5. QED
    BY <1>6, <2>1, <2>2, <2>3, <2>4 DEF RtNext, Posting, Failing, Getting, Looking, PostStep
<1>11. RtTypeOK'
  BY <1>1, <1>2, <1>3, <1>4, <1>7, <1>8, <1>9, <1>10 DEF RtTypeOK, IInv
<1>12. LookupIsOwn'
  BY <1>9 DEF AnswerIsOwn, LookupIsOwn
<1>13. QED
  BY <1>1, <1>2, <1>3, <1>4, <1>5, <1>7, <1>8, <1>9, <1>11, <1>12 DEF RtIInv

\* A POST that is about to write a list held that list before the step, or has
\* read it in the step.
LEMMA HoldsList ==
  ASSUME RtIInv, NEW r \in RtReqs, PostStep(r), post'[r].step = "hset"
  PROVE  \/ /\ post[r].step = "hset" /\ post'[r].gid = post[r].gid
            /\ post'[r].tmpbid = post[r].tmpbid
         \/ post'[r].tmpbid = rtlist[post'[r].gid] /\ rtlist' = rtlist
<1> DEFINE p == post[r]
<1>1. p \in Post /\ post \in [RtReqs -> Post]
  BY DEF RtIInv, RtTypeOK
<1>2. ASSUME NEW c \in Combos, NEW s \in Segs, PostBegin(r, c, s)
      PROVE  post'[r].step = "out"
  BY <1>1, <1>2 DEF PostBegin, NoPost
<1>3. CASE LegStep(r)
  <2>1. /\ post'[r].step = p.step /\ post'[r].gid = p.gid /\ post'[r].tmpbid = p.tmpbid
    BY <1>1, <1>3 DEF LegStep, Post
  <2>2. QED
    BY <2>1
<1>4. ASSUME NEW i \in 0..MaxId, LegEnds(r, i)
      PROVE  post'[r].step \in {"back", "hget"}
  BY <1>1, <1>4 DEF LegEnds, Post
<1>5. CASE LegDone(r)
  BY <1>4, <1>5 DEF LegDone, RtIInv, IInv, TypeOK, Reqs
<1>6. CASE LegFails(r)
  BY <1>4, <1>6, MaxIdIsNat DEF LegFails
<1>7. ASSUME NEW s \in Segs, BackBegin(r, s)
      PROVE  post' = post
  BY <1>7 DEF BackBegin
<1>8. CASE ListRead(r)
  <2>1. CASE p.gid = 0
    BY <1>1, <1>8, <2>1 DEF ListRead, NoPost
  <2>2. CASE p.gid # 0 /\ Contains(rtlist[p.gid], p.bid)
    <3>1. post'[r].step = "price"
      BY <1>1, <1>8, <2>2 DEF ListRead, Post
    <3>2. QED
      BY <3>1
  <2>3. CASE p.gid # 0 /\ ~Contains(rtlist[p.gid], p.bid)
    BY <1>1, <1>8, <2>3 DEF ListRead, Post, rtKeys
  <2>4. QED
    BY <2>1, <2>2, <2>3
<1>9. ASSUME ListWrite(r) \/ PriceWrite(r) \/ PostEnds(r)
      PROVE  post'[r].step \in {"idle", "price"}
  <2>1. CASE post'[r] = NoPost
    BY <2>1 DEF NoPost
  <2>2. CASE post'[r] = [p EXCEPT !.step = "price", !.tmpbid = <<>>]
    BY <1>1, <2>2 DEF Post
  <2>3. QED
    BY <1>1, <1>9, <2>1, <2>2 DEF ListWrite, PriceWrite, PostEnds
<1>10. QED
  BY <1>2, <1>3, <1>5, <1>6, <1>7, <1>8, <1>9 DEF PostStep, PostProgress

\* A settled return line stays where it is, and settled.
LEMMA SettledStep ==
  ASSUME RtIInv, [RtNext]_rtVars, NEW i \in Ids, NEW k \in Settled(i)
  PROVE  k \in Settled(i)' /\ rtlist'[i][k] = rtlist[i][k]
<1>1. k \in DOMAIN rtlist[i] /\ rtlist \in [Ids -> Seq(Entry)]
  BY DEF Settled, RtIInv, RtTypeOK
<1>2. ASSUME NEW r \in RtReqs, post[r].step = "hset", post[r].gid = i
      PROVE  k \in DOMAIN post[r].tmpbid /\ post[r].tmpbid[k] = rtlist[i][k]
  BY <1>2 DEF Settled
<1>3. k \in DOMAIN rtlist'[i] /\ rtlist'[i][k] = rtlist[i][k]
  <2>1. CASE rtlist' = rtlist
    BY <1>1, <2>1
  <2>2. ASSUME NEW r \in RtReqs, post[r].step = "hset",
               rtlist' = [rtlist EXCEPT ![post[r].gid] = NewList(r)]
        PROVE  k \in DOMAIN rtlist'[i] /\ rtlist'[i][k] = rtlist[i][k]
    <3>1. CASE post[r].gid # i
      BY <1>1, <2>2, <3>1
    <3>2. CASE post[r].gid = i
      <4> DEFINE t == post[r].tmpbid
                 b == post[r].bid
      <4>1. k \in DOMAIN t /\ t[k] = rtlist[i][k]
        BY <1>2, <2>2, <3>2
      <4>2. t \in Seq(Entry) /\ b \in Entry \cup {Nil}
        BY DEF RtIInv, RtTypeOK, Post
      <4>3. rtlist'[i] = IF b = Nil THEN t ELSE Append(t, b)
        BY <1>1, <2>2, <3>2 DEF NewList
      <4> HIDE DEF t, b
      <4>4. b # Nil => k \in DOMAIN Append(t, b) /\ Append(t, b)[k] = t[k]
        BY <4>1, <4>2
      <4>5. QED
        BY <4>1, <4>3, <4>4
    <3>3. QED
      BY <3>1, <3>2
  <2>3. QED
    BY <2>1, <2>2, KeyWrites
<1>4. ASSUME NEW r \in RtReqs, post'[r].step = "hset", post'[r].gid = i
      PROVE  k \in DOMAIN post'[r].tmpbid /\ post'[r].tmpbid[k] = rtlist'[i][k]
  <2>1. CASE post'[r] = post[r]
    BY <1>2, <1>3, <1>4, <2>1
  <2>2. CASE PostStep(r)
    BY <1>1, <1>2, <1>3, <1>4, <2>2, HoldsList
  <2>3. QED
    BY <2>1, <2>2, OneMoves
<1>5. QED
  BY <1>3, <1>4 DEF Settled
-----------------------------------------------------------------------------
(* The theorems. *)

\* The invariant of the round-trip store holds in every reachable state.
THEOREM RtInductive == RtSpec => []RtIInv
  BY RtIInvInit, RtIInvStep, PTL DEF RtSpec

\* The round-trip store implements the id protocol: what FlightIds proves of ids
\* and segments holds while the store runs on top of it.
THEOREM RtImplementsIds == RtSpec => Spec
<1>1. RtInit => Init
  BY DEF RtInit
<1>2. QED
  BY <1>1, RtInductive, RtStepIsStep, PTL DEF RtSpec, Spec

\* Every list entry, price and noted pair belongs to the combination whose lines
\* own the ids (rt/receiveprice.lua:222-256, 311).
THEOREM RtCombosOwned == RtSpec => []CombosOwned
<1>1. RtIInv => CombosOwned
  <2> SUFFICES ASSUME RtIInv PROVE CombosOwned
    OBVIOUS
  <2>1. ASSUME NEW x \in Listed
        PROVE  \E c \in Combos : Key(c) = <<x[1], x[2].id>>
    <3>1. x[1] \in Ids /\ Contains(rtlist[x[1]], x[2])
      BY DEF Listed
    <3>2. rtlist[x[1]] \in Seq(Entry) /\ ListOK(x[1], rtlist[x[1]])
      BY <3>1 DEF RtIInv, RtTypeOK, ListsOK
    <3>3. PICK k \in DOMAIN rtlist[x[1]] : rtlist[x[1]][k] = x[2]
      BY <3>1, <3>2 DEF Contains
    <3>4. QED
      BY <3>2, <3>3 DEF ListOK, PairOwned
  <2>2. DOMAIN prirt = Ids \X Ids
    BY DEF RtIInv, RtTypeOK
  <2>3. QED
    BY <2>1, <2>2 DEF CombosOwned, RtIInv, PricesOK, NotesOK
<1>2. QED
  BY <1>1, RtInductive, PTL

\* However many posts race, a return line is listed at most once as a number and
\* once as a string (rt/receiveprice.lua:233-249).
THEOREM RtListedTwiceAtMost == RtSpec => []ListedTwiceAtMost
<1>1. RtIInv => ListedTwiceAtMost
  BY DEF RtIInv, ListsOK, ListOK, ListedTwiceAtMost
<1>2. QED
  BY <1>1, RtInductive, PTL

\* A search shows every combination that was listed and priced when it read the
\* lists, each priced and noted for getseg (rt/receiveprice.lua:287-330).
THEOREM RtAnswerComplete == RtSpec => []AnswerComplete
<1>1. RtIInv => AnswerComplete
  <2> SUFFICES ASSUME RtIInv, NEW g \in Gets, get[g].step = "done"
               PROVE  /\ get[g].due \subseteq Shown(g)
                      /\ \A c \in Shown(g) : prirt[Key(c)] = c /\ segrt[c] = Key(c)
    BY DEF AnswerComplete, Shown
  <2>1. GetOK(g)
    BY DEF RtIInv
  <2>2. InHand(g) = {} /\ Ahead(g) = {}
    BY <2>1 DEF GetOK, InHand, Ahead
  <2>3. QED
    BY <2>1, <2>2 DEF GetOK
<1>2. QED
  BY <1>1, RtInductive, PTL

\* getseg answers with the segments of the lines it was asked for, across the three
\* scripts that write the keys it reads (rt/getseg.lua).
THEOREM RtLookupIsOwn == RtSpec => []LookupIsOwn
<1>1. RtIInv => LookupIsOwn
  BY DEF RtIInv
<1>2. QED
  BY <1>1, RtInductive, PTL

\* Posts for one outbound line overwrite each other's list, but never lose a return
\* line every one of them has read (rt/receiveprice.lua:225-249).
THEOREM RtReturnsSettle == RtSpec => ReturnsSettle
<1>1. RtIInv /\ [RtNext]_rtVars =>
        [\A i \in Ids : \A k \in Settled(i) :
            k \in Settled(i)' /\ rtlist'[i][k] = rtlist[i][k]]_rtVars
  BY SettledStep
<1>2. QED
  BY <1>1, RtInductive, PTL DEF RtSpec, ReturnsSettle
=============================================================================
