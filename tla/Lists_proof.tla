----------------------------- MODULE Lists_proof -----------------------------
(***************************************************************************)
(* Proofs about the components that keep lists in redis or in a shared     *)
(* dictionary, for every number of requests, searches and lines:           *)
(*   OtaPrices  a list has one fare of a line, and settled fares stay;     *)
(*   CombQueue  copies of a search are bounded, accepted ones are kept;    *)
(*   PriceSrv   every fare record is in one place, and a search that was   *)
(*              alone answers what local tables would.                     *)
(* Sets of places in sequences carry the counting: a command adds a place, *)
(* takes one away, or moves the others by a bijection.  Induction over a   *)
(* position or a recursive function is by least counterexample (LeastOf).  *)
(***************************************************************************)
EXTENDS CombQueue, OtaPrices, PriceSrv, FiniteSetTheorems, WellFoundedInduction,
        SequenceTheorems, TLAPS

-----------------------------------------------------------------------------
(* Lists. *)

\* Every set of naturals has a least one.
LEMMA LeastOf ==
  ASSUME NEW S \in SUBSET Nat, S # {}
  PROVE  \E m \in S : \A k \in S : m <= k
<1>1. PICK m \in S : \A k \in S : ~(<<k, m>> \in OpToRel(<, Nat))
  BY NatLessThanWellFounded, WFMin
<1>2. \A k \in S : ~(k < m)
  BY <1>1 DEF OpToRel
<1>3. QED
  BY <1>2

\* The places of x in q.
PlacesOf(q, x) == {i \in DOMAIN q : q[i] = x}
Occurs(q, x) == Cardinality(PlacesOf(q, x))

\* There are finitely many, and none if and only if x is not in q.
LEMMA OccursType ==
  ASSUME NEW S, NEW q \in Seq(S), NEW x
  PROVE  /\ IsFiniteSet(PlacesOf(q, x))
         /\ Occurs(q, x) \in Nat
         /\ Occurs(q, x) = 0 <=> ~Contains(q, x)
<1>1. PlacesOf(q, x) \subseteq 1..Len(q)
  BY DEF PlacesOf
<1>2. IsFiniteSet(1..Len(q))
  <2>1. Len(q) \in Int
    BY LenProperties
  <2>2. QED
    BY <2>1, FS_Interval
<1>3. IsFiniteSet(PlacesOf(q, x)) /\ Occurs(q, x) \in Nat
  BY <1>1, <1>2, FS_Subset, FS_CardinalityType DEF Occurs
<1>4. Occurs(q, x) = 0 <=> PlacesOf(q, x) = {}
  BY <1>3, FS_EmptySet DEF Occurs
<1>5. PlacesOf(q, x) = {} <=> ~Contains(q, x)
  BY DEF PlacesOf, Contains
<1>6. QED
  BY <1>3, <1>4, <1>5

\* A bijection of places keeps their number.
LEMMA SameOccurs ==
  ASSUME NEW S, NEW q \in Seq(S), NEW r \in Seq(S), NEW x,
         NEW f \in Bijection(PlacesOf(q, x), PlacesOf(r, x))
  PROVE  Occurs(q, x) = Occurs(r, x)
  BY OccursType, FS_Bijection DEF Occurs, ExistsBijection

\* Concatenation adds the numbers.
LEMMA OccursConcat ==
  ASSUME NEW S, NEW q \in Seq(S), NEW r \in Seq(S), NEW x
  PROVE  /\ q \o r \in Seq(S)
         /\ Occurs(q \o r, x) = Occurs(q, x) + Occurs(r, x)
<1> DEFINE P == PlacesOf(q, x)
           R == {Len(q) + i : i \in PlacesOf(r, x)}
           f == [i \in PlacesOf(r, x) |-> Len(q) + i]
<1>1. /\ Len(q) \in Nat /\ Len(r) \in Nat
      /\ DOMAIN q = 1..Len(q) /\ DOMAIN r = 1..Len(r)
      /\ q \o r \in Seq(S)
      /\ DOMAIN (q \o r) = 1..Len(q) + Len(r)
      /\ \A i \in 1..Len(q) : (q \o r)[i] = q[i]
      /\ \A i \in 1..Len(r) : (q \o r)[Len(q) + i] = r[i]
  OBVIOUS
<1>2. PlacesOf(q \o r, x) = P \cup R
  <2>1. PlacesOf(q \o r, x) \subseteq P \cup R
    <3>1. ASSUME NEW i \in 1..Len(q) + Len(r), (q \o r)[i] = x, i \notin 1..Len(q)
          PROVE  i \in R
      <4>1. i - Len(q) \in 1..Len(r) /\ i = Len(q) + (i - Len(q))
        BY <1>1, <3>1
      <4>2. i - Len(q) \in PlacesOf(r, x)
        BY <1>1, <3>1, <4>1 DEF PlacesOf
      <4>3. QED
        BY <4>1, <4>2
    <3>2. QED
      BY <1>1, <3>1 DEF PlacesOf
  <2>2. P \subseteq PlacesOf(q \o r, x)
    BY <1>1 DEF PlacesOf
  <2>3. R \subseteq PlacesOf(q \o r, x)
    BY <1>1 DEF PlacesOf
  <2>4. QED
    BY <2>1, <2>2, <2>3
<1>3. P \cap R = {}
  BY <1>1 DEF PlacesOf
<1>4. f \in Bijection(PlacesOf(r, x), R)
  BY <1>1 DEF PlacesOf, Bijection, Injection, Surjection, IsInjective
<1>5. IsFiniteSet(P) /\ IsFiniteSet(PlacesOf(r, x))
  BY OccursType
<1> HIDE DEF P, R, f
<1>6. IsFiniteSet(R) /\ Cardinality(R) = Occurs(r, x)
  BY <1>4, <1>5, FS_Bijection DEF ExistsBijection, Occurs
<1>7. Cardinality(P \cup R) = Cardinality(P) + Cardinality(R)
  <2>1. Cardinality(P) \in Nat /\ Cardinality(R) \in Nat
    BY <1>5, <1>6, FS_CardinalityType
  <2>2. Cardinality(P \cap R) = 0
    BY <1>3, FS_EmptySet
  <2>3. Cardinality(P \cup R) = Cardinality(P) + Cardinality(R) - Cardinality(P \cap R)
    BY <1>5, <1>6, FS_Union
  <2>4. QED
    BY <2>1, <2>2, <2>3
<1>8. QED
  BY <1>1, <1>2, <1>6, <1>7 DEF Occurs, P

LEMMA OccursOne ==
  ASSUME NEW e, NEW x
  PROVE  Occurs(<<e>>, x) = IF x = e THEN 1 ELSE 0
<1>1. PlacesOf(<<e>>, x) = IF x = e THEN {1} ELSE {}
  BY DEF PlacesOf
<1>2. QED
  BY <1>1, FS_Singleton, FS_EmptySet DEF Occurs

\* One more element, at the end, in front, or anywhere.
LEMMA OccursAdd ==
  ASSUME NEW S, NEW q \in Seq(S), NEW r \in Seq(S), NEW e \in S, NEW x
  PROVE  /\ q \o <<e>> \o r \in Seq(S)
         /\ Occurs(q \o <<e>> \o r, x)
              = Occurs(q, x) + (IF x = e THEN 1 ELSE 0) + Occurs(r, x)
<1> DEFINE w == <<e>>
<1>1. w \in Seq(S) /\ Occurs(w, x) = IF x = e THEN 1 ELSE 0
  BY OccursOne
<1> HIDE DEF w
<1> DEFINE u == q \o w
<1>2. Occurs(u, x) = Occurs(q, x) + Occurs(w, x) /\ u \in Seq(S)
  BY <1>1, OccursConcat
<1> HIDE DEF u
<1>3. Occurs(u \o r, x) = Occurs(u, x) + Occurs(r, x) /\ u \o r \in Seq(S)
  BY <1>2, OccursConcat
<1>4. QED
  BY <1>1, <1>2, <1>3 DEF u, w

LEMMA OccursAppend ==
  ASSUME NEW S, NEW q \in Seq(S), NEW e \in S, NEW x
  PROVE  /\ Append(q, e) \in Seq(S)
         /\ Occurs(Append(q, e), x) = Occurs(q, x) + (IF x = e THEN 1 ELSE 0)
<1> DEFINE w == <<e>>
<1>1. /\ w \in Seq(S) /\ Occurs(w, x) = IF x = e THEN 1 ELSE 0
      /\ Append(q, e) = q \o w
  BY OccursOne, AppendIsConcat
<1> HIDE DEF w
<1>2. Occurs(q \o w, x) = Occurs(q, x) + Occurs(w, x) /\ q \o w \in Seq(S)
  BY <1>1, OccursConcat
<1>3. QED
  BY <1>1, <1>2

LEMMA OccursPrepend ==
  ASSUME NEW S, NEW q \in Seq(S), NEW e \in S, NEW x
  PROVE  /\ <<e>> \o q \in Seq(S)
         /\ Occurs(<<e>> \o q, x) = Occurs(q, x) + (IF x = e THEN 1 ELSE 0)
<1> DEFINE w == <<e>>
<1>1. w \in Seq(S) /\ Occurs(w, x) = IF x = e THEN 1 ELSE 0
  BY OccursOne
<1>2. Occurs(q, x) \in Nat
  BY OccursType
<1> HIDE DEF w
<1>3. Occurs(w \o q, x) = Occurs(w, x) + Occurs(q, x) /\ w \o q \in Seq(S)
  BY <1>1, OccursConcat
<1>4. QED
  BY <1>1, <1>2, <1>3 DEF w

\* Without its head.
LEMMA OccursTail ==
  ASSUME NEW S, NEW q \in Seq(S), q # <<>>, NEW x
  PROVE  /\ Tail(q) \in Seq(S) /\ Head(q) \in S
         /\ Occurs(q, x) = Occurs(Tail(q), x) + (IF x = Head(q) THEN 1 ELSE 0)
<1> DEFINE h == Head(q)
           t == Tail(q)
<1>1. t \in Seq(S) /\ h \in S /\ q = <<h>> \o t
  OBVIOUS
<1> HIDE DEF h, t
<1>2. Occurs(<<h>> \o t, x) = Occurs(t, x) + (IF x = h THEN 1 ELSE 0)
  BY <1>1, OccursPrepend
<1>3. QED
  BY <1>1, <1>2 DEF h, t

\* A list is what is before a place, the element there, and what is after it.
LEMMA CutAt ==
  ASSUME NEW S, NEW q \in Seq(S), NEW i \in 1..Len(q)
  PROVE  /\ SubSeq(q, 1, i - 1) \in Seq(S)
         /\ SubSeq(q, i, Len(q)) \in Seq(S)
         /\ SubSeq(q, i + 1, Len(q)) \in Seq(S)
         /\ q = SubSeq(q, 1, i - 1) \o SubSeq(q, i, Len(q))
         /\ SubSeq(q, i, Len(q)) = <<q[i]>> \o SubSeq(q, i + 1, Len(q))
  OBVIOUS

LEMMA OccursInsert ==
  ASSUME NEW S, NEW q \in Seq(S), NEW i \in 1..Len(q), NEW e \in S, NEW x
  PROVE  /\ InsertAt(q, i, e) \in Seq(S)
         /\ Occurs(InsertAt(q, i, e), x) = Occurs(q, x) + (IF x = e THEN 1 ELSE 0)
<1> DEFINE u == SubSeq(q, 1, i - 1)
           v == SubSeq(q, i, Len(q))
<1>1. u \in Seq(S) /\ v \in Seq(S) /\ q = u \o v
  BY CutAt
<1> HIDE DEF u, v
<1>2. Occurs(q, x) = Occurs(u, x) + Occurs(v, x)
  BY <1>1, OccursConcat
<1>3. Occurs(u, x) \in Nat /\ Occurs(v, x) \in Nat
  BY <1>1, OccursType
<1>4. InsertAt(q, i, e) = u \o <<e>> \o v
  BY DEF InsertAt, u, v
<1>5. QED
  BY <1>1, <1>2, <1>3, <1>4, OccursAdd

LEMMA OccursRemove ==
  ASSUME NEW S, NEW q \in Seq(S), NEW i \in 1..Len(q), NEW x
  PROVE  /\ RemoveAt(q, i) \in Seq(S)
         /\ Occurs(q, x) = Occurs(RemoveAt(q, i), x) + (IF x = q[i] THEN 1 ELSE 0)
<1> DEFINE u == SubSeq(q, 1, i - 1)
           v == SubSeq(q, i + 1, Len(q))
<1>1. u \in Seq(S) /\ v \in Seq(S) /\ q[i] \in S
  BY CutAt, ElementOfSeq
<1>2. q = u \o (<<q[i]>> \o v) /\ <<q[i]>> \o v \in Seq(S)
  BY CutAt
<1>3. RemoveAt(q, i) = u \o v
  BY DEF RemoveAt
<1> HIDE DEF u, v
<1>4. Occurs(u, x) \in Nat /\ Occurs(v, x) \in Nat
  BY <1>1, OccursType
<1> DEFINE w == <<q[i]>> \o v
<1>5. Occurs(q, x) = Occurs(u, x) + Occurs(w, x)
  <2>1. q = u \o w /\ w \in Seq(S)
    BY <1>2
  <2> HIDE DEF w
  <2>2. Occurs(u \o w, x) = Occurs(u, x) + Occurs(w, x)
    BY <1>1, <2>1, OccursConcat
  <2>3. QED
    BY <2>1, <2>2
<1>6. Occurs(<<q[i]>> \o v, x) = Occurs(v, x) + (IF x = q[i] THEN 1 ELSE 0)
  BY <1>1, OccursPrepend
<1>7. Occurs(u \o v, x) = Occurs(u, x) + Occurs(v, x) /\ u \o v \in Seq(S)
  BY <1>1, OccursConcat
<1>8. QED
  BY <1>3, <1>4, <1>5, <1>6, <1>7

\* The first place of an element.
FirstOf(q, a) == SelectInSeq(q, LAMBDA x : x = a)

LEMMA FirstPlace ==
  ASSUME NEW S, NEW q \in Seq(S), NEW a, Contains(q, a)
  PROVE  FirstOf(q, a) \in 1..Len(q) /\ q[FirstOf(q, a)] = a
<1> DEFINE I == {i \in 1..Len(q) : q[i] = a}
<1>1. I # {} /\ I \in SUBSET Nat
  BY DEF Contains
<1>2. \E m \in I : \A k \in I : m <= k
  BY <1>1, LeastOf
<1>3. Min(I) \in I
  BY <1>2 DEF Min
<1>4. QED
  BY <1>1, <1>3 DEF SelectInSeq, FirstOf

LEMMA OccursRemoveFirst ==
  ASSUME NEW S, NEW q \in Seq(S), NEW a, NEW x
  PROVE  /\ RemoveFirst(q, a) \in Seq(S)
         /\ Occurs(q, x) = Occurs(RemoveFirst(q, a), x)
                             + (IF x = a /\ Contains(q, a) THEN 1 ELSE 0)
<1>1. CASE Contains(q, a)
  <2>1. FirstOf(q, a) \in 1..Len(q) /\ q[FirstOf(q, a)] = a
    BY <1>1, FirstPlace
  <2>2. RemoveFirst(q, a) = RemoveAt(q, FirstOf(q, a))
    BY <1>1 DEF RemoveFirst, Contains, FirstOf
  <2>3. QED
    BY <1>1, <2>1, <2>2, OccursRemove
<1>2. CASE ~Contains(q, a)
  <2>1. RemoveFirst(q, a) = q
    BY <1>2 DEF RemoveFirst, Contains
  <2>2. QED
    BY <1>2, <2>1, OccursType
<1>3. QED
  BY <1>1, <1>2

\* LREM 0: no copy stays, and the other elements all do.
LEMMA OccursWithout ==
  ASSUME NEW S, NEW q \in Seq(S), NEW a
  PROVE  /\ Without(q, a) \in Seq(S)
         /\ Occurs(Without(q, a), a) = 0
         /\ \A x : x # a => Occurs(Without(q, a), x) = Occurs(q, x)
<1> DEFINE kept == {i \in DOMAIN q : q[i] # a}
           upto(i) == {j \in kept : j <= i}
           n == Cardinality(kept)
           rank == [i \in kept |-> Cardinality(upto(i))]
           nth(k) == CHOOSE i \in kept : Cardinality(upto(i)) = k
           w == Without(q, a)
<1>1. kept \subseteq 1..Len(q) /\ kept \subseteq Nat /\ IsFiniteSet(kept) /\ n \in Nat
  <2>1. kept \subseteq 1..Len(q) /\ Len(q) \in Int /\ 1..Len(q) \subseteq Nat
    BY LenProperties
  <2>2. IsFiniteSet(1..Len(q))
    BY <2>1, FS_Interval
  <2> HIDE DEF kept
  <2>3. IsFiniteSet(kept)
    BY <2>1, <2>2, FS_Subset
  <2>4. QED
    BY <2>1, <2>3, FS_CardinalityType
<1>2. w = [k \in 1..n |-> q[nth(k)]]
  BY DEF Without
<1>3. rank \in Injection(kept, 1..n)
  <2>1. ASSUME NEW i \in kept
        PROVE  /\ IsFiniteSet(upto(i)) /\ Cardinality(upto(i)) \in 1..n
    <3>1. upto(i) \subseteq kept /\ i \in upto(i)
      BY <1>1
    <3>2. IsFiniteSet(upto(i)) /\ Cardinality(upto(i)) \in Nat /\ Cardinality(upto(i)) <= n
      BY <1>1, <3>1, FS_Subset, FS_CardinalityType
    <3>3. Cardinality(upto(i)) # 0
      BY <3>1, <3>2, FS_EmptySet
    <3>4. QED
      BY <1>1, <3>2, <3>3
  <2>2. ASSUME NEW i \in kept, NEW j \in kept, i < j
        PROVE  Cardinality(upto(i)) < Cardinality(upto(j))
    <3>1. upto(i) \subseteq upto(j) /\ j \in upto(j) /\ j \notin upto(i)
      BY <1>1, <2>2
    <3>2. IsFiniteSet(upto(j))
      BY <2>1
    <3> HIDE DEF upto
    <3>3. IsFiniteSet(upto(i)) /\ Cardinality(upto(i)) <= Cardinality(upto(j))
      BY <3>1, <3>2, FS_Subset
    <3>4. Cardinality(upto(i)) # Cardinality(upto(j))
      BY <3>1, <3>2, FS_Subset
    <3>5. QED
      BY <1>1, <2>1, <3>3, <3>4
  <2>3. ASSUME NEW i \in kept, NEW j \in kept, Cardinality(upto(i)) = Cardinality(upto(j))
        PROVE  i = j
    <3> DEFINE c(k) == Cardinality(upto(k))
    <3>1. c(i) \in 1..n /\ c(j) \in 1..n /\ c(i) = c(j)
      BY <2>1, <2>3
    <3>2. (i < j => c(i) < c(j)) /\ (j < i => c(j) < c(i))
      BY <2>2
    <3> HIDE DEF c, upto, n
    <3>3. i \in Nat /\ j \in Nat
      BY <1>1
    <3> HIDE DEF kept
    <3>4. QED
      BY <1>1, <3>1, <3>2, <3>3
  <2> HIDE DEF n, upto, kept
  <2>4. rank \in [kept -> 1..n]
    BY <2>1
  <2>5. QED
    BY <2>3, <2>4 DEF Injection, IsInjective
<1>4. ASSUME NEW k \in 1..n
      PROVE  \E i \in kept : Cardinality(upto(i)) = k
  <2>1. IsFiniteSet(1..n) /\ Cardinality(1..n) = n
    BY <1>1, FS_Interval
  <2> HIDE DEF kept, upto
  <2>2. rank \in Surjection(kept, 1..n)
    BY <1>1, <1>3, <2>1, FS_Surjection, FS_Injection
  <2>3. QED
    BY <2>2 DEF Surjection
<1>5. \A k \in 1..n : nth(k) \in kept /\ rank[nth(k)] = k
  <2> HIDE DEF kept, upto
  <2>1. QED
    BY <1>4
<1>6. \A i \in kept : rank[i] \in 1..n /\ nth(rank[i]) = i
  <2>1. \A i \in kept : rank[i] \in 1..n
    BY <1>3 DEF Injection
  <2>2. \A i \in kept : \A j \in kept : rank[i] = rank[j] => i = j
    BY <1>3 DEF Injection, IsInjective
  <2>3. \A i \in kept : nth(rank[i]) \in kept /\ rank[nth(rank[i])] = rank[i]
    BY <1>5, <2>1
  <2>4. QED
    BY <2>1, <2>2, <2>3
<1> HIDE DEF nth, rank, n
<1>7. w \in Seq(S) /\ DOMAIN w = 1..n /\ \A k \in 1..n : w[k] = q[nth(k)]
  <2>1. \A k \in 1..n : q[nth(k)] \in S
    BY <1>5
  <2> HIDE DEF w, kept
  <2>2. w \in [1..n -> S]
    BY <1>2, <2>1
  <2>3. QED
    BY <1>1, <1>2, <2>2, IsASeq
<1> HIDE DEF w
<1>8. Occurs(w, a) = 0
  <2>1. PlacesOf(w, a) = {}
    BY <1>5, <1>7 DEF PlacesOf
  <2>2. QED
    BY <2>1, FS_EmptySet DEF Occurs
<1>9. ASSUME NEW x, x # a
      PROVE  Occurs(w, x) = Occurs(q, x)
  <2> DEFINE f == [k \in PlacesOf(w, x) |-> nth(k)]
  <2>1. PlacesOf(q, x) \subseteq kept
    BY <1>9 DEF PlacesOf
  <2>2. \A k \in PlacesOf(w, x) : k \in 1..n /\ f[k] \in PlacesOf(q, x)
    BY <1>5, <1>7 DEF PlacesOf
  <2>3. \A i \in PlacesOf(q, x) : rank[i] \in PlacesOf(w, x) /\ f[rank[i]] = i
    BY <1>6, <1>7, <2>1 DEF PlacesOf
  <2>4. \A k, l \in PlacesOf(w, x) : f[k] = f[l] => k = l
    BY <1>5, <2>2
  <2>5. f \in Bijection(PlacesOf(w, x), PlacesOf(q, x))
    BY <2>2, <2>3, <2>4 DEF Bijection, Injection, Surjection, IsInjective
  <2>6. QED
    BY <1>7, <2>5, SameOccurs
<1>10. QED
  BY <1>7, <1>8, <1>9 DEF w
-----------------------------------------------------------------------------
(* CombQueue: what a command does to the number of copies of a search. *)

Queued == Args \cup RawArgs

LEMMA CopiesOccur ==
  \A a : Copies(a) = Occurs(queue, a) /\ (Copies(a))' = Occurs(queue', a)
BY DEF Copies, Occurs, PlacesOf

\* A search is filed if and only if there is a copy.
LEMMA FiledCopies ==
  ASSUME queue \in Seq(Queued), NEW a
  PROVE  Occurs(queue, a) \in Nat /\ (Filed(a) <=> Occurs(queue, a) > 0)
BY OccursType DEF Filed

LEMMA LinsertedEffect ==
  ASSUME queue \in Seq(Queued), NEW a \in Queued, NEW x
  PROVE  /\ Linserted(a) \in Seq(Queued)
         /\ Occurs(Linserted(a), x) = Occurs(queue, x) + (IF x = a /\ Filed(a) THEN 1 ELSE 0)
<1>1. Occurs(queue, x) \in Nat
  BY FiledCopies
<1>2. CASE Filed(a)
  <2>1. FirstOf(queue, a) \in 1..Len(queue)
    BY <1>2, FirstPlace DEF Filed
  <2>2. Linserted(a) = InsertAt(queue, FirstOf(queue, a), a)
    BY <1>2 DEF Linserted, FirstOf
  <2>3. QED
    BY <1>2, <2>1, <2>2, OccursInsert
<1>3. CASE ~Filed(a)
  BY <1>1, <1>3 DEF Linserted
<1>4. QED
  BY <1>2, <1>3

\* A command changes the number of copies of its own search only: LINSERT and the
\* pushes add one, LREM 1 takes one if there is one, LREM 0 takes them all.
LEMMA AppliedEffect ==
  ASSUME CombTypeOK, NEW h \in Handlers, req[h] \in Request
  PROVE  LET a == req[h].arg IN
         /\ a \in Args
         /\ Applied(h) \in Seq(Queued)
         /\ \A x : x # a => Occurs(Applied(h), x) = Occurs(queue, x)
         /\ req[h].pc = "linsert" =>
              Occurs(Applied(h), a) = Occurs(queue, a) + (IF Filed(a) THEN 1 ELSE 0)
         /\ req[h].pc \in {"rpush", "lpush"} =>
              Occurs(Applied(h), a) = Occurs(queue, a) + 1
         /\ req[h].pc = "lrem1" =>
              Occurs(queue, a) = Occurs(Applied(h), a) + (IF Filed(a) THEN 1 ELSE 0)
         /\ req[h].pc = "lrem0" => Occurs(Applied(h), a) = 0
<1> DEFINE a == req[h].arg
<1>1. /\ a \in Args /\ a \in Queued /\ queue \in Seq(Queued)
      /\ req[h].pc \in {"linsert", "rpush", "lpush", "lrem1", "lrem0"}
  BY DEF CombTypeOK, Request, Queued
<1> HIDE DEF a
<1>2. \A x : Occurs(queue, x) \in Nat
  BY <1>1, FiledCopies
<1>3. CASE req[h].pc = "linsert"
  <2>1. Applied(h) = Linserted(a)
    BY <1>3 DEF Applied, a
  <2>2. QED
    BY <1>1, <1>2, <1>3, <2>1, LinsertedEffect DEF a
<1>4. CASE req[h].pc = "rpush"
  <2>1. Applied(h) = Append(queue, a)
    BY <1>4 DEF Applied, a
  <2>2. QED
    BY <1>1, <1>2, <1>4, <2>1, OccursAppend DEF a
<1>5. CASE req[h].pc = "lpush"
  <2>1. Applied(h) = <<a>> \o queue
    BY <1>5 DEF Applied, a
  <2>2. QED
    BY <1>1, <1>2, <1>5, <2>1, OccursPrepend DEF a
<1>6. CASE req[h].pc = "lrem1"
  <2>1. Applied(h) = RemoveFirst(queue, a)
    BY <1>6 DEF Applied, a
  <2>2. Applied(h) \in Seq(Queued)
    BY <1>1, <2>1, OccursRemoveFirst
  <2>3. \A x : Occurs(Applied(h), x) \in Nat
    BY <2>2, OccursType
  <2>4. \A x : Occurs(queue, x)
                 = Occurs(Applied(h), x) + (IF x = a /\ Filed(a) THEN 1 ELSE 0)
    BY <1>1, <2>1, OccursRemoveFirst DEF Filed
  <2>5. QED
    BY <1>1, <1>2, <1>6, <2>2, <2>3, <2>4 DEF a
<1>7. CASE req[h].pc = "lrem0"
  <2>1. Applied(h) = Without(queue, a)
    BY <1>7 DEF Applied, a
  <2>2. QED
    BY <1>1, <1>7, <2>1, OccursWithout DEF a
<1>8. QED
  BY <1>1, <1>3, <1>4, <1>5, <1>6, <1>7

\* The requests for a that are at one of the commands pcs.
Sent(rq, a, pcs) == {h \in Handlers : rq[h].arg = a /\ rq[h].pc \in pcs}
NumberSent(rq, a, pcs) == Cardinality(Sent(rq, a, pcs))

LEMMA AtSent ==
  \A a, pcs : /\ At(a, pcs) = NumberSent(req, a, pcs)
              /\ (At(a, pcs))' = NumberSent(req', a, pcs)
BY DEF At, Sent, NumberSent

LEMMA SentType ==
  ASSUME NEW rq, NEW a, NEW pcs
  PROVE  /\ IsFiniteSet(Sent(rq, a, pcs))
         /\ NumberSent(rq, a, pcs) \in Nat
         /\ Cardinality(Handlers) \in Nat
         /\ NumberSent(rq, a, pcs) <= Cardinality(Handlers)
<1>1. Sent(rq, a, pcs) \subseteq Handlers
  BY DEF Sent
<1>2. QED
  BY <1>1, HandlersAreFinite, FS_Subset, FS_CardinalityType DEF NumberSent

\* When one request moves, the others count as before.
LEMMA SentMoves ==
  ASSUME NEW rq, NEW rr, NEW a, NEW pcs, NEW h \in Handlers,
         \A g \in Handlers : g # h => rr[g].arg = rq[g].arg /\ rr[g].pc = rq[g].pc
  PROVE  NumberSent(rr, a, pcs) + (IF h \in Sent(rq, a, pcs) THEN 1 ELSE 0)
           = NumberSent(rq, a, pcs) + (IF h \in Sent(rr, a, pcs) THEN 1 ELSE 0)
<1> DEFINE R == Sent(rq, a, pcs) \ {h}
<1>1. R = Sent(rr, a, pcs) \ {h} /\ h \notin R
  BY DEF Sent
<1>2. IsFiniteSet(R) /\ Cardinality(R) \in Nat
  BY SentType, FS_Subset, FS_CardinalityType
<1>3. Cardinality(R \cup {h}) = Cardinality(R) + 1
  BY <1>1, <1>2, FS_AddElement
<1>4. ASSUME NEW t, Sent(t, a, pcs) \ {h} = R
      PROVE  NumberSent(t, a, pcs) = Cardinality(R) + (IF h \in Sent(t, a, pcs) THEN 1 ELSE 0)
  <2>1. CASE h \in Sent(t, a, pcs)
    <3>1. Sent(t, a, pcs) = R \cup {h}
      BY <1>4, <2>1
    <3>2. QED
      BY <1>3, <2>1, <3>1 DEF NumberSent
  <2>2. CASE h \notin Sent(t, a, pcs)
    <3>1. Sent(t, a, pcs) = R
      BY <1>4, <2>2
    <3>2. QED
      BY <1>2, <2>2, <3>1 DEF NumberSent
  <2>3. QED
    BY <2>1, <2>2
<1>5. /\ NumberSent(rq, a, pcs) = Cardinality(R) + (IF h \in Sent(rq, a, pcs) THEN 1 ELSE 0)
      /\ NumberSent(rr, a, pcs) = Cardinality(R) + (IF h \in Sent(rr, a, pcs) THEN 1 ELSE 0)
  BY <1>1, <1>4
<1> HIDE DEF R
<1>6. QED
  BY <1>2, <1>5
-----------------------------------------------------------------------------
(* CombQueue: the inductive invariant. *)

LEMMA CombIInvInit == CombInit => CombIInv
<1> SUFFICES ASSUME CombInit
             PROVE  CombIInv
  OBVIOUS
<1>1. CombTypeOK
  BY BoundsAreNat DEF CombInit, CombTypeOK
<1>2. DuplicatesBounded
  <2> SUFFICES ASSUME NEW a \in Args
               PROVE  Copies(a) + At(a, {"rpush", "lpush"})
                        <= Cardinality(Handlers) + At(a, {"lrem1", "lrem0"}) + leaks
    BY DEF DuplicatesBounded
  <2>1. Copies(a) = 0
    <3>1. queue \in Seq(Queued) /\ ~Filed(a)
      BY DEF CombInit, Filed, Contains
    <3>2. QED
      BY <3>1, FiledCopies, CopiesOccur
  <2>2. /\ At(a, {"rpush", "lpush"}) \in Nat
        /\ At(a, {"rpush", "lpush"}) <= Cardinality(Handlers)
        /\ At(a, {"lrem1", "lrem0"}) \in Nat
        /\ Cardinality(Handlers) \in Nat
    BY AtSent, SentType
  <2>3. leaks = 0
    BY DEF CombInit
  <2>4. QED
    BY <2>1, <2>2, <2>3
<1>3. KeepsAccepted /\ FreshIsAlone /\ DueIsAlone /\ Doubled
  BY DEF CombInit, KeepsAccepted, FreshIsAlone, DueIsAlone, Doubled, NoPost
<1>4. QED
  BY <1>1, <1>2, <1>3 DEF CombIInv

\* What the invariant says of one search, with the copies and the commands counted.
LEMMA SearchCounts ==
  ASSUME CombIInv, NEW a \in Args
  PROVE  /\ Occurs(queue, a) \in Nat /\ leaks \in Nat /\ Cardinality(Handlers) \in Nat
         /\ NumberSent(req, a, {"rpush", "lpush"}) \in Nat
         /\ NumberSent(req, a, {"lrem1", "lrem0"}) \in Nat
         /\ Occurs(queue, a) + NumberSent(req, a, {"rpush", "lpush"})
              <= Cardinality(Handlers) + NumberSent(req, a, {"lrem1", "lrem0"}) + leaks
         /\ Filed(a) <=> Occurs(queue, a) > 0
<1>1. queue \in Seq(Queued) /\ leaks \in Nat
  BY BoundsAreNat DEF CombIInv, CombTypeOK, Queued
<1>2. Copies(a) + At(a, {"rpush", "lpush"})
        <= Cardinality(Handlers) + At(a, {"lrem1", "lrem0"}) + leaks
  BY DEF CombIInv, DuplicatesBounded
<1>3. QED
  BY <1>1, <1>2, FiledCopies, CopiesOccur, AtSent, SentType

\* A request goes on, or ends, after a command for its search.
Moves(h) ==
  /\ CombTypeOK'
  /\ \A g \in Handlers : g # h => req'[g] = req[g]
  /\ \/ req'[h] = NoPost
     \/ /\ req'[h] \in Request /\ req'[h].arg = req[h].arg
        /\ req'[h].fresh => req[h].fresh
  /\ \A x : x # req[h].arg => Occurs(queue', x) = Occurs(queue, x)
  /\ leaks' >= leaks
  /\ due' \subseteq due \cup {req[h].arg}
  /\ req[h].arg \in due' => \/ req[h].arg \in due
                            \/ req[h].fresh /\ ~req[h].noList /\ req'[h] = NoPost

\* The invariant of the searches no command was sent for is kept, and so is that no
\* other request overlaps a fresh one or an accepted search.
LEMMA OthersKept ==
  ASSUME CombIInv, NEW h \in Handlers, req[h] \in Request, Moves(h),
         NEW a, a = req[h].arg,
         Occurs(queue', a) + NumberSent(req', a, {"rpush", "lpush"})
           <= Cardinality(Handlers) + NumberSent(req', a, {"lrem1", "lrem0"}) + leaks',
         a \in due' => Occurs(queue', a) > 0 \/ req'[h].pc = "lpush",
         req'[h].pc = "lrem1" /\ (a \in due' \/ (req'[h].fresh /\ ~req'[h].noList))
           => Occurs(queue', a) >= 2
  PROVE  CombIInv'
<1>1. /\ a \in Args /\ CombTypeOK' /\ queue' \in Seq(Queued) /\ queue \in Seq(Queued)
      /\ leaks' \in Nat /\ leaks \in Nat /\ due \subseteq Args /\ due' \subseteq Args
  BY BoundsAreNat DEF CombIInv, CombTypeOK, Request, Moves, Queued
<1>2. /\ NoPost.arg = None /\ NoPost.fresh = FALSE /\ NoPost.pc = "idle" /\ None \notin Args
  BY NoneIsNew DEF NoPost
<1>3. \A g \in Handlers : g # h => req'[g] = req[g]
  BY DEF Moves
<1>4. /\ req'[h].arg # a => req'[h] = NoPost
      /\ req'[h].fresh => req[h].fresh /\ req'[h].arg = a
      /\ req'[h].arg \in Args => req'[h].arg = a
  BY <1>2 DEF Moves
<1>5. \A b : b # a => /\ Occurs(queue', b) = Occurs(queue, b)
                      /\ b \in due' => b \in due
  BY DEF Moves
<1>6. \A b : /\ Occurs(queue', b) \in Nat
             /\ Occurs(queue, b) \in Nat
             /\ Occurs(queue', b) > 0 => Contains(queue', b)
  BY <1>1, OccursType
<1>7. DuplicatesBounded'
  <2> SUFFICES ASSUME NEW b \in Args
               PROVE  Occurs(queue', b) + NumberSent(req', b, {"rpush", "lpush"})
                        <= Cardinality(Handlers) + NumberSent(req', b, {"lrem1", "lrem0"}) + leaks'
    BY CopiesOccur, AtSent DEF DuplicatesBounded
  <2>1. CASE b = a
    BY <2>1
  <2>2. CASE b # a
    <3>1. h \notin Sent(req, b, {"rpush", "lpush"}) /\ h \notin Sent(req', b, {"rpush", "lpush"})
          /\ h \notin Sent(req, b, {"lrem1", "lrem0"}) /\ h \notin Sent(req', b, {"lrem1", "lrem0"})
      BY <1>4, <2>2 DEF Sent
    <3>2. /\ NumberSent(req', b, {"rpush", "lpush"}) = NumberSent(req, b, {"rpush", "lpush"})
          /\ NumberSent(req', b, {"lrem1", "lrem0"}) = NumberSent(req, b, {"lrem1", "lrem0"})
      BY <1>3, <3>1, SentMoves, SentType
    <3>3. Occurs(queue', b) = Occurs(queue, b) /\ leaks' >= leaks
      BY <1>5, <2>2 DEF Moves
    <3>4. QED
      BY <1>1, <3>2, <3>3, SearchCounts
  <2>3. QED
    BY <2>1, <2>2
<1>8. KeepsAccepted'
  <2> SUFFICES ASSUME NEW b \in due'
               PROVE  \/ Contains(queue', b)
                      \/ \E g \in Handlers : req'[g].arg = b /\ req'[g].pc = "lpush"
    BY DEF KeepsAccepted, Filed, InTransit
  <2>1. CASE b = a
    <3>1. CASE req'[h].pc = "lpush"
      BY <1>2, <1>4, <2>1, <3>1
    <3>2. CASE Occurs(queue', a) > 0
      BY <1>6, <2>1, <3>2
    <3>3. QED
      BY <2>1, <3>1, <3>2
  <2>2. CASE b # a
    <3>1. b \in due /\ (Filed(b) \/ InTransit(b))
      BY <1>5, <2>2 DEF CombIInv, KeepsAccepted
    <3>2. CASE Filed(b)
      BY <1>1, <1>5, <1>6, <2>2, <3>2, FiledCopies
    <3>3. CASE InTransit(b)
      BY <1>3, <2>2, <3>3 DEF InTransit
    <3>4. QED
      BY <3>1, <3>2, <3>3
  <2>3. QED
    BY <2>1, <2>2
<1>9. \A g \in Handlers : req[h].fresh /\ req[g].arg = a => g = h
  BY DEF CombIInv, FreshIsAlone
<1>10. \A g \in Handlers : a \in due /\ req[g].arg = a => g = h
  BY DEF CombIInv, DueIsAlone
<1>11. FreshIsAlone'
  <2> SUFFICES ASSUME NEW f \in Handlers, NEW g \in Handlers,
                      req'[g].fresh, req'[f].arg = req'[g].arg
               PROVE  f = g
    BY DEF FreshIsAlone
  <2>1. CASE g = h
    BY <1>3, <1>4, <1>9, <2>1
  <2>2. CASE g # h /\ f # h
    BY <1>3, <2>2 DEF CombIInv, FreshIsAlone
  <2>3. CASE g # h /\ f = h
    <3>1. req[g].fresh /\ req'[h].arg = req[g].arg
      BY <1>3, <2>3
    <3>2. req[g].arg \in Args
      BY <1>2, <3>1 DEF CombIInv, CombTypeOK, Request
    <3>3. req[h].arg = req[g].arg
      BY <1>4, <3>1, <3>2
    <3>4. QED
      BY <2>3, <3>1, <3>3 DEF CombIInv, FreshIsAlone
  <2>4. QED
    BY <2>1, <2>2, <2>3
<1>12. DueIsAlone'
  <2> SUFFICES ASSUME NEW f \in Handlers, NEW g \in Handlers,
                      req'[g].arg \in due', req'[f].arg = req'[g].arg
               PROVE  f = g
    BY DEF DueIsAlone
  <2>1. CASE req'[g].arg = a
    <3>1. a \in due \/ (req[h].fresh /\ req'[h] = NoPost)
      BY <2>1 DEF Moves
    <3>2. \A k \in Handlers : req'[k].arg = a => req[k].arg = a
      BY <1>3
    <3>3. QED
      BY <1>9, <1>10, <2>1, <3>1, <3>2
  <2>2. CASE req'[g].arg # a
    <3>1. req'[g].arg \in Args /\ req'[g].arg \in due
      BY <1>1, <1>5, <2>2
    <3>2. g # h /\ f # h
      BY <1>4, <2>2, <3>1
    <3>3. QED
      BY <1>3, <3>1, <3>2 DEF CombIInv, DueIsAlone
  <2>3. QED
    BY <2>1, <2>2
<1>13. Doubled'
  <2> SUFFICES ASSUME NEW g \in Handlers, req'[g].pc = "lrem1",
                      req'[g].arg \in due' \/ (req'[g].fresh /\ ~req'[g].noList)
               PROVE  Occurs(queue', req'[g].arg) >= 2
    BY CopiesOccur DEF Doubled, Copies, Occurs, PlacesOf
  <2>1. CASE g = h
    <3>1. req'[h].arg = a
      BY <1>2, <1>4, <2>1
    <3>2. QED
      BY <2>1, <3>1
  <2>2. CASE g # h /\ req[g].arg = a
    <3>1. req'[g] = req[g]
      BY <1>3, <2>2
    <3>2. ~req[g].fresh
      BY <2>2 DEF CombIInv, FreshIsAlone
    <3>3. a \in due \/ req[h].fresh
      BY <2>2, <3>1, <3>2 DEF Moves
    <3>4. QED
      BY <1>9, <1>10, <2>2, <3>3
  <2>3. CASE g # h /\ req[g].arg # a
    <3>1. req'[g] = req[g]
      BY <1>3, <2>3
    <3>2. req[g].arg \in due \/ (req[g].fresh /\ ~req[g].noList)
      BY <1>5, <2>3, <3>1
    <3>3. Occurs(queue, req[g].arg) >= 2
      BY <3>1, <3>2, CopiesOccur DEF CombIInv, Doubled
    <3>4. QED
      BY <1>5, <2>3, <3>1, <3>3
  <2>4. QED
    BY <2>1, <2>2, <2>3
<1>14. QED
  BY <1>1, <1>7, <1>8, <1>11, <1>12, <1>13 DEF CombIInv

\* The commands' effect on the three numbers DuplicatesBounded compares.
LEMMA SentByOne ==
  ASSUME NEW h \in Handlers, \A g \in Handlers : g # h => req'[g] = req[g], NEW a
  PROVE  \A pcs : NumberSent(req', a, pcs)
                    + (IF req[h].arg = a /\ req[h].pc \in pcs THEN 1 ELSE 0)
                  = NumberSent(req, a, pcs)
                    + (IF req'[h].arg = a /\ req'[h].pc \in pcs THEN 1 ELSE 0)
<1> SUFFICES ASSUME NEW pcs
             PROVE  NumberSent(req', a, pcs)
                      + (IF req[h].arg = a /\ req[h].pc \in pcs THEN 1 ELSE 0)
                    = NumberSent(req, a, pcs)
                      + (IF req'[h].arg = a /\ req'[h].pc \in pcs THEN 1 ELSE 0)
  OBVIOUS
<1>1. NumberSent(req', a, pcs) + (IF h \in Sent(req, a, pcs) THEN 1 ELSE 0)
        = NumberSent(req, a, pcs) + (IF h \in Sent(req', a, pcs) THEN 1 ELSE 0)
  BY SentMoves
<1>2. /\ h \in Sent(req, a, pcs) <=> req[h].arg = a /\ req[h].pc \in pcs
      /\ h \in Sent(req', a, pcs) <=> req'[h].arg = a /\ req'[h].pc \in pcs
  BY DEF Sent
<1>3. QED
  BY <1>1, <1>2

\* A request that is at a command is not one of the idle ones.
LEMMA AtCommand ==
  ASSUME CombTypeOK, NEW h \in Handlers, req[h].pc # "idle"
  PROVE  /\ req[h] \in Request /\ req[h].arg \in Args /\ req[h].level \in Levels
         /\ req[h].fresh \in BOOLEAN /\ req[h].noList \in BOOLEAN
  BY DEF CombTypeOK, Request, NoPost

\* What AfterLinsert makes of the request.
LEMMA AfterLinsertMoves ==
  ASSUME CombTypeOK, NEW h \in Handlers, req[h].pc = "linsert", NEW reply,
         AfterLinsert(h, reply)
  PROVE  /\ req' \in [Handlers -> Request \cup {NoPost}]
         /\ \A g \in Handlers : g # h => req'[g] = req[g]
         /\ \/ req'[h] = NoPost /\ req[h].level \notin {0, 1}
            \/ /\ req'[h] \in Request /\ req'[h].arg = req[h].arg
               /\ req'[h].fresh <=> req[h].fresh /\ reply # None
               /\ req'[h].noList <=> reply = 0
               /\ req[h].level \in {0, 1}
               /\ req'[h].pc \in IF reply = -1 THEN {"rpush", "lpush"} ELSE {"lrem1", "lrem0"}
<1>1. /\ req[h] \in Request /\ req[h].fresh \in BOOLEAN
      /\ req \in [Handlers -> Request \cup {NoPost}]
  BY AtCommand DEF CombTypeOK
<1> DEFINE r(pc) == [req[h] EXCEPT !.pc = pc, !.noList = (reply = 0),
                                   !.fresh = req[h].fresh /\ reply # None]
<1>2. ASSUME NEW pc \in {"rpush", "lpush", "lrem1", "lrem0"}
      PROVE  /\ r(pc) \in Request /\ r(pc).pc = pc /\ r(pc).arg = req[h].arg
             /\ r(pc).fresh = (req[h].fresh /\ reply # None)
             /\ r(pc).noList = (reply = 0)
  <2>1. /\ (reply = 0) \in BOOLEAN /\ (req[h].fresh /\ reply # None) \in BOOLEAN
    OBVIOUS
  <2>2. QED
    BY <1>1, <2>1 DEF Request
<1>3. CASE req[h].level \in {0, 1}
  <2> DEFINE next == IF req[h].level = 0 THEN IF reply = -1 THEN "rpush" ELSE "lrem1"
                                         ELSE IF reply = -1 THEN "lpush" ELSE "lrem0"
  <2>1. /\ next \in {"rpush", "lpush", "lrem1", "lrem0"}
        /\ next \in IF reply = -1 THEN {"rpush", "lpush"} ELSE {"lrem1", "lrem0"}
    OBVIOUS
  <2>2. req' = [req EXCEPT ![h] = r(next)]
    <3> DEFINE nxt == CASE req[h].level = 0 -> IF reply = -1 THEN "rpush" ELSE "lrem1"
                        [] req[h].level = 1 -> IF reply = -1 THEN "lpush" ELSE "lrem0"
                        [] OTHER            -> "done"
    <3>1. nxt = next /\ nxt # "done"
      BY <1>3
    <3>2. req' = [req EXCEPT ![h] = IF nxt = "done" THEN NoPost ELSE r(nxt)]
      BY DEF AfterLinsert
    <3> HIDE DEF nxt, r, next
    <3>3. QED
      BY <3>1, <3>2
  <2> HIDE DEF next, r
  <2>3. /\ req'[h] = r(next) /\ req' \in [Handlers -> Request \cup {NoPost}]
        /\ \A g \in Handlers : g # h => req'[g] = req[g]
    BY <1>1, <1>2, <2>1, <2>2
  <2>4. QED
    BY <1>2, <1>3, <2>1, <2>3
<1>4. CASE req[h].level \notin {0, 1}
  <2>1. req' = [req EXCEPT ![h] = NoPost]
    BY <1>4 DEF AfterLinsert
  <2>2. QED
    BY <1>1, <1>4, <2>1
<1>5. QED
  BY <1>3, <1>4

LEMMA TypedQueue ==
  ASSUME CombIInv
  PROVE  /\ CombTypeOK /\ queue \in Seq(Queued) /\ leaks \in 0..MaxLeaks /\ leaks \in Nat
         /\ due \subseteq Args
  BY BoundsAreNat DEF CombIInv, CombTypeOK, Queued

\* LINSERT, answered or not, applied or not.
LEMMA LinsertStep ==
  ASSUME CombIInv, NEW h \in Handlers, req[h].pc = "linsert", NEW reply,
         AfterLinsert(h, reply),
         queue' = Applied(h) \/ (queue' = queue /\ reply = None),
         reply = LinsertReply(req[h].arg) \/ reply = None,
         IF queue' = Applied(h) /\ Filed(req[h].arg) /\ req[h].level \notin {0, 1}
           THEN Leak(h) ELSE leaks' = leaks,
         due' = IF reply = None THEN due \ {req[h].arg} ELSE due,
         UNCHANGED <<cpc, carg>>
  PROVE  CombIInv'
<1> DEFINE a == req[h].arg
<1>1. /\ req[h] \in Request /\ a \in Args /\ CombTypeOK /\ queue \in Seq(Queued)
      /\ leaks \in Nat /\ leaks \in 0..MaxLeaks /\ due \subseteq Args
  BY TypedQueue, AtCommand
<1>2. /\ Occurs(queue, a) \in Nat
      /\ Filed(a) <=> Occurs(queue, a) > 0
      /\ \A x : x # a => Occurs(Applied(h), x) = Occurs(queue, x)
      /\ Occurs(Applied(h), a) = Occurs(queue, a) + (IF Filed(a) THEN 1 ELSE 0)
      /\ Applied(h) \in Seq(Queued)
  BY <1>1, AppliedEffect, FiledCopies
<1>3. /\ req' \in [Handlers -> Request \cup {NoPost}]
      /\ \A g \in Handlers : g # h => req'[g] = req[g]
      /\ \/ req'[h] = NoPost /\ req[h].level \notin {0, 1}
         \/ /\ req'[h] \in Request /\ req'[h].arg = a
            /\ req'[h].fresh <=> req[h].fresh /\ reply # None
            /\ req'[h].noList <=> reply = 0
            /\ req[h].level \in {0, 1}
            /\ req'[h].pc \in IF reply = -1 THEN {"rpush", "lpush"} ELSE {"lrem1", "lrem0"}
  BY <1>1, AfterLinsertMoves
<1>4. leaks' \in Nat /\ leaks' \in 0..MaxLeaks /\ leaks' >= leaks
      /\ (queue' = Applied(h) /\ Filed(a) /\ req[h].level \notin {0, 1} => leaks' = leaks + 1)
  BY <1>1, BoundsAreNat DEF Leak
<1>5. NoPost.arg = None /\ NoPost.pc = "idle" /\ None \notin Args /\ None \notin Int
  BY NoneIsNew DEF NoPost
<1>6. CombTypeOK'
  BY <1>1, <1>2, <1>3, <1>4 DEF CombTypeOK, Queued
<1>7. Moves(h)
  BY <1>1, <1>2, <1>3, <1>4, <1>6 DEF Moves
<1>8. reply = -1 => ~Filed(a) /\ queue' = Applied(h)
  <2>1. LinsertReply(a) = -1 => ~Filed(a)
    BY <1>1, LenProperties DEF LinsertReply
  <2>2. QED
    BY <1>5, <2>1
<1>9. Occurs(queue', a) + NumberSent(req', a, {"rpush", "lpush"})
        <= Cardinality(Handlers) + NumberSent(req', a, {"lrem1", "lrem0"}) + leaks'
  <2> DEFINE P == NumberSent(req, a, {"rpush", "lpush"})
             Q == NumberSent(req', a, {"rpush", "lpush"})
             L == NumberSent(req, a, {"lrem1", "lrem0"})
             M == NumberSent(req', a, {"lrem1", "lrem0"})
  <2>1. /\ P \in Nat /\ Q \in Nat /\ L \in Nat /\ M \in Nat /\ Cardinality(Handlers) \in Nat
        /\ Q <= Cardinality(Handlers)
        /\ Occurs(queue, a) + P <= Cardinality(Handlers) + L + leaks
    BY <1>1, SearchCounts, SentType
  <2>2. /\ Q = P + (IF req'[h].arg = a /\ req'[h].pc \in {"rpush", "lpush"} THEN 1 ELSE 0)
        /\ M = L + (IF req'[h].arg = a /\ req'[h].pc \in {"lrem1", "lrem0"} THEN 1 ELSE 0)
    BY <1>3, <2>1, SentByOne
  <2> HIDE DEF P, Q, L, M, a
  <2>3. CASE reply = -1
    <3>1. Occurs(queue', a) = 0
      BY <1>2, <1>8, <2>3
    <3>2. QED
      BY <1>4, <2>1, <3>1 DEF Q, M
  <2>4. CASE reply # -1 /\ req'[h] = NoPost
    <3>1. Q = P /\ M = L
      BY <1>1, <1>5, <2>1, <2>2, <2>4
    <3>2. Occurs(queue', a) - Occurs(queue, a) <= leaks' - leaks
      BY <1>1, <1>2, <1>3, <1>4, <1>5, <2>4 DEF NoPost, Request
    <3>3. Occurs(queue', a) \in Nat
      BY <1>2
    <3>4. QED
      BY <1>1, <1>2, <1>4, <2>1, <3>1, <3>2, <3>3 DEF Q, M
  <2>5. CASE reply # -1 /\ req'[h] # NoPost
    <3>1. Q = P /\ M = L + 1
      BY <1>3, <2>1, <2>2, <2>5
    <3>2. Occurs(queue', a) <= Occurs(queue, a) + 1 /\ Occurs(queue', a) \in Nat
      BY <1>2
    <3>3. QED
      BY <1>1, <1>2, <1>4, <2>1, <3>1, <3>2 DEF Q, M
  <2>6. QED
    BY <2>3, <2>4, <2>5
<1>10. a \in due' => Occurs(queue', a) > 0
  <2> SUFFICES ASSUME a \in due'
               PROVE  Occurs(queue', a) > 0
    OBVIOUS
  <2>1. a \in due /\ reply # None /\ queue' = Applied(h)
    OBVIOUS
  <2>2. ~InTransit(a)
    BY <2>1 DEF InTransit, CombIInv, DueIsAlone
  <2>3. Filed(a)
    BY <2>1, <2>2 DEF CombIInv, KeepsAccepted
  <2>4. QED
    BY <1>2, <2>1, <2>3
<1>11. ASSUME req'[h].pc = "lrem1", a \in due' \/ (req'[h].fresh /\ ~req'[h].noList)
       PROVE  Occurs(queue', a) >= 2
  <2>1. reply # None /\ queue' = Applied(h) /\ reply # -1
    BY <1>3, <1>5, <1>11
  <2>2. Filed(a)
    <3>1. CASE a \in due'
      <4>1. Occurs(Applied(h), a) > 0
        BY <1>10, <2>1, <3>1
      <4>2. QED
        BY <1>2, <4>1
    <3>2. CASE req'[h].fresh /\ ~req'[h].noList
      <4>1. reply # 0
        BY <1>3, <1>5, <1>11, <3>2
      <4>2. QED
        BY <2>1, <4>1 DEF LinsertReply
    <3>3. QED
      BY <1>11, <3>1, <3>2
  <2>3. QED
    BY <1>2, <2>1, <2>2
<1>12. QED
  BY <1>1, <1>7, <1>9, <1>10, <1>11, OthersKept

\* RPUSH, LPUSH or LREM 1, or any command after LINSERT that answers nil: it is the
\* last one of its request.
LEMMA LastStep ==
  ASSUME CombIInv, NEW h \in Handlers, req[h].pc \in {"rpush", "lpush", "lrem1", "lrem0"},
         req' = [req EXCEPT ![h] = NoPost],
         queue' = Applied(h) \/ queue' = queue,
         IF queue' = Applied(h) \/ req[h].pc \notin {"lrem1", "lrem0"}
           THEN leaks' \in {leaks, leaks + 1} /\ leaks' <= MaxLeaks
           ELSE Leak(h),
         due' = due \ {req[h].arg} \/
           /\ queue' = Applied(h) /\ req[h].pc # "lrem0"
           /\ due' = IF req[h].fresh /\ ~req[h].noList THEN due \cup {req[h].arg} ELSE due,
         UNCHANGED <<cpc, carg>>
  PROVE  CombIInv'
<1> DEFINE a == req[h].arg
           pc == req[h].pc
<1>1. /\ req[h] \in Request /\ a \in Args /\ CombTypeOK /\ queue \in Seq(Queued)
      /\ leaks \in Nat /\ leaks \in 0..MaxLeaks /\ due \subseteq Args /\ req[h].noList \in BOOLEAN
  BY TypedQueue, AtCommand
<1>2. /\ Occurs(queue, a) \in Nat
      /\ Filed(a) <=> Occurs(queue, a) > 0
      /\ \A x : x # a => Occurs(Applied(h), x) = Occurs(queue, x)
      /\ Applied(h) \in Seq(Queued)
      /\ Occurs(Applied(h), a) \in Nat
      /\ pc \in {"rpush", "lpush"} => Occurs(Applied(h), a) = Occurs(queue, a) + 1
      /\ pc = "lrem1" => Occurs(queue, a) = Occurs(Applied(h), a) + (IF Filed(a) THEN 1 ELSE 0)
      /\ pc = "lrem0" => Occurs(Applied(h), a) = 0
  BY <1>1, AppliedEffect, FiledCopies, OccursType
<1>3. /\ req'[h] = NoPost /\ \A g \in Handlers : g # h => req'[g] = req[g]
      /\ req' \in [Handlers -> Request \cup {NoPost}]
  BY <1>1 DEF CombTypeOK
<1>4. /\ leaks' \in {leaks, leaks + 1} /\ leaks' \in 0..MaxLeaks
      /\ leaks' \in Nat /\ leaks' >= leaks
      /\ queue' # Applied(h) /\ pc \in {"lrem1", "lrem0"} => leaks' = leaks + 1
  BY <1>1, BoundsAreNat DEF Leak
<1>5. NoPost.arg = None /\ NoPost.pc = "idle" /\ NoPost.fresh = FALSE /\ None \notin Args
  BY NoneIsNew DEF NoPost
<1>6. CombTypeOK'
  BY <1>1, <1>2, <1>3, <1>4 DEF CombTypeOK, Queued
<1>7. Moves(h)
  <2>1. /\ \A x : x # a => Occurs(queue', x) = Occurs(queue, x)
        /\ leaks' >= leaks /\ due' \subseteq due \cup {a}
        /\ a \in due' => a \in due \/ (req[h].fresh /\ ~req[h].noList)
    BY <1>1, <1>2, <1>4
  <2>2. QED
    BY <1>3, <1>6, <2>1 DEF Moves
<1>8. Occurs(queue', a) + NumberSent(req', a, {"rpush", "lpush"})
        <= Cardinality(Handlers) + NumberSent(req', a, {"lrem1", "lrem0"}) + leaks'
  <2> DEFINE P == NumberSent(req, a, {"rpush", "lpush"})
             Q == NumberSent(req', a, {"rpush", "lpush"})
             L == NumberSent(req, a, {"lrem1", "lrem0"})
             M == NumberSent(req', a, {"lrem1", "lrem0"})
  <2>1. /\ P \in Nat /\ Q \in Nat /\ L \in Nat /\ M \in Nat /\ Cardinality(Handlers) \in Nat
        /\ Q <= Cardinality(Handlers)
        /\ Occurs(queue, a) + P <= Cardinality(Handlers) + L + leaks
    BY <1>1, SearchCounts, SentType
  <2>2. /\ P = Q + (IF pc \in {"rpush", "lpush"} THEN 1 ELSE 0)
        /\ L = M + (IF pc \in {"lrem1", "lrem0"} THEN 1 ELSE 0)
    <3>1. \A pcs : NumberSent(req', a, pcs) + (IF req[h].arg = a /\ pc \in pcs THEN 1 ELSE 0)
                     = NumberSent(req, a, pcs)
                       + (IF req'[h].arg = a /\ req'[h].pc \in pcs THEN 1 ELSE 0)
      BY <1>3, SentByOne
    <3> req[h].arg = a
      OBVIOUS
    <3>2. req'[h].arg # a
      BY <1>1, <1>3, <1>5
    <3> HIDE DEF a, pc
    <3>3. /\ Q + (IF pc \in {"rpush", "lpush"} THEN 1 ELSE 0) = P + 0
          /\ M + (IF pc \in {"lrem1", "lrem0"} THEN 1 ELSE 0) = L + 0
      BY <3>1, <3>2
    <3> HIDE DEF P, Q, L, M
    <3>4. QED
      BY <2>1, <3>3
  <2> HIDE DEF P, Q, L, M, a
  <2>3. CASE pc \in {"rpush", "lpush"}
    <3>1. P = Q + 1 /\ L = M
      BY <2>1, <2>2, <2>3
    <3>2. /\ Occurs(queue', a) <= Occurs(queue, a) + 1 /\ Occurs(queue', a) \in Nat
          /\ Occurs(queue, a) \in Nat
      BY <1>2, <2>3 DEF a
    <3>3. Occurs(queue', a) + Q <= Cardinality(Handlers) + M + leaks'
      BY <1>1, <1>4, <2>1, <3>1, <3>2
    <3>4. QED
      BY <3>3 DEF Q, M
  <2>4. CASE pc \in {"lrem1", "lrem0"} /\ queue' = Applied(h)
    <3>1. P = Q /\ L = M + 1
      BY <2>1, <2>2, <2>4
    <3>2. /\ Occurs(queue', a) = 0 \/ Occurs(queue', a) = Occurs(queue, a) - 1
          /\ Occurs(queue, a) \in Nat
      BY <1>2, <2>4 DEF a
    <3>3. Occurs(queue', a) + Q <= Cardinality(Handlers) + M + leaks'
      BY <1>1, <1>4, <2>1, <3>1, <3>2
    <3>4. QED
      BY <3>3 DEF Q, M
  <2>5. CASE pc \in {"lrem1", "lrem0"} /\ queue' # Applied(h)
    <3>1. P = Q /\ L = M + 1 /\ leaks' = leaks + 1 /\ queue' = queue
      BY <1>4, <2>1, <2>2, <2>5
    <3>2. QED
      BY <1>1, <1>2, <2>1, <3>1 DEF Q, M
  <2>6. QED
    BY <2>3, <2>4, <2>5
<1>9. a \in due' => Occurs(queue', a) > 0
  <2> SUFFICES ASSUME a \in due'
               PROVE  Occurs(queue', a) > 0
    OBVIOUS
  <2>1. /\ queue' = Applied(h) /\ pc # "lrem0"
        /\ a \in due \/ (req[h].fresh /\ ~req[h].noList)
    OBVIOUS
  <2>2. CASE pc = "lrem1"
    <3>1. Occurs(queue, a) >= 2
      BY <2>1, <2>2, CopiesOccur DEF CombIInv, Doubled
    <3>2. QED
      BY <1>2, <2>1, <2>2, <3>1
  <2>3. CASE pc \in {"rpush", "lpush"}
    BY <1>2, <2>1, <2>3
  <2>4. QED
    BY <2>1, <2>2, <2>3
<1>10. QED
  BY <1>1, <1>3, <1>5, <1>7, <1>8, <1>9, OthersKept

\* LREM 0, before the LPUSH.
LEMMA LremAllStep ==
  ASSUME CombIInv, NEW h \in Handlers, LremAll(h)
  PROVE  CombIInv'
<1> DEFINE a == req[h].arg
<1>1. /\ req[h] \in Request /\ a \in Args /\ CombTypeOK /\ queue \in Seq(Queued)
      /\ leaks \in Nat /\ leaks \in 0..MaxLeaks /\ due \subseteq Args
      /\ req[h].pc = "lrem0"
  BY TypedQueue, AtCommand DEF LremAll
<1>2. /\ \A x : x # a => Occurs(Applied(h), x) = Occurs(queue, x)
      /\ Applied(h) \in Seq(Queued)
      /\ Occurs(Applied(h), a) = 0
  BY <1>1, AppliedEffect
<1>3. /\ \A g \in Handlers : g # h => req'[g] = req[g]
      /\ req'[h] = [req[h] EXCEPT !.pc = "lpush"]
      /\ req'[h] \in Request /\ req'[h].arg = a /\ req'[h].fresh = req[h].fresh
      /\ req'[h].pc = "lpush"
      /\ req' \in [Handlers -> Request \cup {NoPost}]
      /\ queue' = Applied(h) /\ leaks' = leaks /\ due' = due
  BY <1>1 DEF LremAll, CombTypeOK, Request
<1>4. CombTypeOK'
  BY <1>1, <1>2, <1>3 DEF CombTypeOK, LremAll, Queued
<1>5. Moves(h)
  BY <1>1, <1>2, <1>3, <1>4 DEF Moves
<1>6. Occurs(queue', a) + NumberSent(req', a, {"rpush", "lpush"})
        <= Cardinality(Handlers) + NumberSent(req', a, {"lrem1", "lrem0"}) + leaks'
  BY <1>1, <1>2, <1>3, SentType
<1>7. QED
  BY <1>1, <1>3, <1>5, <1>6, OthersKept

\* A step that leaves the requests' searches and commands alone, takes no request for
\* fresh and no search for due, and changes the copies of an entry that is not due
\* by less than the invariant allows.
Rests(z) ==
  /\ \A g \in Handlers : /\ req'[g].arg = req[g].arg /\ req'[g].pc = req[g].pc
                         /\ req'[g].noList = req[g].noList
                         /\ req'[g].fresh => req[g].fresh /\ req[g].arg # z
  /\ \A x \in Args : /\ Occurs(queue', x) <= Occurs(queue, x)
                     /\ x # z => Occurs(queue', x) = Occurs(queue, x)
  /\ leaks' = leaks
  /\ due' \subseteq due \ {z}

LEMMA RestStep ==
  ASSUME CombIInv, CombTypeOK', NEW z, Rests(z)
  PROVE  CombIInv'
<1>1. queue' \in Seq(Queued) /\ queue \in Seq(Queued) /\ due \subseteq Args /\ leaks \in Nat
      /\ due' \subseteq Args
  BY TypedQueue DEF CombTypeOK, Queued, Rests
<1>2. \A b : /\ Occurs(queue', b) \in Nat
             /\ Occurs(queue, b) \in Nat
             /\ Occurs(queue', b) > 0 => Contains(queue', b)
  BY <1>1, OccursType
<1>3. DuplicatesBounded'
  <2> SUFFICES ASSUME NEW b \in Args
               PROVE  Occurs(queue', b) + NumberSent(req', b, {"rpush", "lpush"})
                        <= Cardinality(Handlers) + NumberSent(req', b, {"lrem1", "lrem0"}) + leaks'
    BY CopiesOccur, AtSent DEF DuplicatesBounded
  <2>1. \A pcs : Sent(req', b, pcs) = Sent(req, b, pcs)
    BY DEF Sent, Rests
  <2>2. \A pcs : NumberSent(req', b, pcs) = NumberSent(req, b, pcs)
    BY <2>1 DEF NumberSent
  <2>3. QED
    BY <1>1, <1>2, <2>2, SearchCounts DEF Rests
<1>4. KeepsAccepted'
  <2> SUFFICES ASSUME NEW b \in due'
               PROVE  \/ Contains(queue', b)
                      \/ \E g \in Handlers : req'[g].arg = b /\ req'[g].pc = "lpush"
    BY DEF KeepsAccepted, Filed, InTransit
  <2>1. b \in due /\ b # z /\ b \in Args
    BY <1>1 DEF Rests
  <2>2. Filed(b) \/ InTransit(b)
    BY <2>1 DEF CombIInv, KeepsAccepted
  <2>3. QED
    BY <1>1, <1>2, <2>1, <2>2, FiledCopies DEF InTransit, Rests
<1>5. FreshIsAlone' /\ DueIsAlone'
  BY DEF CombIInv, FreshIsAlone, DueIsAlone, Rests
<1>6. Doubled'
  <2> SUFFICES ASSUME NEW g \in Handlers, req'[g].pc = "lrem1",
                      req'[g].arg \in due' \/ (req'[g].fresh /\ ~req'[g].noList)
               PROVE  Occurs(queue', req'[g].arg) >= 2
    BY CopiesOccur DEF Doubled, Copies, Occurs, PlacesOf
  <2>1. Occurs(queue, req[g].arg) >= 2
    BY CopiesOccur DEF CombIInv, Doubled, Rests
  <2>2. req[g].arg # z /\ req[g].arg \in Args
    BY TypedQueue, AtCommand DEF Rests
  <2>3. QED
    BY <2>1, <2>2 DEF Rests
<1>7. QED
  BY <1>3, <1>4, <1>5, <1>6 DEF CombIInv

LEMMA PostStep ==
  ASSUME CombIInv, NEW h \in Handlers, NEW a \in Args, NEW v \in Levels, Post(h, a, v)
  PROVE  CombIInv'
<1> DEFINE r == [pc |-> "linsert", arg |-> a, level |-> v, fresh |-> Active(a) = {},
                 noList |-> FALSE]
<1>1. /\ CombTypeOK /\ queue' = queue /\ queue \in Seq(Queued) /\ leaks' = leaks
      /\ req[h] = NoPost /\ leaks \in Nat /\ due \subseteq Args
  BY TypedQueue DEF Post
<1>2. /\ NoPost.arg = None /\ NoPost.fresh = FALSE /\ NoPost.pc = "idle"
      /\ None \notin Args
  BY NoneIsNew DEF NoPost
<1>3. /\ r \in Request /\ r.pc = "linsert" /\ r.arg = a /\ (r.fresh <=> Active(a) = {})
  BY DEF Request
<1>4. /\ DOMAIN req' = Handlers /\ req'[h] = r
      /\ \A g \in Handlers : g # h => /\ req'[g].arg = req[g].arg /\ req'[g].pc = req[g].pc
                                      /\ req'[g].noList = req[g].noList
                                      /\ req'[g].fresh => req[g].fresh /\ req[g].arg # a
                                      /\ req'[g] \in Request \cup {NoPost}
  <2>1. req' = [g \in Handlers |-> IF g = h THEN r
                                   ELSE [req[g] EXCEPT !.fresh = @ /\ req[g].arg # a]]
    BY DEF Post
  <2> HIDE DEF r
  <2>2. DOMAIN req' = Handlers /\ req'[h] = r
    BY <2>1
  <2>3. ASSUME NEW g \in Handlers, g # h
        PROVE  /\ req'[g].arg = req[g].arg /\ req'[g].pc = req[g].pc
               /\ req'[g].noList = req[g].noList
               /\ req'[g].fresh => req[g].fresh /\ req[g].arg # a
               /\ req'[g] \in Request \cup {NoPost}
    <3>1. req'[g] = [req[g] EXCEPT !.fresh = @ /\ req[g].arg # a]
      BY <2>1, <2>3
    <3>2. CASE req[g] \in Request
      BY <3>1, <3>2 DEF Request
    <3>3. CASE req[g] = NoPost
      <4>1. (req[g].fresh /\ req[g].arg # a) = FALSE
        BY <3>3 DEF NoPost
      <4>2. req'[g] = [NoPost EXCEPT !.fresh = FALSE]
        BY <3>1, <3>3, <4>1
      <4>3. req'[g] = NoPost
        BY <4>2 DEF NoPost
      <4>4. QED
        BY <3>1, <3>3, <4>3 DEF NoPost
    <3>4. QED
      BY <1>1, <3>2, <3>3 DEF CombTypeOK
  <2>4. QED
    BY <2>2, <2>3
<1> HIDE DEF r
<1>5. due' = IF Active(a) = {} THEN due ELSE due \ {a}
  BY DEF Post
<1>6. CombTypeOK'
  <2>1. req' \in [Handlers -> Request \cup {NoPost}]
    <3>1. req' = [g \in Handlers |-> req'[g]]
      BY DEF Post
    <3>2. \A g \in Handlers : req'[g] \in Request \cup {NoPost}
      BY <1>3, <1>4
    <3> DEFINE R == req'
    <3> HIDE DEF R
    <3>3. QED
      BY <3>1, <3>2
  <2>2. QED
    BY <1>1, <1>5, <2>1 DEF CombTypeOK, Post
<1>7. DuplicatesBounded'
  <2> SUFFICES ASSUME NEW b \in Args
               PROVE  Occurs(queue', b) + NumberSent(req', b, {"rpush", "lpush"})
                        <= Cardinality(Handlers) + NumberSent(req', b, {"lrem1", "lrem0"}) + leaks'
    BY CopiesOccur, AtSent DEF DuplicatesBounded
  <2>1. ASSUME NEW pcs, "linsert" \notin pcs, "idle" \notin pcs
        PROVE  Sent(req', b, pcs) = Sent(req, b, pcs)
    BY <1>1, <1>2, <1>3, <1>4, <2>1 DEF Sent
  <2>2. /\ NumberSent(req', b, {"rpush", "lpush"}) = NumberSent(req, b, {"rpush", "lpush"})
        /\ NumberSent(req', b, {"lrem1", "lrem0"}) = NumberSent(req, b, {"lrem1", "lrem0"})
    BY <2>1 DEF NumberSent
  <2>3. QED
    BY <1>1, <2>2, SearchCounts
<1>8. KeepsAccepted'
  <2> SUFFICES ASSUME NEW b \in due'
               PROVE  \/ Contains(queue', b)
                      \/ \E g \in Handlers : req'[g].arg = b /\ req'[g].pc = "lpush"
    BY DEF KeepsAccepted, Filed, InTransit
  <2>1. Filed(b) \/ InTransit(b)
    BY <1>5 DEF CombIInv, KeepsAccepted
  <2>2. InTransit(b) => \E g \in Handlers : g # h /\ req[g].arg = b /\ req[g].pc = "lpush"
    BY <1>1, <1>2 DEF InTransit
  <2>3. QED
    BY <1>1, <1>4, <2>1, <2>2 DEF Filed
<1>9. \A g \in Handlers : Active(a) = {} => req[g].arg # a
  BY DEF Active
<1>10. FreshIsAlone' /\ DueIsAlone'
  <2>1. \A f, g \in Handlers : req'[g].fresh /\ req'[f].arg = req'[g].arg => f = g
    BY <1>1, <1>3, <1>4, <1>9 DEF CombIInv, FreshIsAlone
  <2>2. \A f, g \in Handlers : req'[g].arg \in due' /\ req'[f].arg = req'[g].arg => f = g
    BY <1>1, <1>3, <1>4, <1>5, <1>9 DEF CombIInv, DueIsAlone
  <2>3. QED
    BY <2>1, <2>2 DEF FreshIsAlone, DueIsAlone
<1>11. Doubled'
  <2> SUFFICES ASSUME NEW g \in Handlers, req'[g].pc = "lrem1",
                      req'[g].arg \in due' \/ (req'[g].fresh /\ ~req'[g].noList)
               PROVE  Occurs(queue', req'[g].arg) >= 2
    BY CopiesOccur DEF Doubled, Copies, Occurs, PlacesOf
  <2>1. g # h
    BY <1>3, <1>4
  <2>2. QED
    BY <1>1, <1>4, <1>5, <2>1, CopiesOccur DEF CombIInv, Doubled
<1>12. QED
  BY <1>6, <1>7, <1>8, <1>10, <1>11 DEF CombIInv

LEMMA MaincallPushStep ==
  ASSUME CombIInv, NEW a \in RawArgs, MaincallPush(a)
  PROVE  CombIInv'
<1>1. /\ CombTypeOK /\ queue \in Seq(Queued) /\ a \in Queued /\ due \subseteq Args
      /\ queue' = Append(queue, a) /\ UNCHANGED <<req, cpc, carg, leaks, due>>
  BY TypedQueue DEF MaincallPush, Queued
<1>2. /\ queue' \in Seq(Queued)
      /\ \A x : Occurs(queue', x) = Occurs(queue, x) + (IF x = a THEN 1 ELSE 0)
  BY <1>1, OccursAppend
<1>3. CombTypeOK'
  BY <1>1, <1>2 DEF CombTypeOK, Queued
<1>4. \A x \in Args : Occurs(queue', x) = Occurs(queue, x) /\ Occurs(queue, x) \in Nat
  BY <1>1, <1>2, RawIsNoSearch, FiledCopies
<1>5. \A g \in Handlers : req[g].fresh => req[g].arg # a
  BY <1>1, RawIsNoSearch, NoneIsNew DEF CombTypeOK, Request, NoPost
<1>6. Rests(a)
  BY <1>1, <1>4, <1>5, RawIsNoSearch DEF Rests
<1>7. QED
  BY <1>3, <1>6, RestStep

LEMMA PopStep ==
  ASSUME CombIInv, Pop
  PROVE  CombIInv'
<1> DEFINE a == Head(queue)
<1>1. /\ CombTypeOK /\ queue \in Seq(Queued) /\ queue # <<>> /\ queue' = Tail(queue)
      /\ due' = due \ {a} /\ due \subseteq Args /\ leaks' = leaks
  BY TypedQueue DEF Pop
<1>2. /\ queue' \in Seq(Queued) /\ a \in Queued
      /\ \A x : Occurs(queue, x) = Occurs(queue', x) + (IF x = a THEN 1 ELSE 0)
  BY <1>1, OccursTail
<1>3. /\ req' \in [Handlers -> Request \cup {NoPost}]
      /\ \A g \in Handlers : /\ req'[g].arg = req[g].arg /\ req'[g].pc = req[g].pc
                             /\ req'[g].noList = req[g].noList
                             /\ req'[g].fresh => req[g].fresh /\ req[g].arg # a
  <2>1. req' = [g \in Handlers |-> [req[g] EXCEPT !.fresh = @ /\ req[g].arg # a]]
    BY DEF Pop
  <2> HIDE DEF a
  <2>2. ASSUME NEW g \in Handlers
        PROVE  /\ [req[g] EXCEPT !.fresh = @ /\ req[g].arg # a] \in Request \cup {NoPost}
               /\ req'[g].arg = req[g].arg /\ req'[g].pc = req[g].pc
               /\ req'[g].noList = req[g].noList
               /\ req'[g].fresh => req[g].fresh /\ req[g].arg # a
    <3>1. req'[g] = [req[g] EXCEPT !.fresh = @ /\ req[g].arg # a]
      BY <2>1
    <3>2. CASE req[g] \in Request
      BY <3>1, <3>2 DEF Request
    <3>3. CASE req[g] = NoPost
      <4>1. (req[g].fresh /\ req[g].arg # a) = FALSE
        BY <3>3 DEF NoPost
      <4>2. req'[g] = [NoPost EXCEPT !.fresh = FALSE]
        BY <3>1, <3>3, <4>1
      <4>3. req'[g] = NoPost
        BY <4>2 DEF NoPost
      <4>4. QED
        BY <3>1, <3>3, <4>3 DEF NoPost
    <3>4. QED
      BY <1>1, <3>2, <3>3 DEF CombTypeOK
  <2>3. QED
    BY <2>1, <2>2
<1>4. CombTypeOK'
  BY <1>1, <1>2, <1>3 DEF CombTypeOK, Pop, Queued
<1>5. \A x : Occurs(queue', x) \in Nat
  BY <1>2, OccursType
<1>6. Rests(a)
  BY <1>1, <1>2, <1>3, <1>5 DEF Rests
<1>7. QED
  BY <1>4, <1>6, RestStep

\* Steps that touch neither the list nor the requests.
LEMMA LoopStep ==
  ASSUME CombIInv, Capi \/ Api \/ Restart \/ UNCHANGED combVars
  PROVE  CombIInv'
<1>1. UNCHANGED <<queue, req, leaks, due>>
  BY DEF Capi, Api, Restart, combVars
<1>2. CombTypeOK'
  BY <1>1, TypedQueue DEF CombTypeOK, Capi, Api, Restart, combVars
<1>3. QED
  BY <1>1, <1>2 DEF CombIInv, DuplicatesBounded, KeepsAccepted, FreshIsAlone, DueIsAlone,
                    Doubled, Copies, At, Filed, InTransit

LEMMA CombIInvStep == CombIInv /\ [CombNext]_combVars => CombIInv'
<1> SUFFICES ASSUME CombIInv, [CombNext]_combVars
             PROVE  CombIInv'
  OBVIOUS
<1>1. ASSUME NEW h \in Handlers, NEW a \in Args, NEW v \in Levels, Post(h, a, v)
      PROVE  CombIInv'
  BY <1>1, PostStep
<1>2. ASSUME NEW h \in Handlers, Linsert(h)
      PROVE  CombIInv'
  <2> DEFINE reply == LinsertReply(req[h].arg)
  <2>1. /\ req[h].pc = "linsert" /\ queue' = Applied(h) /\ AfterLinsert(h, reply)
        /\ IF Filed(req[h].arg) /\ req[h].level \notin {0, 1} THEN Leak(h) ELSE leaks' = leaks
        /\ due' = due /\ UNCHANGED <<cpc, carg>>
    BY <1>2 DEF Linsert
  <2>2. reply # None
    <3>1. reply \in Int
      BY TypedQueue, LenProperties DEF LinsertReply
    <3>2. None \notin Int
      BY NoneIsNew
    <3>3. QED
      BY <3>1, <3>2
  <2> HIDE DEF reply
  <2>3. QED
    BY <2>1, <2>2, LinsertStep DEF reply
<1>3. ASSUME NEW h \in Handlers, FinalCommand(h)
      PROVE  CombIInv'
  <2>1. /\ req[h].pc \in {"rpush", "lpush", "lrem1"} /\ queue' = Applied(h)
        /\ req' = [req EXCEPT ![h] = NoPost]
        /\ due' = IF req[h].fresh /\ ~req[h].noList THEN due \cup {req[h].arg} ELSE due
        /\ UNCHANGED <<cpc, carg, leaks>>
    BY <1>3 DEF FinalCommand, Accept
  <2>2. leaks' \in {leaks, leaks + 1} /\ leaks' <= MaxLeaks /\ req[h].pc # "lrem0"
    BY <2>1, TypedQueue, BoundsAreNat
  <2>3. QED
    BY <2>1, <2>2, LastStep
<1>4. ASSUME NEW h \in Handlers, LremAll(h)
      PROVE  CombIInv'
  BY <1>4, LremAllStep
<1>5. ASSUME NEW h \in Handlers, NEW b \in BOOLEAN, LinsertFails(h, b)
      PROVE  CombIInv'
  <2>1. /\ req[h].pc = "linsert" /\ queue' = (IF b THEN Applied(h) ELSE queue)
        /\ AfterLinsert(h, None)
        /\ IF b /\ Filed(req[h].arg) /\ req[h].level \notin {0, 1}
           THEN Leak(h) ELSE leaks' = leaks
        /\ due' = due \ {req[h].arg}
        /\ UNCHANGED <<cpc, carg>>
    BY <1>5 DEF LinsertFails, Disturb
  <2>2. b \/ ~Filed(req[h].arg) \/ queue' # Applied(h)
    <3>1. CASE ~b /\ Filed(req[h].arg)
      <4>1. /\ Occurs(Applied(h), req[h].arg) = Occurs(queue, req[h].arg) + 1
            /\ Occurs(queue, req[h].arg) \in Nat
        BY <2>1, <3>1, TypedQueue, AtCommand, AppliedEffect, FiledCopies
      <4>2. Applied(h) # queue
        BY <4>1
      <4>3. QED
        BY <2>1, <3>1, <4>2
    <3>2. QED
      BY <3>1
  <2>3. QED
    BY <2>1, <2>2, LinsertStep
<1>6. ASSUME NEW h \in Handlers, NEW b \in BOOLEAN, CommandFails(h, b)
      PROVE  CombIInv'
  <2>1. /\ req[h].pc \in {"rpush", "lpush", "lrem1", "lrem0"}
        /\ queue' = (IF b THEN Applied(h) ELSE queue)
        /\ req' = [req EXCEPT ![h] = NoPost]
        /\ IF ~b /\ req[h].pc \in {"lrem1", "lrem0"} THEN Leak(h) ELSE leaks' = leaks
        /\ due' = due \ {req[h].arg}
        /\ UNCHANGED <<cpc, carg>>
    BY <1>6 DEF CommandFails, Disturb
  <2>2. leaks' \in {leaks, leaks + 1} /\ leaks' <= MaxLeaks
    BY <2>1, TypedQueue, BoundsAreNat DEF Leak
  <2>3. queue' = Applied(h) \/ req[h].pc \notin {"lrem1", "lrem0"} \/ Leak(h)
    BY <2>1
  <2>4. QED
    BY <2>1, <2>2, <2>3, LastStep
<1>7. ASSUME NEW a \in RawArgs, MaincallPush(a)
      PROVE  CombIInv'
  BY <1>7, MaincallPushStep
<1>8. CASE Pop
  BY <1>8, PopStep
<1>9. CASE Capi \/ Api \/ Restart \/ UNCHANGED combVars
  BY <1>9, LoopStep
<1>10. QED
  BY <1>1, <1>2, <1>3, <1>4, <1>5, <1>6, <1>7, <1>8, <1>9 DEF CombNext, Command, Combinate

\* The invariant, for any number of requests, searches and routes, with and
\* without failing commands.
THEOREM CombInductive == CombSpec => []CombIInv
  BY CombIInvInit, CombIInvStep, PTL DEF CombSpec

\* Type correctness.
THEOREM CombTypeCorrect == CombSpec => []CombTypeOK
<1>1. CombIInv => CombTypeOK
  BY DEF CombIInv
<1>2. QED
  BY <1>1, CombInductive, PTL

\* Duplicates of a search do not pile up: there are no more copies than requests,
\* and those the last commands of unfinished requests are about to take out
\* (callback.lua:61-104).
THEOREM FewCopies == CombSpec => []DuplicatesBounded
<1>1. CombIInv => DuplicatesBounded
  BY DEF CombIInv
<1>2. QED
  BY <1>1, CombInductive, PTL

\* An accepted search nothing disturbed stays in the list until it is popped
\* (callback.lua:61-104, http/combinate.lua:40-58).
THEOREM AcceptedIsKept == CombSpec => []KeepsAccepted
<1>1. CombIInv => KeepsAccepted
  BY DEF CombIInv
<1>2. QED
  BY <1>1, CombInductive, PTL
-----------------------------------------------------------------------------
(* PriceSrv: the tables. *)

\* A bunk, and a price with the segments, go to the end of their line's entry.
LEMMA PutBunkEffect ==
  ASSUME NEW dict \in [Fids -> Entries], NEW x \in Records, NEW l \in Fids
  PROVE  /\ PutBunk(dict, x, l) \in [Fids -> Entries]
         /\ PutBunk(dict, x, l)[l].bunks = Append(dict[l].bunks, x)
         /\ PutBunk(dict, x, l)[l].prices = dict[l].prices
         /\ PutBunk(dict, x, l)[l].seg = dict[l].seg
         /\ \A k \in Fids : k # l => PutBunk(dict, x, l)[k] = dict[k]
<1> DEFINE r == [dict[l] EXCEPT !.bunks = Append(@, x)]
<1>1. dict[l] \in Entries /\ dict[l].bunks \in Seq(Records)
  BY DEF Entries
<1>2. Append(dict[l].bunks, x) \in Seq(Records)
  BY <1>1, AppendProperties
<1>3. /\ r \in Entries /\ r.bunks = Append(dict[l].bunks, x)
      /\ r.prices = dict[l].prices /\ r.seg = dict[l].seg
  BY <1>1, <1>2 DEF Entries
<1>4. PutBunk(dict, x, l) = [dict EXCEPT ![l] = r]
  BY DEF PutBunk
<1> HIDE DEF r
<1>5. QED
  BY <1>3, <1>4

LEMMA PutPriceEffect ==
  ASSUME NEW dict \in [Fids -> Entries], NEW x \in Records, NEW l \in Fids
  PROVE  /\ PutPrice(dict, x, l) \in [Fids -> Entries]
         /\ PutPrice(dict, x, l)[l].bunks = dict[l].bunks
         /\ PutPrice(dict, x, l)[l].prices = Append(dict[l].prices, x)
         /\ PutPrice(dict, x, l)[l].seg = IF dict[l].seg = None THEN x ELSE dict[l].seg
         /\ \A k \in Fids : k # l => PutPrice(dict, x, l)[k] = dict[k]
<1> DEFINE r == [dict[l] EXCEPT !.prices = Append(@, x), !.seg = IF @ = None THEN x ELSE @]
<1>1. dict[l] \in Entries /\ dict[l].prices \in Seq(Records) /\ dict[l].seg \in Records \cup {None}
  BY DEF Entries
<1>2. Append(dict[l].prices, x) \in Seq(Records)
  BY <1>1, AppendProperties
<1>3. /\ r \in Entries /\ r.bunks = dict[l].bunks
      /\ r.prices = Append(dict[l].prices, x)
      /\ r.seg = IF dict[l].seg = None THEN x ELSE dict[l].seg
  BY <1>1, <1>2 DEF Entries
<1>4. PutPrice(dict, x, l) = [dict EXCEPT ![l] = r]
  BY DEF PutPrice
<1> HIDE DEF r
<1>5. QED
  BY <1>3, <1>4

\* The recursion of Dfid has a solution, and Dfid is one.
IsDfid(f, s, doc, N) == f = [n \in 0..N |-> IF n = 0 THEN NoLines
                                            ELSE PutRecord(f[n - 1], <<s, n>>, doc[n])]

LEMMA DfidExists ==
  ASSUME NEW s, NEW doc
  PROVE  \A N \in Nat : \E f : IsDfid(f, s, doc, N)
<1> USE DEF IsDfid
<1> DEFINE Sol(N) == \E f : IsDfid(f, s, doc, N)
           Bad == {N \in Nat : ~Sol(N)}
<1>1. SUFFICES ASSUME Bad # {}
               PROVE  FALSE
  OBVIOUS
<1>2. PICK m \in Bad : \A k \in Bad : m <= k
  <2> HIDE DEF Sol
  <2>1. QED
    BY <1>1, LeastOf
<1>3. CASE m = 0
  <2> DEFINE f == [n \in 0..0 |-> NoLines]
  <2>1. f = [n \in 0..0 |-> IF n = 0 THEN NoLines ELSE PutRecord(f[n - 1], <<s, n>>, doc[n])]
    OBVIOUS
  <2> HIDE DEF f
  <2>2. Sol(0)
    BY <2>1
  <2> HIDE DEF Sol
  <2>3. QED
    BY <1>3, <2>2
<1>4. CASE m # 0
  <2>1. m \in Nat /\ m - 1 \in Nat /\ m - 1 < m
    BY <1>4
  <2>2. Sol(m - 1)
    <3> HIDE DEF Sol
    <3>1. QED
      BY <1>2, <2>1
  <2>3. PICK f : f = [n \in 0..m - 1 |-> IF n = 0 THEN NoLines
                                         ELSE PutRecord(f[n - 1], <<s, n>>, doc[n])]
    BY <2>2
  <2> DEFINE g == [n \in 0..m |-> IF n < m THEN f[n]
                                  ELSE PutRecord(f[m - 1], <<s, m>>, doc[m])]
  <2>4. ASSUME NEW n \in 0..m
        PROVE  g[n] = IF n = 0 THEN NoLines ELSE PutRecord(g[n - 1], <<s, n>>, doc[n])
    <3>1. CASE n = 0
      BY <2>1, <2>3, <3>1
    <3>2. CASE n # 0 /\ n < m
      <4>1. n \in 0..m - 1 /\ n - 1 \in 0..m /\ n - 1 < m
        BY <2>1, <3>2
      <4>2. g[n] = f[n] /\ g[n - 1] = f[n - 1]
        BY <3>2, <4>1
      <4> HIDE DEF g
      <4>3. QED
        BY <2>3, <3>2, <4>1, <4>2
    <3>3. CASE n = m
      <4>1. n - 1 \in 0..m /\ n - 1 < m /\ n # 0 /\ ~(n < m)
        BY <2>1, <3>3
      <4>2. g[n - 1] = f[m - 1] /\ g[n] = PutRecord(f[m - 1], <<s, m>>, doc[m])
        BY <3>3, <4>1
      <4> HIDE DEF g
      <4>3. QED
        BY <3>3, <4>1, <4>2
    <3>4. QED
      BY <2>1, <3>1, <3>2, <3>3
  <2>5. DOMAIN g = 0..m /\ g = [n \in 0..m |-> g[n]]
    OBVIOUS
  <2> HIDE DEF g
  <2>6. g = [n \in 0..m |-> IF n = 0 THEN NoLines ELSE PutRecord(g[n - 1], <<s, n>>, doc[n])]
    BY <2>4, <2>5
  <2>7. Sol(m)
    BY <2>6
  <2> HIDE DEF Sol
  <2>8. QED
    BY <2>7
<1>5. QED
  BY <1>3, <1>4

LEMMA DfidSteps ==
  ASSUME NEW s, NEW doc \in Seq(Fids)
  PROVE  /\ Dfid(s, doc)[0] = NoLines
         /\ \A n \in 1..Len(doc) :
              Dfid(s, doc)[n] = PutRecord(Dfid(s, doc)[n - 1], <<s, n>>, doc[n])
<1> DEFINE D == Dfid(s, doc)
<1>1. Len(doc) \in Nat
  OBVIOUS
<1>2. D = [n \in 0..Len(doc) |-> IF n = 0 THEN NoLines
                                 ELSE PutRecord(D[n - 1], <<s, n>>, doc[n])]
  <2>1. D = CHOOSE f : IsDfid(f, s, doc, Len(doc))
    BY DEF Dfid, IsDfid
  <2>2. \E f : IsDfid(f, s, doc, Len(doc))
    BY <1>1, DfidExists
  <2> HIDE DEF D
  <2>3. IsDfid(D, s, doc, Len(doc))
    BY <2>1, <2>2
  <2>4. QED
    BY <2>3 DEF IsDfid
<1> HIDE DEF D
<1>3. D[0] = NoLines /\ \A n \in 1..Len(doc) : D[n] = PutRecord(D[n - 1], <<s, n>>, doc[n])
  BY <1>1, <1>2
<1>4. QED
  BY <1>3 DEF D

LEMMA PutRecordEffect ==
  ASSUME NEW dict \in [Fids -> Entries], NEW x \in Records, NEW l \in Fids
  PROVE  /\ PutRecord(dict, x, l) \in [Fids -> Entries]
         /\ PutRecord(dict, x, l)[l].bunks # <<>>
         /\ PutRecord(dict, x, l)[l].prices # <<>>
         /\ PutRecord(dict, x, l)[l].seg # None
         /\ \A k \in Fids : k # l => PutRecord(dict, x, l)[k] = dict[k]
<1> DEFINE d == PutBunk(dict, x, l)
<1>1. /\ d \in [Fids -> Entries] /\ d[l].bunks = Append(dict[l].bunks, x)
      /\ d[l].prices \in Seq(Records)
      /\ \A k \in Fids : k # l => d[k] = dict[k]
  BY PutBunkEffect DEF Entries
<1>2. /\ dict[l].bunks \in Seq(Records) /\ x # None
  BY NoneIsNoSearch DEF Entries, Records
<1>3. Append(dict[l].bunks, x) # <<>> /\ Append(d[l].prices, x) # <<>>
  BY <1>1, <1>2, AppendProperties
<1> HIDE DEF d
<1>4. /\ PutPrice(d, x, l) \in [Fids -> Entries]
      /\ PutPrice(d, x, l)[l].bunks = d[l].bunks
      /\ PutPrice(d, x, l)[l].prices = Append(d[l].prices, x)
      /\ PutPrice(d, x, l)[l].seg = IF d[l].seg = None THEN x ELSE d[l].seg
      /\ \A k \in Fids : k # l => PutPrice(d, x, l)[k] = d[k]
  BY <1>1, PutPriceEffect
<1>5. PutRecord(dict, x, l) = PutPrice(d, x, l)
  BY DEF PutRecord, d
<1>6. QED
  BY <1>1, <1>2, <1>3, <1>4, <1>5

\* After n records the table has a whole entry for each of their lines, and no other.
LEMMA DfidEntries ==
  ASSUME NEW s \in Searches, NEW doc \in Seq(Fids)
  PROVE  \A n \in 0..Len(doc) :
           /\ Dfid(s, doc)[n] \in [Fids -> Entries]
           /\ \A l \in Fids :
                IF \E k \in 1..n : doc[k] = l
                THEN /\ Dfid(s, doc)[n][l].bunks # <<>>
                     /\ Dfid(s, doc)[n][l].prices # <<>>
                     /\ Dfid(s, doc)[n][l].seg # None
                ELSE Dfid(s, doc)[n][l] = NoEntry
<1> DEFINE D == Dfid(s, doc)
           Good(n) == /\ D[n] \in [Fids -> Entries]
                      /\ \A l \in Fids :
                           IF \E k \in 1..n : doc[k] = l
                           THEN /\ D[n][l].bunks # <<>>
                                /\ D[n][l].prices # <<>>
                                /\ D[n][l].seg # None
                           ELSE D[n][l] = NoEntry
           Bad == {n \in 0..Len(doc) : ~Good(n)}
<1>1. /\ D[0] = NoLines /\ Len(doc) \in Nat
      /\ \A n \in 1..Len(doc) : D[n] = PutRecord(D[n - 1], <<s, n>>, doc[n])
      /\ \A n \in 1..Len(doc) : doc[n] \in Fids /\ <<s, n>> \in Records
  BY DfidSteps DEF Records
<1> HIDE DEF D
<1>2. SUFFICES ASSUME Bad # {}
               PROVE  FALSE
  BY DEF D
<1>3. PICK m \in Bad : \A k \in Bad : m <= k
  <2> HIDE DEF Good
  <2>1. Bad \in SUBSET Nat
    BY <1>1
  <2>2. QED
    BY <1>2, <2>1, LeastOf
<1>4. CASE m = 0
  <2>1. /\ NoLines \in [Fids -> Entries] /\ \A l \in Fids : NoLines[l] = NoEntry
    <3>1. NoEntry \in Entries
      BY DEF NoEntry, Entries
    <3>2. QED
      BY <3>1 DEF NoLines
  <2>2. Good(0)
    BY <1>1, <2>1
  <2>3. QED
    BY <1>4, <2>2
<1>5. CASE m # 0
  <2>1. m \in 1..Len(doc) /\ m - 1 \in 0..Len(doc) /\ m - 1 < m
    BY <1>1, <1>5
  <2>2. Good(m - 1)
    <3> HIDE DEF Good
    <3>1. QED
      BY <1>1, <1>3, <2>1
  <2> DEFINE d == D[m - 1]
             e == D[m]
             x == <<s, m>>
  <2>3. /\ d \in [Fids -> Entries] /\ doc[m] \in Fids
        /\ e = PutRecord(d, x, doc[m]) /\ x \in Records
    BY <1>1, <2>1, <2>2
  <2> HIDE DEF d, e, x
  <2>4. /\ e \in [Fids -> Entries]
        /\ e[doc[m]].bunks # <<>> /\ e[doc[m]].prices # <<>> /\ e[doc[m]].seg # None
        /\ \A k \in Fids : k # doc[m] => e[k] = d[k]
    BY <2>3, PutRecordEffect
  <2>5. ASSUME NEW l \in Fids
        PROVE  IF \E k \in 1..m : doc[k] = l
               THEN e[l].bunks # <<>> /\ e[l].prices # <<>> /\ e[l].seg # None
               ELSE e[l] = NoEntry
    <3>1. CASE l = doc[m]
      BY <2>1, <2>4, <3>1
    <3>2. CASE l # doc[m]
      <4>1. e[l] = d[l]
        BY <2>4, <3>2
      <4>2. (\E k \in 1..m : doc[k] = l) <=> (\E k \in 1..m - 1 : doc[k] = l)
        BY <2>1, <3>2
      <4>3. IF \E k \in 1..m - 1 : doc[k] = l
            THEN d[l].bunks # <<>> /\ d[l].prices # <<>> /\ d[l].seg # None
            ELSE d[l] = NoEntry
        BY <2>2 DEF d
      <4>4. QED
        BY <4>1, <4>2, <4>3
    <3>3. QED
      BY <3>1, <3>2
  <2>6. Good(m)
    BY <2>4, <2>5 DEF e
  <2> HIDE DEF Good
  <2>7. QED
    BY <2>6
<1>6. QED
  BY <1>4, <1>5
-----------------------------------------------------------------------------
(* PriceSrv: where records are. *)

LEMMA NowhereMeans ==
  ASSUME NEW lists, NEW x
  PROVE  Nowhere(lists, x) <=> \A p \in Shelves : \A i \in DOMAIN lists[p] : lists[p][i] # x
<1>1. \A z : z \in Places(lists, x) <=>
        \E p \in Shelves : \E i \in DOMAIN lists[p] : z = <<p, i>> /\ lists[p][i] = x
  BY DEF Places
<1>2. ASSUME NEW p \in Shelves, NEW i \in DOMAIN lists[p], lists[p][i] = x
      PROVE  <<p, i>> \in Places(lists, x)
  BY <1>1, <1>2
<1>3. QED
  BY <1>1, <1>2 DEF Nowhere

LEMMA OnceMeans ==
  ASSUME NEW lists, NEW x
  PROVE  Once(lists, x) <=>
           \E p \in Shelves : \E i \in DOMAIN lists[p] :
             /\ lists[p][i] = x
             /\ \A q \in Shelves : \A j \in DOMAIN lists[q] : lists[q][j] = x => q = p /\ j = i
<1>1. \A z : z \in Places(lists, x) <=>
        \E p \in Shelves : \E i \in DOMAIN lists[p] : z = <<p, i>> /\ lists[p][i] = x
  BY DEF Places
<1>2. ASSUME Once(lists, x)
      PROVE  \E p \in Shelves : \E i \in DOMAIN lists[p] :
               /\ lists[p][i] = x
               /\ \A q \in Shelves : \A j \in DOMAIN lists[q] :
                    lists[q][j] = x => q = p /\ j = i
  <2>1. PICK z \in Places(lists, x) : Places(lists, x) = {z}
    BY <1>2 DEF Once
  <2>0. PICK p \in Shelves : \E i \in DOMAIN lists[p] : z = <<p, i>> /\ lists[p][i] = x
    BY <1>1
  <2>2. PICK i \in DOMAIN lists[p] : z = <<p, i>> /\ lists[p][i] = x
    BY <2>0
  <2>3. ASSUME NEW q \in Shelves, NEW j \in DOMAIN lists[q], lists[q][j] = x
        PROVE  q = p /\ j = i
    <3>1. <<q, j>> \in Places(lists, x)
      BY <1>1, <2>3
    <3>2. <<q, j>> = <<p, i>>
      BY <2>1, <2>2, <3>1
    <3>3. QED
      BY <3>2
  <2>4. QED
    BY <2>2, <2>3
<1>3. ASSUME NEW p \in Shelves, NEW i \in DOMAIN lists[p], lists[p][i] = x,
             \A q \in Shelves : \A j \in DOMAIN lists[q] : lists[q][j] = x => q = p /\ j = i
      PROVE  Once(lists, x)
  <2>1. <<p, i>> \in Places(lists, x)
    BY <1>1, <1>3
  <2>2. Places(lists, x) = {<<p, i>>}
    BY <1>1, <1>3, <2>1
  <2>3. QED
    BY <2>1, <2>2 DEF Once
<1>4. QED
  BY <1>2, <1>3

\* A record put at the end of a list that was nowhere before is in one place, and the
\* others stay where they are.
LEMMA AddPlace ==
  ASSUME NEW F \in [Shelves -> Seq(Records)], NEW G \in [Shelves -> Seq(Records)],
         NEW p \in Shelves, NEW x \in Records,
         G[p] = Append(F[p], x), \A q \in Shelves : q # p => G[q] = F[q],
         Nowhere(F, x)
  PROVE  /\ Once(G, x)
         /\ \A y : y # x => (Once(F, y) => Once(G, y)) /\ (Nowhere(F, y) => Nowhere(G, y))
<1>1. /\ Len(F[p]) \in Nat /\ DOMAIN F[p] = 1..Len(F[p])
      /\ DOMAIN G[p] = 1..Len(F[p]) + 1
      /\ \A i \in DOMAIN F[p] : G[p][i] = F[p][i]
      /\ G[p][Len(F[p]) + 1] = x
  <2>1. F[p] \in Seq(Records)
    OBVIOUS
  <2>2. QED
    BY <2>1, AppendProperties, LenProperties
<1>2. \A q \in Shelves : \A i \in DOMAIN F[q] : F[q][i] # x
  BY NowhereMeans
<1>3. Once(G, x)
  <2>1. Len(F[p]) + 1 \in DOMAIN G[p]
    BY <1>1
  <2>2. ASSUME NEW q \in Shelves, NEW j \in DOMAIN G[q], G[q][j] = x
        PROVE  q = p /\ j = Len(F[p]) + 1
    <3>1. CASE q # p
      BY <1>2, <2>2, <3>1
    <3>2. CASE q = p
      <4>1. j \notin DOMAIN F[p]
        BY <1>1, <1>2, <2>2, <3>2
      <4>2. QED
        BY <1>1, <2>2, <3>2, <4>1
    <3>3. QED
      BY <3>1, <3>2
  <2>3. QED
    BY <1>1, <2>1, <2>2, OnceMeans
<1>4. ASSUME NEW y, y # x
      PROVE  \A q \in Shelves : \A j : j \in DOMAIN G[q] /\ G[q][j] = y
                                   <=> j \in DOMAIN F[q] /\ F[q][j] = y
  <2> SUFFICES ASSUME NEW q \in Shelves, NEW j
               PROVE  j \in DOMAIN G[q] /\ G[q][j] = y <=> j \in DOMAIN F[q] /\ F[q][j] = y
    OBVIOUS
  <2>1. CASE q # p
    BY <2>1
  <2>2. CASE q = p
    <3>1. j \in DOMAIN G[p] <=> j \in DOMAIN F[p] \/ j = Len(F[p]) + 1
      BY <1>1
    <3>2. QED
      BY <1>1, <1>4, <2>2, <3>1
  <2>3. QED
    BY <2>1, <2>2
<1>5. ASSUME NEW y, y # x
      PROVE  (Once(F, y) => Once(G, y)) /\ (Nowhere(F, y) => Nowhere(G, y))
  <2>1. \A q \in Shelves : \A j : j \in DOMAIN G[q] /\ G[q][j] = y
                                   <=> j \in DOMAIN F[q] /\ F[q][j] = y
    BY <1>4, <1>5
  <2>2. Nowhere(F, y) => Nowhere(G, y)
    BY <2>1, NowhereMeans
  <2>3. ASSUME Once(F, y)
        PROVE  Once(G, y)
    <3>1. PICK q \in Shelves : \E i \in DOMAIN F[q] :
             /\ F[q][i] = y
             /\ \A r \in Shelves : \A j \in DOMAIN F[r] : F[r][j] = y => r = q /\ j = i
      BY <2>3, OnceMeans
    <3>2. \E i \in DOMAIN G[q] :
             /\ G[q][i] = y
             /\ \A r \in Shelves : \A j \in DOMAIN G[r] : G[r][j] = y => r = q /\ j = i
      BY <2>1, <3>1
    <3>3. QED
      BY <3>2, OnceMeans
  <2>4. QED
    BY <2>2, <2>3
<1>6. QED
  BY <1>3, <1>5

Grows(F, G, p, x) ==
  /\ F \in [Shelves -> Seq(Records)] /\ G \in [Shelves -> Seq(Records)]
  /\ p \in Shelves /\ x \in Records
  /\ G[p] = Append(F[p], x)
  /\ \A q \in Shelves : q # p => G[q] = F[q]

LEMMA GrowPlace ==
  ASSUME NEW F, NEW G, NEW p, NEW x, Grows(F, G, p, x), Nowhere(F, x)
  PROVE  /\ Once(G, x)
         /\ \A y : y # x => (Once(F, y) => Once(G, y)) /\ (Nowhere(F, y) => Nowhere(G, y))
<1>1. /\ F \in [Shelves -> Seq(Records)] /\ G \in [Shelves -> Seq(Records)]
      /\ p \in Shelves /\ x \in Records
      /\ G[p] = Append(F[p], x)
      /\ \A q \in Shelves : q # p => G[q] = F[q]
  BY DEF Grows
<1>2. QED
  BY <1>1, AddPlace

\* An answer moves lists from the dictionary to the search's own table, and no record
\* is lost or doubled.
LEMMA MovePlaces ==
  ASSUME NEW F, NEW G, NEW s \in Searches,
         \A l \in Fids :
           /\ DOMAIN F[<<s, l>>] = {}
           /\ \/ G[<<None, l>>] = F[<<None, l>>] /\ DOMAIN G[<<s, l>>] = {}
              \/ DOMAIN G[<<None, l>>] = {} /\ G[<<s, l>>] = F[<<None, l>>],
         \A h \in Holders, l \in Fids : h \notin {s, None} => G[<<h, l>>] = F[<<h, l>>]
  PROVE  \A y : (Once(F, y) => Once(G, y)) /\ (Nowhere(F, y) => Nowhere(G, y))
<1>1. /\ \A p \in Shelves : \E h \in Holders, l \in Fids : p = <<h, l>>
      /\ \A h \in Holders, l \in Fids : <<h, l>> \in Shelves
      /\ None \in Holders /\ s \in Holders /\ s # None
  BY NoneIsNoSearch DEF Shelves, Holders
<1>2. ASSUME NEW y, NEW h \in Holders, NEW l \in Fids, NEW j \in DOMAIN G[<<h, l>>],
             G[<<h, l>>][j] = y
      PROVE  \/ h = s /\ j \in DOMAIN F[<<None, l>>] /\ F[<<None, l>>][j] = y
                /\ DOMAIN G[<<None, l>>] = {}
             \/ h # s /\ j \in DOMAIN F[<<h, l>>] /\ F[<<h, l>>][j] = y
  BY <1>1, <1>2
<1>3. ASSUME NEW y, Nowhere(F, y)
      PROVE  Nowhere(G, y)
  <2>1. \A h \in Holders, l \in Fids : \A i \in DOMAIN F[<<h, l>>] : F[<<h, l>>][i] # y
    BY <1>1, <1>3, NowhereMeans
  <2>2. ASSUME NEW h \in Holders, NEW l \in Fids, NEW i \in DOMAIN G[<<h, l>>],
               G[<<h, l>>][i] = y
        PROVE  FALSE
    <3>1. \/ i \in DOMAIN F[<<None, l>>] /\ F[<<None, l>>][i] = y
          \/ i \in DOMAIN F[<<h, l>>] /\ F[<<h, l>>][i] = y
      BY <1>2, <2>2
    <3>2. None \in Holders
      BY <1>1
    <3>3. QED
      BY <2>1, <3>1, <3>2
  <2>3. QED
    BY <1>1, <2>2, NowhereMeans
<1>4. ASSUME NEW y, Once(F, y)
      PROVE  Once(G, y)
  <2>0. PICK p \in Shelves : \E i \in DOMAIN F[p] :
           /\ F[p][i] = y
           /\ \A q \in Shelves : \A j \in DOMAIN F[q] : F[q][j] = y => q = p /\ j = i
    BY <1>4, OnceMeans
  <2>1. PICK i \in DOMAIN F[p] :
           /\ F[p][i] = y
           /\ \A q \in Shelves : \A j \in DOMAIN F[q] : F[q][j] = y => q = p /\ j = i
    BY <2>0
  <2>2. PICK h \in Holders, l \in Fids : p = <<h, l>>
    BY <1>1
  <2>3. h # s
    BY <2>1, <2>2
  <2> DEFINE g == IF h = None /\ DOMAIN G[<<None, l>>] = {} THEN s ELSE h
  <2>4. g \in Holders /\ <<g, l>> \in Shelves
    BY <1>1
  <2>5. i \in DOMAIN G[<<g, l>>] /\ G[<<g, l>>][i] = y
    BY <1>1, <2>1, <2>2, <2>3
  <2>6. ASSUME NEW q \in Shelves, NEW j \in DOMAIN G[q], G[q][j] = y
        PROVE  q = <<g, l>> /\ j = i
    <3>1. PICK k \in Holders, m \in Fids : q = <<k, m>>
      BY <1>1
    <3>2. CASE k = s
      <4>1. /\ j \in DOMAIN F[<<None, m>>] /\ F[<<None, m>>][j] = y
            /\ DOMAIN G[<<None, m>>] = {}
        BY <1>2, <2>6, <3>1, <3>2
      <4>2. <<None, m>> = <<h, l>> /\ j = i
        BY <1>1, <2>1, <2>2, <4>1
      <4>3. h = None /\ m = l
        BY <4>2
      <4>4. QED
        BY <3>1, <3>2, <4>1, <4>2, <4>3
    <3>3. CASE k # s
      <4>1. j \in DOMAIN F[<<k, m>>] /\ F[<<k, m>>][j] = y
        BY <1>2, <2>6, <3>1, <3>3
      <4>2. <<k, m>> = <<h, l>> /\ j = i
        BY <1>1, <2>1, <2>2, <4>1
      <4>3. k = h /\ m = l
        BY <4>2
      <4>4. k = None => DOMAIN G[<<None, l>>] # {}
        BY <2>6, <3>1, <4>3
      <4>5. QED
        BY <3>1, <4>2, <4>3, <4>4
    <3>4. QED
      BY <3>2, <3>3
  <2> HIDE DEF g
  <2>7. QED
    BY <2>4, <2>5, <2>6, OnceMeans
<1>5. QED
  BY <1>3, <1>4
Shifts(F, G, s) ==
  /\ \A l \in Fids :
       /\ DOMAIN F[<<s, l>>] = {}
       /\ \/ G[<<None, l>>] = F[<<None, l>>] /\ DOMAIN G[<<s, l>>] = {}
          \/ DOMAIN G[<<None, l>>] = {} /\ G[<<s, l>>] = F[<<None, l>>]
  /\ \A h \in Holders, l \in Fids : h \notin {s, None} => G[<<h, l>>] = F[<<h, l>>]

LEMMA MovedPlaces ==
  ASSUME NEW F, NEW G, NEW s \in Searches, Shifts(F, G, s)
  PROVE  \A y : (Once(F, y) => Once(G, y)) /\ (Nowhere(F, y) => Nowhere(G, y))
<1>1. /\ \A l \in Fids :
           /\ DOMAIN F[<<s, l>>] = {}
           /\ \/ G[<<None, l>>] = F[<<None, l>>] /\ DOMAIN G[<<s, l>>] = {}
              \/ DOMAIN G[<<None, l>>] = {} /\ G[<<s, l>>] = F[<<None, l>>]
      /\ \A h \in Holders, l \in Fids : h \notin {s, None} => G[<<h, l>>] = F[<<h, l>>]
  BY DEF Shifts
<1>2. QED
  BY <1>1, MovePlaces
-----------------------------------------------------------------------------
(* PriceSrv: the inductive invariant, of the dictionary, the sets and a search as *)
(* they are before or after a step.                                               *)

RunningAs(r) == r.step \notin {"idle", "done", "error"}

OrderOf(r) ==
  /\ r.rc <= Len(r.doc) + 1
  /\ r.step \in {"sadd", "expire", "hget"} => r.rc <= Len(r.doc)
  /\ r.step = "smembers" => r.rc = Len(r.doc) + 1
  /\ r.step = "idle" => r.doc = <<>> /\ r.rc = 1
  /\ r.step = "idle" \/ RunningAs(r) => r.bigtab = NoLines

SaddedOf(r) == {r.doc[n] : n \in IF r.step \in {"expire", "hget"} THEN 1..r.rc
                                                                  ELSE 1..r.rc - 1}
SetOf(f, r) == RunningAs(r) => r.session \in Sessions /\ SaddedOf(r) \subseteq f[r.session]

CollectedOf(s, r) ==
  IF r.step = "hget" THEN PutBunk(Dfid(s, r.doc)[r.rc - 1], <<s, r.rc>>, r.doc[r.rc])
                     ELSE Dfid(s, r.doc)[r.rc - 1]
ReachOf(f, r) == ToSet(r.doc) \cup f[r.session]
MeetAs(f, r, q) == RunningAs(q) /\ (q.session = r.session \/ ReachOf(f, r) \cap ReachOf(f, q) # {})

TakenBy(s, r) == r.clean => /\ r.step = "done" => r.bigtab = LocalAnswer(s, r.doc)
                            /\ r.step = "error" => r.failed
CleanOf(b, f, s, r) == r.clean /\ RunningAs(r) =>
  /\ f[r.session] = SaddedOf(r)
  /\ \A l \in ToSet(r.doc) : b[l] = CollectedOf(s, r)[l]
AloneIn(f, S, s) == S[s].clean /\ RunningAs(S[s]) =>
  \A q \in Searches \ {s} : ~MeetAs(f, S[s], S[q])
LeftIn(b, S) == \A l \in Fids :
  (\A s \in Searches : l \in ToSet(S[s].doc) => S[s].step = "done") => b[l] = NoEntry

PlacedOf(P, B, s, r, n) ==
  /\ n < r.rc => Once(P, <<s, n>>) /\ Once(B, <<s, n>>)
  /\ n >= r.rc => Nowhere(P, <<s, n>>)
  /\ n = r.rc /\ r.step = "hget" => Once(B, <<s, n>>)
  /\ n = r.rc /\ r.step = "error" => Once(B, <<s, n>>) \/ Nowhere(B, <<s, n>>)
  /\ n = r.rc /\ r.step \notin {"hget", "error"} => Nowhere(B, <<s, n>>)
  /\ n > r.rc => Nowhere(B, <<s, n>>)

SrvInvAt(b, f, S) ==
  /\ \A s \in Searches : /\ OrderOf(S[s])
                         /\ SetOf(f, S[s])
                         /\ CleanOf(b, f, s, S[s])
                         /\ AloneIn(f, S, s)
                         /\ TakenBy(s, S[s])
  /\ LeftIn(b, S)

LEMMA SrvInvMeans == SrvIInv <=> SrvTypeOK /\ SrvInvAt(byfs, fids, search) /\ RecordsPlaced
<1>1. InOrder <=> \A s \in Searches : OrderOf(search[s])
  BY DEF InOrder, OrderOf, Running, RunningAs
<1>2. SetHasLines <=> \A s \in Searches : SetOf(fids, search[s])
  BY DEF SetHasLines, SetOf, Running, RunningAs, Sadded, SaddedOf
<1>3. CleanCollects <=> \A s \in Searches : /\ CleanOf(byfs, fids, s, search[s])
                                            /\ AloneIn(fids, search, s)
  BY DEF CleanCollects, CleanOf, AloneIn, MeetAs, Meets, ReachOf, Reach, Running, RunningAs,
         Sadded, SaddedOf, Collected, CollectedOf, Line
<1>4. AloneAgrees <=> \A s \in Searches : TakenBy(s, search[s])
  BY DEF AloneAgrees, TakenBy
<1>5. LeftByErrors <=> LeftIn(byfs, search)
  BY DEF LeftByErrors, LeftIn
<1>6. QED
  BY <1>1, <1>2, <1>3, <1>4, <1>5 DEF SrvIInv, SrvInvAt

LEMMA SrvInvNext ==
  SrvIInv' <=> SrvTypeOK' /\ SrvInvAt(byfs', fids', search') /\ RecordsPlaced'
<1>1. InOrder' <=> \A s \in Searches : OrderOf(search'[s])
  BY DEF InOrder, OrderOf, Running, RunningAs
<1>2. SetHasLines' <=> \A s \in Searches : SetOf(fids', search'[s])
  BY DEF SetHasLines, SetOf, Running, RunningAs, Sadded, SaddedOf
<1>3. CleanCollects' <=> \A s \in Searches : /\ CleanOf(byfs', fids', s, search'[s])
                                             /\ AloneIn(fids', search', s)
  BY DEF CleanCollects, CleanOf, AloneIn, MeetAs, Meets, ReachOf, Reach, Running, RunningAs,
         Sadded, SaddedOf, Collected, CollectedOf, Line
<1>4. AloneAgrees' <=> \A s \in Searches : TakenBy(s, search'[s])
  BY DEF AloneAgrees, TakenBy
<1>5. LeftByErrors' <=> LeftIn(byfs', search')
  BY DEF LeftByErrors, LeftIn
<1>6. QED
  BY <1>1, <1>2, <1>3, <1>4, <1>5 DEF SrvIInv, SrvInvAt

LEMMA RecordsPlacedMeans ==
  /\ RecordsPlaced <=> \A s \in Searches, n \in Nat \ {0} :
                         PlacedOf(PricesOf, BunksOf, s, search[s], n)
  /\ RecordsPlaced' <=> \A s \in Searches, n \in Nat \ {0} :
                          PlacedOf(PricesOf', BunksOf', s, search'[s], n)
<1>1. RecordsPlaced <=> \A s \in Searches, n \in Nat \ {0} :
                          PlacedOf(PricesOf, BunksOf, s, search[s], n)
  BY DEF RecordsPlaced, RecordPlaced, PlacedOf
<1>2. RecordsPlaced' <=> \A s \in Searches, n \in Nat \ {0} :
                           PlacedOf(PricesOf', BunksOf', s, search'[s], n)
  BY DEF RecordsPlaced, RecordPlaced, PlacedOf
<1>3. QED
  BY <1>1, <1>2

TableIn(b, S, h) == IF h = None THEN b ELSE S[h].bigtab
PricesIn(b, S) == [p \in Shelves |-> TableIn(b, S, p[1])[p[2]].prices]
BunksIn(b, S) == [p \in Shelves |-> TableIn(b, S, p[1])[p[2]].bunks]

LEMMA ShelvesNow ==
  /\ PricesOf = PricesIn(byfs, search) /\ BunksOf = BunksIn(byfs, search)
  /\ PricesOf' = PricesIn(byfs', search') /\ BunksOf' = BunksIn(byfs', search')
<1>1. PricesOf = PricesIn(byfs, search) /\ BunksOf = BunksIn(byfs, search)
  BY DEF PricesOf, BunksOf, PricesIn, BunksIn, Table, TableIn
<1>2. PricesOf' = PricesIn(byfs', search') /\ BunksOf' = BunksIn(byfs', search')
  BY DEF PricesOf, BunksOf, PricesIn, BunksIn, Table, TableIn
<1>3. QED
  BY <1>1, <1>2

LEMMA ShelvesAre ==
  ASSUME NEW b \in [Fids -> Entries], NEW S, \A s \in Searches : S[s].bigtab \in [Fids -> Entries]
  PROVE  /\ PricesIn(b, S) \in [Shelves -> Seq(Records)]
         /\ BunksIn(b, S) \in [Shelves -> Seq(Records)]
         /\ \A l \in Fids : /\ <<None, l>> \in Shelves
                            /\ PricesIn(b, S)[<<None, l>>] = b[l].prices
                            /\ BunksIn(b, S)[<<None, l>>] = b[l].bunks
         /\ \A h \in Holders, l \in Fids : h # None =>
              /\ h \in Searches
              /\ PricesIn(b, S)[<<h, l>>] = S[h].bigtab[l].prices
              /\ BunksIn(b, S)[<<h, l>>] = S[h].bigtab[l].bunks
<1>1. /\ \A p \in Shelves : p[1] \in Holders /\ p[2] \in Fids
      /\ \A h \in Holders, l \in Fids : <<h, l>> \in Shelves
      /\ \A h \in Holders : h # None => h \in Searches
      /\ None \in Holders
  BY DEF Shelves, Holders
<1>2. \A h \in Holders, l \in Fids : TableIn(b, S, h)[l] \in Entries
  BY <1>1 DEF TableIn
<1>3. \A e \in Entries : e.prices \in Seq(Records) /\ e.bunks \in Seq(Records)
  BY DEF Entries
<1>4. /\ PricesIn(b, S) \in [Shelves -> Seq(Records)]
      /\ BunksIn(b, S) \in [Shelves -> Seq(Records)]
  BY <1>1, <1>2, <1>3 DEF PricesIn, BunksIn
<1>5. \A h \in Holders, l \in Fids : /\ PricesIn(b, S)[<<h, l>>] = TableIn(b, S, h)[l].prices
                                     /\ BunksIn(b, S)[<<h, l>>] = TableIn(b, S, h)[l].bunks
  BY <1>1 DEF PricesIn, BunksIn
<1>6. QED
  BY <1>1, <1>4, <1>5 DEF TableIn

\* The places change with the tables only.
LEMMA SameTables ==
  ASSUME byfs' = byfs, \A q \in Searches : search'[q].bigtab = search[q].bigtab
  PROVE  PricesOf' = PricesOf /\ BunksOf' = BunksOf
<1>1. \A p \in Shelves : TableIn(byfs', search', p[1]) = TableIn(byfs, search, p[1])
  BY DEF TableIn, Shelves, Holders
<1>2. QED
  BY <1>1, ShelvesNow DEF PricesIn, BunksIn

\* No record is lost or doubled, and no search goes on with the next record.
LEMMA KeptPlaces ==
  ASSUME RecordsPlaced,
         \A y : /\ (Once(PricesOf, y) => Once(PricesOf', y))
                /\ (Nowhere(PricesOf, y) => Nowhere(PricesOf', y))
                /\ (Once(BunksOf, y) => Once(BunksOf', y))
                /\ (Nowhere(BunksOf, y) => Nowhere(BunksOf', y)),
         \A q \in Searches :
           /\ search'[q].rc = search[q].rc
           /\ \/ search'[q].step = search[q].step
              \/ /\ search'[q].step # "hget"
                 /\ search[q].step \notin {"hget", "error"} \/ search'[q].step = "error"
  PROVE  RecordsPlaced'
<1> SUFFICES ASSUME NEW q \in Searches, NEW n \in Nat \ {0}
             PROVE  PlacedOf(PricesOf', BunksOf', q, search'[q], n)
  BY RecordsPlacedMeans
<1>1. PlacedOf(PricesOf, BunksOf, q, search[q], n)
  BY RecordsPlacedMeans
<1> DEFINE x == <<q, n>>
<1>2. /\ n < search[q].rc => Once(PricesOf, x) /\ Once(BunksOf, x)
      /\ n >= search[q].rc => Nowhere(PricesOf, x)
      /\ n = search[q].rc /\ search[q].step = "hget" => Once(BunksOf, x)
      /\ n = search[q].rc /\ search[q].step = "error" => Once(BunksOf, x) \/ Nowhere(BunksOf, x)
      /\ n = search[q].rc /\ search[q].step \notin {"hget", "error"} => Nowhere(BunksOf, x)
      /\ n > search[q].rc => Nowhere(BunksOf, x)
  BY <1>1 DEF PlacedOf
<1> HIDE DEF x
<1>3. /\ n < search'[q].rc => Once(PricesOf', x) /\ Once(BunksOf', x)
      /\ n >= search'[q].rc => Nowhere(PricesOf', x)
      /\ n = search'[q].rc /\ search'[q].step = "hget" => Once(BunksOf', x)
      /\ n = search'[q].rc /\ search'[q].step = "error"
           => Once(BunksOf', x) \/ Nowhere(BunksOf', x)
      /\ n = search'[q].rc /\ search'[q].step \notin {"hget", "error"} => Nowhere(BunksOf', x)
      /\ n > search'[q].rc => Nowhere(BunksOf', x)
  BY <1>2
<1>4. QED
  BY <1>3 DEF PlacedOf, x

\* What a command of search s may do to the others: it changes its own record, its own
\* set and the lines it reaches, and leaves nothing behind when it is done.
Acts(s) ==
  /\ \A q \in Searches : q # s => search'[q] = search[q]
  /\ search'[s].doc = search[s].doc
  /\ search'[s].clean = search[s].clean
  /\ RunningAs(search'[s]) => search'[s].session = search[s].session
  /\ \A x \in Sessions : x # search[s].session => fids'[x] = fids[x]
  /\ fids[search[s].session] \subseteq fids'[search[s].session]
  /\ fids'[search[s].session] \subseteq ReachOf(fids, search[s])
  /\ \A l \in Fids : l \notin ReachOf(fids, search[s]) => byfs'[l] = byfs[l]
  /\ \A l \in Fids : byfs'[l] # NoEntry => byfs[l] # NoEntry \/ l \in ToSet(search[s].doc)
  /\ search'[s].step = "done" => \A l \in ToSet(search[s].doc) : byfs'[l] = NoEntry

LEMMA ActsKeeps ==
  ASSUME SrvIInv, SrvTypeOK', RecordsPlaced', NEW s \in Searches,
         RunningAs(search[s]), Acts(s),
         OrderOf(search'[s]), SetOf(fids', search'[s]),
         CleanOf(byfs', fids', s, search'[s]), TakenBy(s, search'[s])
  PROVE  SrvIInv'
<1>1. SrvTypeOK /\ SrvInvAt(byfs, fids, search)
  BY SrvInvMeans
<1>2. /\ \A q \in Searches : q # s => search'[q] = search[q]
      /\ search'[s].doc = search[s].doc /\ search'[s].clean = search[s].clean
      /\ RunningAs(search'[s]) => search'[s].session = search[s].session
      /\ search[s].session \in Sessions
      /\ \A x \in Sessions : x # search[s].session => fids'[x] = fids[x]
      /\ fids[search[s].session] \subseteq fids'[search[s].session]
      /\ fids'[search[s].session] \subseteq ReachOf(fids, search[s])
      /\ \A l \in Fids : l \notin ReachOf(fids, search[s]) => byfs'[l] = byfs[l]
  BY <1>1 DEF Acts, SrvInvAt, SetOf
<1>3. \A q \in Searches : RunningAs(search[q]) => search[q].session \in Sessions
  BY <1>1 DEF SrvInvAt, SetOf
<1>4. \A q \in Searches : q # s /\ search[q].clean /\ RunningAs(search[q]) =>
        /\ search[q].session # search[s].session
        /\ ReachOf(fids, search[q]) \cap ReachOf(fids, search[s]) = {}
  BY <1>1 DEF SrvInvAt, AloneIn, MeetAs
<1>5. \A q \in Searches : q # s =>
        OrderOf(search'[q]) /\ TakenBy(q, search'[q]) /\ SetOf(fids', search'[q])
  <2>1. \A q \in Searches : OrderOf(search[q]) /\ TakenBy(q, search[q]) /\ SetOf(fids, search[q])
    BY <1>1 DEF SrvInvAt
  <2>2. \A x \in Sessions : fids[x] \subseteq fids'[x]
    BY <1>2
  <2>3. ASSUME NEW q \in Searches, q # s
        PROVE  SetOf(fids', search[q])
    BY <2>1, <2>2 DEF SetOf
  <2>4. QED
    BY <1>2, <2>1, <2>3
<1>6. \A q \in Searches : ToSet(search[q].doc) \subseteq Fids
  <2>1. \A q \in Searches : search[q].doc \in Seq(Fids)
    <3>1. <<>> \in Seq(Fids)
      OBVIOUS
    <3>2. QED
      BY <1>1, <3>1, DocsAreOfLines DEF SrvTypeOK, SearchState
  <2>2. QED
    BY <2>1 DEF ToSet
<1>7. ASSUME NEW q \in Searches, q # s
      PROVE  CleanOf(byfs', fids', q, search'[q])
  <2>1. CleanOf(byfs, fids, q, search[q]) /\ search'[q] = search[q]
    BY <1>1, <1>2, <1>7 DEF SrvInvAt
  <2>2. SUFFICES ASSUME search[q].clean, RunningAs(search[q])
                 PROVE  /\ fids'[search[q].session] = SaddedOf(search[q])
                        /\ \A l \in ToSet(search[q].doc) :
                             byfs'[l] = CollectedOf(q, search[q])[l]
    BY <2>1 DEF CleanOf
  <2>3. fids'[search[q].session] = fids[search[q].session]
    BY <1>2, <1>3, <1>4, <1>7, <2>2
  <2>4. \A l \in ToSet(search[q].doc) : byfs'[l] = byfs[l]
    <3>1. \A l \in ToSet(search[q].doc) : l \in Fids /\ l \notin ReachOf(fids, search[s])
      BY <1>4, <1>6, <1>7, <2>2 DEF ReachOf
    <3>2. QED
      BY <1>2, <3>1
  <2>5. QED
    BY <2>1, <2>2, <2>3, <2>4 DEF CleanOf
<1>8. ASSUME NEW p \in Searches
      PROVE  AloneIn(fids', search', p)
  <2> SUFFICES ASSUME search'[p].clean, RunningAs(search'[p]), NEW q \in Searches, q # p,
                      RunningAs(search'[q])
               PROVE  /\ search'[q].session # search'[p].session
                      /\ ReachOf(fids', search'[p]) \cap ReachOf(fids', search'[q]) = {}
    BY DEF AloneIn, MeetAs
  <2>1. /\ search[p].clean /\ RunningAs(search[p]) /\ RunningAs(search[q])
        /\ search'[p].doc = search[p].doc /\ search'[q].doc = search[q].doc
        /\ search'[p].session = search[p].session /\ search'[q].session = search[q].session
        /\ search[p].session \in Sessions /\ search[q].session \in Sessions
    BY <1>2, <1>3
  <2>2. /\ search[q].session # search[p].session
        /\ ReachOf(fids, search[p]) \cap ReachOf(fids, search[q]) = {}
    BY <1>1, <2>1 DEF SrvInvAt, AloneIn, MeetAs
  <2>3. ASSUME NEW r \in Searches, RunningAs(search[r])
        PROVE  fids'[search[r].session]
                 \subseteq fids[search[r].session] \cup ReachOf(fids, search[s])
    BY <1>2, <1>3, <2>3
  <2>4. CASE p = s
    <3>1. fids'[search[q].session] = fids[search[q].session]
      BY <1>2, <2>1, <2>2, <2>4
    <3>2. ReachOf(fids', search'[s]) \subseteq ReachOf(fids, search[s])
      BY <1>2, <2>1, <2>4 DEF ReachOf
    <3>3. ReachOf(fids', search'[q]) = ReachOf(fids, search[q])
      BY <2>1, <3>1 DEF ReachOf
    <3>4. QED
      BY <2>1, <2>2, <2>4, <3>2, <3>3
  <2>5. CASE p # s
    <3>1. /\ search[p].session # search[s].session
          /\ ReachOf(fids, search[p]) \cap ReachOf(fids, search[s]) = {}
      BY <1>4, <2>1, <2>5
    <3>2. ReachOf(fids', search'[p]) = ReachOf(fids, search[p])
      <4>1. fids'[search[p].session] = fids[search[p].session]
        BY <1>2, <2>1, <3>1
      <4>2. QED
        BY <2>1, <4>1 DEF ReachOf
    <3>3. ReachOf(fids', search'[q]) \subseteq ReachOf(fids, search[q]) \cup ReachOf(fids, search[s])
      <4>1. fids'[search[q].session]
              \subseteq fids[search[q].session] \cup ReachOf(fids, search[s])
        BY <2>1, <2>3
      <4>2. QED
        BY <2>1, <4>1 DEF ReachOf
    <3>4. QED
      BY <2>1, <2>2, <3>1, <3>2, <3>3
  <2>6. QED
    BY <2>4, <2>5
<1>9. LeftIn(byfs', search')
  <2> SUFFICES ASSUME NEW l \in Fids, byfs'[l] # NoEntry
               PROVE  \E q \in Searches : l \in ToSet(search'[q].doc) /\ search'[q].step # "done"
    BY DEF LeftIn
  <2>1. CASE l \in ToSet(search[s].doc)
    BY <2>1 DEF Acts
  <2>2. CASE l \notin ToSet(search[s].doc)
    <3>1. byfs[l] # NoEntry
      BY <2>2 DEF Acts
    <3>2. PICK q \in Searches : l \in ToSet(search[q].doc) /\ search[q].step # "done"
      BY <1>1, <3>1 DEF SrvInvAt, LeftIn
    <3>3. q # s
      BY <2>2, <3>2
    <3>4. QED
      BY <1>2, <3>2, <3>3
  <2>3. QED
    BY <2>1, <2>2
<1>10. SrvInvAt(byfs', fids', search')
  BY <1>5, <1>7, <1>8, <1>9 DEF SrvInvAt
<1>11. QED
  BY <1>10, SrvInvNext

\* What the invariant says of one search.
LEMMA SearchTyped ==
  ASSUME SrvIInv, NEW s \in Searches
  PROVE  /\ SrvTypeOK /\ search[s] \in SearchState
         /\ byfs \in [Fids -> Entries] /\ search \in [Searches -> SearchState]
         /\ search[s].doc \in Seq(Fids) /\ Len(search[s].doc) \in Nat
         /\ search[s].rc \in Nat /\ search[s].rc >= 1
         /\ search[s].bigtab \in [Fids -> Entries]
         /\ search[s].clean \in BOOLEAN
         /\ ToSet(search[s].doc) = {search[s].doc[n] : n \in 1..Len(search[s].doc)}
         /\ \A n \in 1..Len(search[s].doc) : search[s].doc[n] \in Fids
         /\ OrderOf(search[s]) /\ TakenBy(s, search[s])
         /\ SetOf(fids, search[s]) /\ CleanOf(byfs, fids, s, search[s])
         /\ RecordsPlaced
<1>1. SrvTypeOK /\ SrvInvAt(byfs, fids, search) /\ RecordsPlaced
  BY SrvInvMeans
<1>2. /\ search[s] \in SearchState /\ byfs \in [Fids -> Entries]
      /\ search \in [Searches -> SearchState]
  BY <1>1 DEF SrvTypeOK
<1>3. search[s].doc \in Seq(Fids)
  <2>1. <<>> \in Seq(Fids)
    OBVIOUS
  <2>2. QED
    BY <1>2, <2>1, DocsAreOfLines DEF SearchState
<1>4. /\ search[s].rc \in Nat /\ search[s].rc >= 1 /\ search[s].bigtab \in [Fids -> Entries]
      /\ search[s].clean \in BOOLEAN
  BY <1>2 DEF SearchState
<1>5. /\ ToSet(search[s].doc) = {search[s].doc[n] : n \in 1..Len(search[s].doc)}
      /\ \A n \in 1..Len(search[s].doc) : search[s].doc[n] \in Fids
      /\ Len(search[s].doc) \in Nat
  BY <1>3 DEF ToSet
<1>6. QED
  BY <1>1, <1>2, <1>3, <1>4, <1>5 DEF SrvInvAt

\* The record a search is at.
LEMMA AtRecord ==
  ASSUME SrvIInv, NEW s \in Searches, search[s].step \in {"sadd", "expire", "hget"}
  PROVE  /\ RunningAs(search[s]) /\ search[s].session \in Sessions
         /\ search[s].rc \in 1..Len(search[s].doc)
         /\ Line(s) = search[s].doc[search[s].rc] /\ Line(s) \in Fids
         /\ Line(s) \in ToSet(search[s].doc)
         /\ <<s, search[s].rc>> \in Records
         /\ {search[s].doc[n] : n \in 1..search[s].rc}
              = {search[s].doc[n] : n \in 1..search[s].rc - 1} \cup {Line(s)}
<1>1. RunningAs(search[s]) /\ search[s].session \in Sessions
  BY SearchTyped DEF RunningAs, SetOf
<1>2. search[s].rc \in 1..Len(search[s].doc) /\ search[s].rc \in Nat
  BY SearchTyped DEF OrderOf
<1>3. Line(s) = search[s].doc[search[s].rc]
  BY DEF Line
<1>4. <<s, search[s].rc>> \in Records
  BY <1>2 DEF Records
<1>5. {search[s].doc[n] : n \in 1..search[s].rc}
        = {search[s].doc[n] : n \in 1..search[s].rc - 1} \cup {Line(s)}
  <2>1. 1..search[s].rc = (1..search[s].rc - 1) \cup {search[s].rc}
    BY <1>2
  <2>2. QED
    BY <1>3, <2>1
<1>6. Line(s) \in Fids /\ Line(s) \in ToSet(search[s].doc)
  BY <1>2, <1>3, SearchTyped
<1>7. QED
  BY <1>1, <1>2, <1>3, <1>4, <1>5, <1>6

LEMMA SaddStep ==
  ASSUME SrvIInv, NEW s \in Searches, Sadd(s)
  PROVE  SrvIInv'
<1> DEFINE r == search[s]
<1>1. /\ r.step = "sadd" /\ byfs' = byfs
      /\ search' = [search EXCEPT ![s].step = "expire"]
      /\ fids' = [fids EXCEPT ![r.session] = @ \cup {Line(s)}]
  BY DEF Sadd
<1>2. /\ search' = [search EXCEPT ![s] = [r EXCEPT !.step = "expire"]]
      /\ r \in SearchState /\ search \in [Searches -> SearchState]
      /\ fids \in [Sessions -> SUBSET Fids] /\ byfs \in [Fids -> Entries]
  BY <1>1, SearchTyped DEF SrvTypeOK
<1>3. /\ \A q \in Searches : q # s => search'[q] = search[q]
      /\ search'[s] \in SearchState /\ search'[s].step = "expire"
      /\ search'[s].doc = r.doc /\ search'[s].rc = r.rc /\ search'[s].session = r.session
      /\ search'[s].clean = r.clean /\ search'[s].bigtab = r.bigtab
      /\ search' \in [Searches -> SearchState]
  BY <1>2 DEF SearchState
<1>4. /\ RunningAs(r) /\ r.session \in Sessions /\ r.rc \in 1..Len(r.doc)
      /\ Line(s) \in Fids /\ Line(s) \in ToSet(r.doc)
      /\ {r.doc[n] : n \in 1..r.rc} = {r.doc[n] : n \in 1..r.rc - 1} \cup {Line(s)}
  BY <1>1, AtRecord
<1>5. /\ fids'[r.session] = fids[r.session] \cup {Line(s)}
      /\ \A x \in Sessions : x # r.session => fids'[x] = fids[x]
      /\ fids' \in [Sessions -> SUBSET Fids]
  BY <1>1, <1>2, <1>4
<1>6. SrvTypeOK'
  BY <1>1, <1>2, <1>3, <1>5 DEF SrvTypeOK
<1>7. RecordsPlaced'
  <2>1. PricesOf' = PricesOf /\ BunksOf' = BunksOf
    BY <1>1, <1>3, SameTables
  <2>2. RecordsPlaced
    BY SearchTyped
  <2>3. QED
    BY <1>1, <1>3, <2>1, <2>2, KeptPlaces
<1>8. Acts(s)
  BY <1>1, <1>3, <1>4, <1>5 DEF Acts, ReachOf
<1>9. OrderOf(search'[s]) /\ TakenBy(s, search'[s])
  <2>1. OrderOf(r)
    BY SearchTyped
  <2>2. QED
    BY <1>1, <1>3, <1>4, <2>1 DEF OrderOf, RunningAs, TakenBy
<1>10. /\ SaddedOf(search'[s]) = {r.doc[n] : n \in 1..r.rc}
       /\ SaddedOf(r) = {r.doc[n] : n \in 1..r.rc - 1}
       /\ CollectedOf(s, search'[s]) = CollectedOf(s, r)
  BY <1>1, <1>3 DEF SaddedOf, CollectedOf
<1>11. SetOf(fids', search'[s]) /\ CleanOf(byfs', fids', s, search'[s])
  <2>1. SetOf(fids, r) /\ CleanOf(byfs, fids, s, r)
    BY SearchTyped
  <2>2. /\ SaddedOf(r) \subseteq fids[r.session]
        /\ r.clean => /\ fids[r.session] = SaddedOf(r)
                      /\ \A l \in ToSet(r.doc) : byfs[l] = CollectedOf(s, r)[l]
    BY <1>4, <2>1 DEF SetOf, CleanOf
  <2>3. SaddedOf(search'[s]) = SaddedOf(r) \cup {Line(s)}
    BY <1>4, <1>10
  <2> HIDE DEF r
  <2>4. SetOf(fids', search'[s])
    BY <1>3, <1>4, <1>5, <2>2, <2>3 DEF SetOf
  <2>5. CleanOf(byfs', fids', s, search'[s])
    BY <1>1, <1>3, <1>5, <1>10, <2>2, <2>3 DEF CleanOf
  <2>6. QED
    BY <2>4, <2>5
<1>12. QED
  BY <1>4, <1>6, <1>7, <1>8, <1>9, <1>11, ActsKeeps

\* Two tables that agree on a line and on the one a part is put in agree after it.
LEMMA PutAgrees ==
  ASSUME NEW d \in [Fids -> Entries], NEW e \in [Fids -> Entries], NEW l \in Fids,
         NEW k \in Fids, NEW x, d[l] = e[l], d[k] = e[k]
  PROVE  PutBunk(d, x, l)[k] = PutBunk(e, x, l)[k] /\ PutPrice(d, x, l)[k] = PutPrice(e, x, l)[k]
<1>1. CASE k = l
  BY <1>1 DEF PutBunk, PutPrice
<1>2. CASE k # l
  BY <1>2 DEF PutBunk, PutPrice
<1>3. QED
  BY <1>1, <1>2

\* What the others' records are is not changed by a part put in for record x of s.
LEMMA PlacedOthers ==
  ASSUME RecordsPlaced, NEW s \in Searches, NEW q \in Searches, NEW n \in Nat \ {0},
         <<q, n>> # <<s, search[s].rc>>,
         \A p \in Searches : p # s => search'[p] = search[p],
         search'[s].step # "error", search[s].step # "error",
         search'[s].rc \in {search[s].rc, search[s].rc + 1}, search[s].rc \in Nat,
         search'[s].rc = search[s].rc + 1 => search'[s].step # "hget",
         \A y : y # <<s, search[s].rc>> =>
                /\ (Once(PricesOf, y) => Once(PricesOf', y))
                /\ (Nowhere(PricesOf, y) => Nowhere(PricesOf', y))
                /\ (Once(BunksOf, y) => Once(BunksOf', y))
                /\ (Nowhere(BunksOf, y) => Nowhere(BunksOf', y))
  PROVE  PlacedOf(PricesOf', BunksOf', q, search'[q], n)
<1> DEFINE x == <<q, n>>
<1>1. PlacedOf(PricesOf, BunksOf, q, search[q], n)
  BY RecordsPlacedMeans
<1>2. /\ n < search[q].rc => Once(PricesOf, x) /\ Once(BunksOf, x)
      /\ n >= search[q].rc => Nowhere(PricesOf, x)
      /\ n = search[q].rc /\ search[q].step = "hget" => Once(BunksOf, x)
      /\ n = search[q].rc /\ search[q].step = "error" => Once(BunksOf, x) \/ Nowhere(BunksOf, x)
      /\ n = search[q].rc /\ search[q].step \notin {"hget", "error"} => Nowhere(BunksOf, x)
      /\ n > search[q].rc => Nowhere(BunksOf, x)
  BY <1>1 DEF PlacedOf
<1>3. /\ (Once(PricesOf, x) => Once(PricesOf', x))
      /\ (Nowhere(PricesOf, x) => Nowhere(PricesOf', x))
      /\ (Once(BunksOf, x) => Once(BunksOf', x))
      /\ (Nowhere(BunksOf, x) => Nowhere(BunksOf', x))
  OBVIOUS
<1>4. q = s => n # search[s].rc
  OBVIOUS
<1> HIDE DEF x
<1>5. CASE q # s
  <2>1. search'[q] = search[q]
    BY <1>5
  <2>2. QED
    BY <1>2, <1>3, <2>1 DEF PlacedOf, x
<1>6. CASE q = s
  <2>1. /\ n < search[s].rc => Once(PricesOf', x) /\ Once(BunksOf', x)
        /\ n > search[s].rc => Nowhere(PricesOf', x) /\ Nowhere(BunksOf', x)
        /\ n < search[s].rc \/ n > search[s].rc
    BY <1>2, <1>3, <1>4, <1>6
  <2>2. /\ n < search'[s].rc => Once(PricesOf', x) /\ Once(BunksOf', x)
        /\ n >= search'[s].rc => Nowhere(PricesOf', x) /\ Nowhere(BunksOf', x)
        /\ n = search'[s].rc => search'[s].step # "hget"
    BY <2>1
  <2>3. QED
    BY <1>6, <2>2 DEF PlacedOf, x
<1>7. QED
  BY <1>5, <1>6

\* A part put into the dictionary makes one list longer, and no other.
LEMMA PutPlaces ==
  ASSUME byfs \in [Fids -> Entries], byfs' \in [Fids -> Entries],
         \A q \in Searches : search[q].bigtab \in [Fids -> Entries],
         \A q \in Searches : search'[q].bigtab = search[q].bigtab,
         NEW l \in Fids, NEW x \in Records,
         \A k \in Fids : k # l => byfs'[k] = byfs[k]
  PROVE  /\ byfs'[l].bunks = Append(byfs[l].bunks, x) /\ byfs'[l].prices = byfs[l].prices =>
              PricesOf' = PricesOf /\ Grows(BunksOf, BunksOf', <<None, l>>, x)
         /\ byfs'[l].prices = Append(byfs[l].prices, x) /\ byfs'[l].bunks = byfs[l].bunks =>
              BunksOf' = BunksOf /\ Grows(PricesOf, PricesOf', <<None, l>>, x)
<1> DEFINE z == <<None, l>>
<1>1. /\ PricesOf \in [Shelves -> Seq(Records)] /\ BunksOf \in [Shelves -> Seq(Records)]
      /\ z \in Shelves /\ PricesOf[z] = byfs[l].prices /\ BunksOf[z] = byfs[l].bunks
  BY ShelvesAre, ShelvesNow
<1>2. /\ PricesOf' \in [Shelves -> Seq(Records)] /\ BunksOf' \in [Shelves -> Seq(Records)]
      /\ PricesOf'[z] = byfs'[l].prices /\ BunksOf'[z] = byfs'[l].bunks
  <2>1. \A q \in Searches : search'[q].bigtab \in [Fids -> Entries]
    OBVIOUS
  <2>2. /\ PricesIn(byfs', search') \in [Shelves -> Seq(Records)]
        /\ BunksIn(byfs', search') \in [Shelves -> Seq(Records)]
        /\ PricesIn(byfs', search')[z] = byfs'[l].prices
        /\ BunksIn(byfs', search')[z] = byfs'[l].bunks
    BY <2>1, ShelvesAre
  <2>3. QED
    BY <2>2, ShelvesNow
<1>3. ASSUME NEW p \in Shelves, p # z
      PROVE  PricesOf'[p] = PricesOf[p] /\ BunksOf'[p] = BunksOf[p]
  <2>1. p[1] \in Holders /\ p[2] \in Fids /\ p = <<p[1], p[2]>>
    BY DEF Shelves
  <2>2. /\ PricesOf'[p] = TableIn(byfs', search', p[1])[p[2]].prices
        /\ PricesOf[p] = TableIn(byfs, search, p[1])[p[2]].prices
        /\ BunksOf'[p] = TableIn(byfs', search', p[1])[p[2]].bunks
        /\ BunksOf[p] = TableIn(byfs, search, p[1])[p[2]].bunks
    BY ShelvesNow DEF PricesIn, BunksIn
  <2>3. CASE p[1] # None
    BY <2>1, <2>2, <2>3 DEF TableIn, Holders
  <2>4. CASE p[1] = None
    <3>1. p[2] # l
      BY <1>3, <2>1, <2>4
    <3>2. QED
      BY <2>1, <2>2, <2>4, <3>1 DEF TableIn
  <2>5. QED
    BY <2>3, <2>4
<1>4. /\ PricesOf = [p \in Shelves |-> PricesOf[p]] /\ PricesOf' = [p \in Shelves |-> PricesOf'[p]]
      /\ BunksOf = [p \in Shelves |-> BunksOf[p]] /\ BunksOf' = [p \in Shelves |-> BunksOf'[p]]
  BY <1>1, <1>2
<1> HIDE DEF z
<1>5. ASSUME byfs'[l].bunks = Append(byfs[l].bunks, x), byfs'[l].prices = byfs[l].prices
      PROVE  PricesOf' = PricesOf /\ Grows(BunksOf, BunksOf', z, x)
  <2>1. \A p \in Shelves : PricesOf'[p] = PricesOf[p]
    BY <1>1, <1>2, <1>3, <1>5
  <2>2. PricesOf' = PricesOf
    BY <1>4, <2>1
  <2>3. Grows(BunksOf, BunksOf', z, x)
    BY <1>1, <1>2, <1>3, <1>5 DEF Grows
  <2>4. QED
    BY <2>2, <2>3
<1>6. ASSUME byfs'[l].prices = Append(byfs[l].prices, x), byfs'[l].bunks = byfs[l].bunks
      PROVE  BunksOf' = BunksOf /\ Grows(PricesOf, PricesOf', z, x)
  <2>1. \A p \in Shelves : BunksOf'[p] = BunksOf[p]
    BY <1>1, <1>2, <1>3, <1>6
  <2>2. BunksOf' = BunksOf
    BY <1>4, <2>1
  <2>3. Grows(PricesOf, PricesOf', z, x)
    BY <1>1, <1>2, <1>3, <1>6 DEF Grows
  <2>4. QED
    BY <2>2, <2>3
<1>7. QED
  BY <1>5, <1>6 DEF z

LEMMA ExpireStep ==
  ASSUME SrvIInv, NEW s \in Searches, Expire(s)
  PROVE  SrvIInv'
<1> DEFINE r == search[s]
           l == Line(s)
           x == <<s, r.rc>>
<1>1. /\ r.step = "expire" /\ byfs' = PutBunk(byfs, x, l) /\ fids' = fids
      /\ search' = [search EXCEPT ![s].step = "hget"]
  BY DEF Expire
<1>2. /\ search' = [search EXCEPT ![s] = [r EXCEPT !.step = "hget"]]
      /\ r \in SearchState /\ search \in [Searches -> SearchState]
      /\ fids \in [Sessions -> SUBSET Fids] /\ byfs \in [Fids -> Entries]
  BY <1>1, SearchTyped DEF SrvTypeOK
<1>3. /\ \A q \in Searches : q # s => search'[q] = search[q]
      /\ search'[s] \in SearchState /\ search'[s].step = "hget"
      /\ search'[s].doc = r.doc /\ search'[s].rc = r.rc /\ search'[s].session = r.session
      /\ search'[s].clean = r.clean /\ search'[s].bigtab = r.bigtab
      /\ search' \in [Searches -> SearchState]
  BY <1>2 DEF SearchState
<1>4. /\ RunningAs(r) /\ r.session \in Sessions /\ r.rc \in 1..Len(r.doc)
      /\ l = r.doc[r.rc] /\ l \in Fids /\ l \in ToSet(r.doc) /\ x \in Records
  BY <1>1, AtRecord
<1> HIDE DEF x, l
<1>5. /\ byfs' \in [Fids -> Entries] /\ byfs'[l].bunks = Append(byfs[l].bunks, x)
      /\ byfs'[l].prices = byfs[l].prices
      /\ \A k \in Fids : k # l => byfs'[k] = byfs[k]
  <2> DEFINE c == PutBunk(byfs, x, l)
  <2>1. /\ c \in [Fids -> Entries] /\ c[l].bunks = Append(byfs[l].bunks, x)
        /\ c[l].prices = byfs[l].prices
        /\ \A k \in Fids : k # l => c[k] = byfs[k]
    BY <1>2, <1>4, PutBunkEffect
  <2> HIDE DEF c
  <2>2. byfs' = c
    BY <1>1 DEF c
  <2>3. QED
    BY <2>1, <2>2
<1>6. SrvTypeOK'
  BY <1>1, <1>2, <1>3, <1>5 DEF SrvTypeOK
<1>7. RecordsPlaced'
  <2>1. /\ \A q \in Searches : search[q].bigtab \in [Fids -> Entries]
        /\ \A q \in Searches : search'[q].bigtab = search[q].bigtab
    BY <1>2, <1>3 DEF SearchState
  <2>2. PricesOf' = PricesOf /\ Grows(BunksOf, BunksOf', <<None, l>>, x)
    BY <1>2, <1>4, <1>5, <2>1, PutPlaces
  <2>5. PlacedOf(PricesOf, BunksOf, s, r, r.rc) /\ RecordsPlaced /\ r.rc \in Nat \ {0}
    BY <1>4, SearchTyped, RecordsPlacedMeans
  <2>6. Nowhere(BunksOf, x) /\ Nowhere(PricesOf, x)
    BY <1>1, <2>5 DEF PlacedOf, x
  <2>7. /\ Once(BunksOf', x)
        /\ \A y : y # x => /\ Once(BunksOf, y) => Once(BunksOf', y)
                           /\ Nowhere(BunksOf, y) => Nowhere(BunksOf', y)
    BY <2>2, <2>6, GrowPlace
  <2>8. ASSUME NEW q \in Searches, NEW n \in Nat \ {0}
        PROVE  PlacedOf(PricesOf', BunksOf', q, search'[q], n)
    <3>1. CASE <<q, n>> # x
      BY <1>1, <1>3, <2>2, <2>5, <2>7, <3>1, PlacedOthers DEF x
    <3>2. CASE <<q, n>> = x
      <4>1. q = s /\ n = r.rc /\ search'[s].rc = n /\ ~(n < n) /\ ~(n > n)
        BY <1>3, <2>5, <3>2 DEF x
      <4>2. QED
        BY <1>3, <2>2, <2>6, <2>7, <3>2, <4>1 DEF PlacedOf
    <3>3. QED
      BY <3>1, <3>2
  <2>9. QED
    BY <2>8, RecordsPlacedMeans
<1>8. Acts(s)
  BY <1>1, <1>3, <1>4, <1>5 DEF Acts, ReachOf
<1>9. OrderOf(search'[s]) /\ TakenBy(s, search'[s])
  <2>1. OrderOf(r)
    BY SearchTyped
  <2>2. QED
    BY <1>1, <1>3, <1>4, <2>1 DEF OrderOf, RunningAs, TakenBy
<1>10. SetOf(fids', search'[s]) /\ CleanOf(byfs', fids', s, search'[s])
  <2>1. SetOf(fids, r) /\ CleanOf(byfs, fids, s, r) /\ r.doc \in Seq(Fids)
    BY SearchTyped
  <2>2. /\ SaddedOf(r) \subseteq fids[r.session]
        /\ r.clean => /\ fids[r.session] = SaddedOf(r)
                      /\ \A k \in ToSet(r.doc) : byfs[k] = CollectedOf(s, r)[k]
    BY <1>4, <2>1 DEF SetOf, CleanOf
  <2>3. SaddedOf(search'[s]) = SaddedOf(r)
    BY <1>1, <1>3 DEF SaddedOf
  <2> DEFINE D == Dfid(s, r.doc)[r.rc - 1]
  <2>4. CollectedOf(s, r) = D /\ CollectedOf(s, search'[s]) = PutBunk(D, x, l)
    BY <1>1, <1>3, <1>4 DEF CollectedOf, x
  <2>5. D \in [Fids -> Entries]
    <3>1. r.rc - 1 \in 0..Len(r.doc)
      BY <1>4
    <3>2. QED
      BY <2>1, <3>1, DfidEntries
  <2> HIDE DEF r, D
  <2>6. SetOf(fids', search'[s])
    BY <1>1, <1>3, <1>4, <2>2, <2>3 DEF SetOf
  <2>7. ASSUME r.clean, NEW k \in ToSet(r.doc)
        PROVE  byfs'[k] = PutBunk(D, x, l)[k]
    <3>1. k \in Fids /\ byfs[k] = D[k] /\ byfs[l] = D[l]
      <4>1. ToSet(r.doc) \subseteq Fids
        BY <2>1 DEF ToSet
      <4>2. QED
        BY <1>4, <2>2, <2>4, <2>7, <4>1
    <3>2. QED
      BY <1>1, <1>2, <1>4, <2>5, <3>1, PutAgrees
  <2>8. CleanOf(byfs', fids', s, search'[s])
    BY <1>1, <1>3, <2>2, <2>3, <2>4, <2>7 DEF CleanOf
  <2>9. QED
    BY <2>6, <2>8
<1>11. QED
  BY <1>4, <1>6, <1>7, <1>8, <1>9, <1>10, ActsKeeps

LEMMA HgetStep ==
  ASSUME SrvIInv, NEW s \in Searches, Hget(s)
  PROVE  SrvIInv'
<1> DEFINE r == search[s]
           l == Line(s)
           x == <<s, r.rc>>
           t == NextStep(r.doc, r.rc + 1)
<1>1. /\ r.step = "hget" /\ byfs' = PutPrice(byfs, x, l) /\ fids' = fids
      /\ search' = [search EXCEPT ![s].rc = @ + 1, ![s].step = t]
  BY DEF Hget
<1>2. /\ search' = [search EXCEPT ![s] = [r EXCEPT !.rc = r.rc + 1, !.step = t]]
      /\ r \in SearchState /\ search \in [Searches -> SearchState]
      /\ fids \in [Sessions -> SUBSET Fids] /\ byfs \in [Fids -> Entries]
      /\ t = (IF r.rc + 1 <= Len(r.doc) THEN "sadd" ELSE "smembers")
      /\ r.rc + 1 \in Nat \ {0}
  <2>1. r \in SearchState /\ search \in [Searches -> SearchState]
    BY SearchTyped
  <2>2. search' = [search EXCEPT ![s] = [r EXCEPT !.rc = r.rc + 1, !.step = t]]
    <3> HIDE DEF t
    <3>1. QED
      BY <1>1, <2>1
  <2>3. QED
    BY <2>1, <2>2, SearchTyped DEF SrvTypeOK, SearchState, NextStep
<1> HIDE DEF t
<1>3. /\ \A q \in Searches : q # s => search'[q] = search[q]
      /\ search'[s] \in SearchState /\ search'[s].step = t
      /\ search'[s].doc = r.doc /\ search'[s].rc = r.rc + 1
      /\ search'[s].session = r.session
      /\ search'[s].clean = r.clean /\ search'[s].bigtab = r.bigtab
      /\ search' \in [Searches -> SearchState]
  BY <1>2 DEF SearchState
<1>4. /\ RunningAs(r) /\ r.session \in Sessions /\ r.rc \in 1..Len(r.doc)
      /\ l = r.doc[r.rc] /\ l \in Fids /\ l \in ToSet(r.doc) /\ x \in Records
  BY <1>1, AtRecord
<1> HIDE DEF x, l
<1>5. /\ byfs' \in [Fids -> Entries] /\ byfs'[l].prices = Append(byfs[l].prices, x)
      /\ byfs'[l].bunks = byfs[l].bunks
      /\ \A k \in Fids : k # l => byfs'[k] = byfs[k]
  <2> DEFINE c == PutPrice(byfs, x, l)
  <2>1. /\ c \in [Fids -> Entries] /\ c[l].prices = Append(byfs[l].prices, x)
        /\ c[l].bunks = byfs[l].bunks
        /\ \A k \in Fids : k # l => c[k] = byfs[k]
    BY <1>2, <1>4, PutPriceEffect
  <2> HIDE DEF c
  <2>2. byfs' = c
    BY <1>1 DEF c
  <2>3. QED
    BY <2>1, <2>2
<1>6. SrvTypeOK'
  BY <1>1, <1>2, <1>3, <1>5 DEF SrvTypeOK
<1>7. RecordsPlaced'
  <2>1. /\ \A q \in Searches : search[q].bigtab \in [Fids -> Entries]
        /\ \A q \in Searches : search'[q].bigtab = search[q].bigtab
    BY <1>2, <1>3 DEF SearchState
  <2>2. BunksOf' = BunksOf /\ Grows(PricesOf, PricesOf', <<None, l>>, x)
    BY <1>2, <1>4, <1>5, <2>1, PutPlaces
  <2>3. PlacedOf(PricesOf, BunksOf, s, r, r.rc) /\ RecordsPlaced /\ r.rc \in Nat \ {0}
    BY <1>4, SearchTyped, RecordsPlacedMeans
  <2>4. Once(BunksOf, x) /\ Nowhere(PricesOf, x)
    BY <1>1, <2>3 DEF PlacedOf, x
  <2>5. /\ Once(PricesOf', x)
        /\ \A y : y # x => /\ Once(PricesOf, y) => Once(PricesOf', y)
                           /\ Nowhere(PricesOf, y) => Nowhere(PricesOf', y)
    BY <2>2, <2>4, GrowPlace
  <2>6. search'[s].step \notin {"error", "hget"} /\ r.step # "error"
    BY <1>1, <1>2, <1>3
  <2>7. ASSUME NEW q \in Searches, NEW n \in Nat \ {0}
        PROVE  PlacedOf(PricesOf', BunksOf', q, search'[q], n)
    <3>1. CASE <<q, n>> # x
      BY <1>3, <2>2, <2>3, <2>5, <2>6, <3>1, PlacedOthers DEF x
    <3>2. CASE <<q, n>> = x
      <4>1. q = s /\ n < search'[s].rc /\ ~(n >= search'[s].rc) /\ n # search'[s].rc
            /\ ~(n > search'[s].rc)
        BY <1>3, <2>3, <3>2 DEF x
      <4>2. QED
        BY <2>2, <2>4, <2>5, <3>2, <4>1 DEF PlacedOf
    <3>3. QED
      BY <3>1, <3>2
  <2>8. QED
    BY <2>7, RecordsPlacedMeans
<1>8. Acts(s)
  BY <1>1, <1>2, <1>3, <1>4, <1>5 DEF Acts, ReachOf
<1>9. OrderOf(search'[s]) /\ TakenBy(s, search'[s])
  <2>1. OrderOf(r) /\ Len(r.doc) \in Nat
    BY SearchTyped
  <2>2. QED
    BY <1>1, <1>2, <1>3, <1>4, <2>1 DEF OrderOf, RunningAs, TakenBy
<1>10. SetOf(fids', search'[s]) /\ CleanOf(byfs', fids', s, search'[s])
  <2>1. SetOf(fids, r) /\ CleanOf(byfs, fids, s, r) /\ r.doc \in Seq(Fids)
    BY SearchTyped
  <2>2. /\ SaddedOf(r) \subseteq fids[r.session]
        /\ r.clean => /\ fids[r.session] = SaddedOf(r)
                      /\ \A k \in ToSet(r.doc) : byfs[k] = CollectedOf(s, r)[k]
    BY <1>4, <2>1 DEF SetOf, CleanOf
  <2>3. SaddedOf(search'[s]) = SaddedOf(r)
    <3>1. search'[s].rc - 1 = r.rc /\ search'[s].step \notin {"expire", "hget"}
      BY <1>2, <1>3, <1>4
    <3>2. QED
      BY <1>1, <1>3, <3>1 DEF SaddedOf
  <2> DEFINE D == Dfid(s, r.doc)[r.rc - 1]
             E == PutBunk(D, x, l)
  <2>4. CollectedOf(s, r) = E /\ CollectedOf(s, search'[s]) = PutPrice(E, x, l)
    <3>1. CollectedOf(s, r) = E
      BY <1>1, <1>4 DEF CollectedOf, x
    <3>2. CollectedOf(s, search'[s]) = Dfid(s, r.doc)[r.rc]
      <4>1. search'[s].rc - 1 = r.rc /\ search'[s].step # "hget"
        BY <1>2, <1>3, <1>4
      <4>2. QED
        BY <1>3, <4>1 DEF CollectedOf
    <3>3. Dfid(s, r.doc)[r.rc] = PutRecord(D, x, l)
      BY <1>4, <2>1, DfidSteps DEF x
    <3>4. QED
      BY <3>1, <3>2, <3>3 DEF PutRecord
  <2>5. E \in [Fids -> Entries]
    <3>1. r.rc - 1 \in 0..Len(r.doc)
      BY <1>4
    <3>2. D \in [Fids -> Entries]
      BY <2>1, <3>1, DfidEntries
    <3> HIDE DEF D
    <3>3. QED
      BY <1>4, <3>2, PutBunkEffect
  <2> HIDE DEF r, D, E
  <2>6. SetOf(fids', search'[s])
    BY <1>1, <1>3, <1>4, <2>2, <2>3 DEF SetOf
  <2>7. ASSUME r.clean, NEW k \in ToSet(r.doc)
        PROVE  byfs'[k] = PutPrice(E, x, l)[k]
    <3>1. k \in Fids /\ byfs[k] = E[k] /\ byfs[l] = E[l]
      <4>1. ToSet(r.doc) \subseteq Fids
        BY <2>1 DEF ToSet
      <4>2. QED
        BY <1>4, <2>2, <2>4, <2>7, <4>1
    <3>2. QED
      BY <1>1, <1>2, <1>4, <2>5, <3>1, PutAgrees
  <2>8. CleanOf(byfs', fids', s, search'[s])
    BY <1>1, <1>3, <2>2, <2>3, <2>4, <2>7 DEF CleanOf
  <2>9. QED
    BY <2>6, <2>8
<1>11. QED
  BY <1>4, <1>6, <1>7, <1>8, <1>9, <1>10, ActsKeeps

LEMMA FailsStep ==
  ASSUME SrvIInv, NEW s \in Searches, Fails(s)
  PROVE  SrvIInv'
<1> DEFINE r == search[s]
           e == [r EXCEPT !.step = "error", !.session = None, !.failed = TRUE]
<1>1. /\ r.step \in {"sadd", "hget", "smembers"} /\ byfs' = byfs
      /\ search' = [search EXCEPT ![s].step = "error", ![s].session = None,
                                  ![s].failed = TRUE]
      /\ \/ fids' = fids
         \/ r.step = "sadd" /\ fids' = [fids EXCEPT ![r.session] = @ \cup {Line(s)}]
  BY DEF Fails
<1>2. /\ search' = [search EXCEPT ![s] = e]
      /\ r \in SearchState /\ search \in [Searches -> SearchState]
      /\ fids \in [Sessions -> SUBSET Fids] /\ byfs \in [Fids -> Entries]
  BY <1>1, SearchTyped DEF SrvTypeOK
<1>3. /\ \A q \in Searches : q # s => search'[q] = search[q]
      /\ search'[s] \in SearchState /\ search'[s].step = "error"
      /\ search'[s].doc = r.doc /\ search'[s].rc = r.rc /\ search'[s].failed = TRUE
      /\ search'[s].clean = r.clean /\ search'[s].bigtab = r.bigtab
      /\ search' \in [Searches -> SearchState]
  BY <1>2 DEF SearchState
<1>4. RunningAs(r) /\ r.session \in Sessions
  <2>1. RunningAs(r) /\ SetOf(fids, r)
    BY <1>1, SearchTyped DEF RunningAs
  <2>2. QED
    BY <2>1 DEF SetOf
<1>5. /\ fids[r.session] \subseteq fids'[r.session]
      /\ fids'[r.session] \subseteq fids[r.session] \cup ToSet(r.doc)
      /\ \A y \in Sessions : y # r.session => fids'[y] = fids[y]
      /\ fids' \in [Sessions -> SUBSET Fids]
  <2>1. CASE fids' = fids
    BY <1>2, <2>1
  <2>2. CASE r.step = "sadd" /\ fids' = [fids EXCEPT ![r.session] = @ \cup {Line(s)}]
    <3>1. Line(s) \in Fids /\ Line(s) \in ToSet(r.doc)
      BY <2>2, AtRecord
    <3>2. QED
      BY <1>2, <1>4, <2>2, <3>1
  <2>3. QED
    BY <1>1, <2>1, <2>2
<1>6. SrvTypeOK'
  BY <1>1, <1>2, <1>3, <1>5 DEF SrvTypeOK
<1>7. RecordsPlaced'
  <2>1. PricesOf' = PricesOf /\ BunksOf' = BunksOf
    BY <1>1, <1>3, SameTables
  <2>2. RecordsPlaced
    BY SearchTyped
  <2>3. QED
    BY <1>1, <1>3, <2>1, <2>2, KeptPlaces
<1>8. ~RunningAs(search'[s])
  BY <1>3 DEF RunningAs
<1>9. Acts(s)
  BY <1>1, <1>3, <1>4, <1>5, <1>8 DEF Acts, ReachOf
<1>10. OrderOf(search'[s]) /\ TakenBy(s, search'[s])
  <2>1. OrderOf(r)
    BY SearchTyped
  <2>2. QED
    BY <1>3, <1>8, <2>1 DEF OrderOf, TakenBy
<1>11. SetOf(fids', search'[s]) /\ CleanOf(byfs', fids', s, search'[s])
  BY <1>8 DEF SetOf, CleanOf
<1>12. QED
  BY <1>4, <1>6, <1>7, <1>9, <1>10, <1>11, ActsKeeps

\* What an answer leaves of a line, and what it takes of it.
LEMMA TakeEffect ==
  ASSUME byfs \in [Fids -> Entries], NEW L, NEW B, L \cap B = {}, NEW l \in Fids
  PROVE  /\ Rest(l, L, B) \in Entries /\ Read(l, L, B) \in Entries
         /\ \/ Rest(l, L, B).prices = byfs[l].prices /\ Read(l, L, B).prices = <<>>
            \/ Rest(l, L, B).prices = <<>> /\ Read(l, L, B).prices = byfs[l].prices
         /\ \/ Rest(l, L, B).bunks = byfs[l].bunks /\ Read(l, L, B).bunks = <<>>
            \/ Rest(l, L, B).bunks = <<>> /\ Read(l, L, B).bunks = byfs[l].bunks
         /\ Rest(l, L, B) # NoEntry => byfs[l] # NoEntry
         /\ l \notin L \cup B => Rest(l, L, B) = byfs[l]
         /\ l \in L => Rest(l, L, B) = NoEntry /\ Read(l, L, B) = byfs[l]
         /\ B = {} /\ l \notin L => Read(l, L, B) = NoEntry
<1> DEFINE e == byfs[l]
           k == [e EXCEPT !.bunks = <<>>, !.prices = <<>>]
           m == [e EXCEPT !.seg = None]
<1>1. /\ e \in Entries /\ NoEntry \in Entries
      /\ NoEntry.bunks = <<>> /\ NoEntry.prices = <<>>
  BY DEF Entries, NoEntry
<1>2. k \in Entries /\ k.bunks = <<>> /\ k.prices = <<>>
  BY <1>1 DEF Entries
<1>3. m \in Entries /\ m.bunks = e.bunks /\ m.prices = e.prices
  BY <1>1 DEF Entries
<1> HIDE DEF k, m
<1>4. CASE l \in L
  <2>1. Rest(l, L, B) = NoEntry /\ Read(l, L, B) = e
    BY <1>4 DEF Rest, Read
  <2>2. QED
    BY <1>1, <1>4, <2>1
<1>5. CASE l \notin L /\ l \in B /\ e.bunks # <<>>
  <2>1. Rest(l, L, B) = k /\ Read(l, L, B) = m
    BY <1>5 DEF Rest, Read, k, m
  <2>2. e # NoEntry
    BY <1>1, <1>5
  <2>3. QED
    BY <1>2, <1>3, <1>5, <2>1, <2>2
<1>6. CASE l \notin L /\ ~(l \in B /\ e.bunks # <<>>)
  <2>1. Rest(l, L, B) = e /\ Read(l, L, B) = NoEntry
    BY <1>6 DEF Rest, Read
  <2>2. QED
    BY <1>1, <1>6, <2>1
<1>7. QED
  BY <1>4, <1>5, <1>6

LEMMA SmembersStep ==
  ASSUME SrvIInv, NEW s \in Searches, Smembers(s)
  PROVE  SrvIInv'
<1> DEFINE r == search[s]
           F == fids[r.session]
<1>1. /\ r.step = "smembers" /\ fids' = fids
      /\ \/ (\A l \in F : Whole(l)) /\ Take(s, F, {})
         \/ \E b \in F : ~Whole(b) /\ \E L \in SUBSET {l \in F : Whole(l)} : Take(s, L, {b})
  BY DEF Smembers
<1>2. /\ r \in SearchState /\ search \in [Searches -> SearchState]
      /\ fids \in [Sessions -> SUBSET Fids] /\ byfs \in [Fids -> Entries]
      /\ r.doc \in Seq(Fids) /\ Len(r.doc) \in Nat
      /\ OrderOf(r) /\ SetOf(fids, r) /\ CleanOf(byfs, fids, s, r) /\ RecordsPlaced
      /\ ToSet(r.doc) = {r.doc[n] : n \in 1..Len(r.doc)}
  BY SearchTyped DEF SrvTypeOK
<1>3. /\ RunningAs(r) /\ r.session \in Sessions /\ F \subseteq Fids
      /\ r.rc = Len(r.doc) + 1 /\ r.bigtab = NoLines
      /\ SaddedOf(r) = ToSet(r.doc) /\ ToSet(r.doc) \subseteq F
  <2>1. RunningAs(r)
    BY <1>1 DEF RunningAs
  <2>2. r.session \in Sessions /\ SaddedOf(r) \subseteq F
    BY <1>2, <2>1 DEF SetOf
  <2>3. r.rc = Len(r.doc) + 1 /\ r.bigtab = NoLines
    BY <1>1, <1>2, <2>1 DEF OrderOf
  <2>4. SaddedOf(r) = ToSet(r.doc)
    <3>1. r.rc - 1 = Len(r.doc)
      BY <1>2, <2>3
    <3>2. QED
      BY <1>1, <1>2, <3>1 DEF SaddedOf
  <2>5. QED
    BY <1>2, <2>1, <2>2, <2>3, <2>4
<1>4. PICK L \in SUBSET F, B \in SUBSET F :
         /\ Take(s, L, B) /\ L \cap B = {}
         /\ \/ L = F /\ B = {}
            \/ B # {} /\ \E b \in F : ~Whole(b)
  <2>1. CASE (\A l \in F : Whole(l)) /\ Take(s, F, {})
    BY <2>1
  <2>2. CASE \E b \in F : ~Whole(b) /\ \E L \in SUBSET {l \in F : Whole(l)} : Take(s, L, {b})
    <3>1. PICK b \in F : ~Whole(b) /\ \E L \in SUBSET {l \in F : Whole(l)} : Take(s, L, {b})
      BY <2>2
    <3>2. PICK L \in SUBSET {l \in F : Whole(l)} : Take(s, L, {b})
      BY <3>1
    <3>3. L \in SUBSET F /\ {b} \in SUBSET F /\ {b} # {} /\ L \cap {b} = {}
      BY <3>1, <3>2
    <3>4. QED
      BY <3>1, <3>2, <3>3
  <2>3. QED
    BY <1>1, <2>1, <2>2
<1> DEFINE t == IF B = {} THEN "done" ELSE "error"
           T == [l \in Fids |-> Read(l, L, B)]
           e == [r EXCEPT !.step = t, !.session = None, !.bigtab = T]
<1>5. /\ T \in [Fids -> Entries] /\ byfs' \in [Fids -> Entries]
      /\ \A l \in Fids : T[l] = Read(l, L, B) /\ byfs'[l] = Rest(l, L, B)
  BY <1>2, <1>4, TakeEffect DEF Take
<1>6. /\ search' = [search EXCEPT ![s] = e]
      /\ t \in {"done", "error"} /\ (t = "done" <=> B = {})
  <2>1. search' = [search EXCEPT ![s].step = t, ![s].session = None, ![s].bigtab = T]
    BY <1>4 DEF Take
  <2>2. t \in {"done", "error"} /\ (t = "done" <=> B = {})
    OBVIOUS
  <2> HIDE DEF t, T
  <2>3. QED
    BY <1>2, <2>1, <2>2
<1> HIDE DEF t, T
<1>7. /\ \A q \in Searches : q # s => search'[q] = search[q]
      /\ search'[s] \in SearchState /\ search'[s].step = t
      /\ search'[s].doc = r.doc /\ search'[s].rc = r.rc
      /\ search'[s].clean = r.clean /\ search'[s].bigtab = T
      /\ search' \in [Searches -> SearchState]
  BY <1>2, <1>5, <1>6 DEF SearchState
<1>8. SrvTypeOK'
  BY <1>1, <1>2, <1>5, <1>7 DEF SrvTypeOK
<1>9. \A y : /\ (Once(PricesOf, y) => Once(PricesOf', y))
             /\ (Nowhere(PricesOf, y) => Nowhere(PricesOf', y))
             /\ (Once(BunksOf, y) => Once(BunksOf', y))
             /\ (Nowhere(BunksOf, y) => Nowhere(BunksOf', y))
  <2>1. /\ \A q \in Searches : search[q].bigtab \in [Fids -> Entries]
        /\ \A q \in Searches : search'[q].bigtab \in [Fids -> Entries]
    BY <1>2, <1>7 DEF SearchState
  <2>2. /\ \A l \in Fids : /\ PricesOf[<<None, l>>] = byfs[l].prices
                            /\ BunksOf[<<None, l>>] = byfs[l].bunks
        /\ \A h \in Holders, l \in Fids : h # None =>
             /\ h \in Searches
             /\ PricesOf[<<h, l>>] = search[h].bigtab[l].prices
             /\ BunksOf[<<h, l>>] = search[h].bigtab[l].bunks
    BY <1>2, <2>1, ShelvesAre, ShelvesNow
  <2>3. /\ \A l \in Fids : /\ PricesOf'[<<None, l>>] = byfs'[l].prices
                            /\ BunksOf'[<<None, l>>] = byfs'[l].bunks
        /\ \A h \in Holders, l \in Fids : h # None =>
             /\ PricesOf'[<<h, l>>] = search'[h].bigtab[l].prices
             /\ BunksOf'[<<h, l>>] = search'[h].bigtab[l].bunks
    <3>1. /\ \A l \in Fids : /\ PricesIn(byfs', search')[<<None, l>>] = byfs'[l].prices
                              /\ BunksIn(byfs', search')[<<None, l>>] = byfs'[l].bunks
          /\ \A h \in Holders, l \in Fids : h # None =>
               /\ PricesIn(byfs', search')[<<h, l>>] = search'[h].bigtab[l].prices
               /\ BunksIn(byfs', search')[<<h, l>>] = search'[h].bigtab[l].bunks
      BY <1>5, <2>1, ShelvesAre
    <3>2. QED
      BY <3>1, ShelvesNow
  <2>4. s # None /\ s \in Holders
    BY NoneIsNoSearch DEF Holders
  <2>5. ASSUME NEW l \in Fids
        PROVE  /\ PricesOf[<<s, l>>] = <<>> /\ BunksOf[<<s, l>>] = <<>>
               /\ \/ PricesOf'[<<None, l>>] = PricesOf[<<None, l>>] /\ PricesOf'[<<s, l>>] = <<>>
                  \/ PricesOf'[<<None, l>>] = <<>> /\ PricesOf'[<<s, l>>] = PricesOf[<<None, l>>]
               /\ \/ BunksOf'[<<None, l>>] = BunksOf[<<None, l>>] /\ BunksOf'[<<s, l>>] = <<>>
                  \/ BunksOf'[<<None, l>>] = <<>> /\ BunksOf'[<<s, l>>] = BunksOf[<<None, l>>]
    <3>1. r.bigtab[l].prices = <<>> /\ r.bigtab[l].bunks = <<>>
      BY <1>3 DEF NoLines, NoEntry
    <3>2. /\ \/ byfs'[l].prices = byfs[l].prices /\ T[l].prices = <<>>
             \/ byfs'[l].prices = <<>> /\ T[l].prices = byfs[l].prices
          /\ \/ byfs'[l].bunks = byfs[l].bunks /\ T[l].bunks = <<>>
             \/ byfs'[l].bunks = <<>> /\ T[l].bunks = byfs[l].bunks
      BY <1>2, <1>4, <1>5, TakeEffect
    <3>3. /\ PricesOf[<<s, l>>] = r.bigtab[l].prices /\ BunksOf[<<s, l>>] = r.bigtab[l].bunks
          /\ PricesOf'[<<s, l>>] = T[l].prices /\ BunksOf'[<<s, l>>] = T[l].bunks
      BY <1>7, <2>2, <2>3, <2>4
    <3>4. QED
      BY <2>2, <2>3, <3>1, <3>2, <3>3
  <2>6. ASSUME NEW h \in Holders, NEW l \in Fids, h \notin {s, None}
        PROVE  PricesOf'[<<h, l>>] = PricesOf[<<h, l>>] /\ BunksOf'[<<h, l>>] = BunksOf[<<h, l>>]
    BY <1>7, <2>2, <2>3, <2>6
  <2>7. DOMAIN <<>> = {}
    OBVIOUS
  <2>8. Shifts(PricesOf, PricesOf', s)
    BY <2>5, <2>6, <2>7 DEF Shifts
  <2>9. Shifts(BunksOf, BunksOf', s)
    BY <2>5, <2>6, <2>7 DEF Shifts
  <2>10. /\ \A y : /\ Once(PricesOf, y) => Once(PricesOf', y)
                   /\ Nowhere(PricesOf, y) => Nowhere(PricesOf', y)
         /\ \A y : /\ Once(BunksOf, y) => Once(BunksOf', y)
                   /\ Nowhere(BunksOf, y) => Nowhere(BunksOf', y)
    BY <2>8, <2>9, MovedPlaces
  <2>11. QED
    BY <2>10
<1>10. RecordsPlaced'
  <2>1. ASSUME NEW q \in Searches
        PROVE  /\ search'[q].rc = search[q].rc
               /\ \/ search'[q].step = search[q].step
                  \/ /\ search'[q].step # "hget"
                     /\ search[q].step \notin {"hget", "error"} \/ search'[q].step = "error"
    BY <1>1, <1>6, <1>7
  <2>2. QED
    BY <1>2, <1>9, <2>1, KeptPlaces
<1>11. ~RunningAs(search'[s])
  BY <1>6, <1>7 DEF RunningAs
<1>12. Acts(s)
  <2>1. ASSUME NEW l \in Fids
        PROVE  /\ l \notin ReachOf(fids, r) => byfs'[l] = byfs[l]
               /\ byfs'[l] # NoEntry => byfs[l] # NoEntry
               /\ l \in L => byfs'[l] = NoEntry
    <3>1. /\ byfs'[l] = Rest(l, L, B)
          /\ Rest(l, L, B) # NoEntry => byfs[l] # NoEntry
          /\ l \notin L \cup B => Rest(l, L, B) = byfs[l]
          /\ l \in L => Rest(l, L, B) = NoEntry
      BY <1>2, <1>4, <1>5, TakeEffect
    <3>2. L \cup B \subseteq ReachOf(fids, r)
      BY DEF ReachOf
    <3>3. QED
      BY <3>1, <3>2
  <2>2. search'[s].step = "done" => \A l \in ToSet(r.doc) : byfs'[l] = NoEntry
    BY <1>3, <1>4, <1>6, <1>7, <2>1
  <2>3. fids[r.session] \subseteq ReachOf(fids, r)
    BY DEF ReachOf
  <2>4. QED
    BY <1>1, <1>7, <1>11, <2>1, <2>2, <2>3 DEF Acts
<1>13. OrderOf(search'[s])
  BY <1>2, <1>6, <1>7, <1>11 DEF OrderOf
<1>14. TakenBy(s, search'[s])
  <2> SUFFICES ASSUME r.clean
               PROVE  t = "done" /\ T = LocalAnswer(s, r.doc)
    BY <1>6, <1>7 DEF TakenBy
  <2> DEFINE D == Dfid(s, r.doc)[Len(r.doc)]
  <2>1. F = ToSet(r.doc) /\ \A l \in ToSet(r.doc) : byfs[l] = D[l]
    <3>1. r.rc - 1 = Len(r.doc)
      BY <1>2, <1>3
    <3>2. CollectedOf(s, r) = D
      BY <1>1, <3>1 DEF CollectedOf
    <3>3. QED
      BY <1>2, <1>3, <3>2 DEF CleanOf
  <2>2. /\ D \in [Fids -> Entries]
        /\ \A l \in Fids : IF \E k \in 1..Len(r.doc) : r.doc[k] = l
                            THEN D[l].bunks # <<>> /\ D[l].prices # <<>> /\ D[l].seg # None
                            ELSE D[l] = NoEntry
    <3>1. Len(r.doc) \in 0..Len(r.doc)
      BY <1>2
    <3>2. QED
      BY <1>2, <3>1, DfidEntries
  <2>3. \A l \in Fids : l \in F <=> \E k \in 1..Len(r.doc) : r.doc[k] = l
    BY <1>2, <2>1
  <2> HIDE DEF D
  <2>4. \A l \in F : Whole(l)
    <3> SUFFICES ASSUME NEW l \in F
                 PROVE  Whole(l)
      OBVIOUS
    <3>1. l \in Fids /\ byfs[l] = D[l]
      BY <1>3, <2>1
    <3>2. D[l].bunks # <<>> /\ D[l].prices # <<>> /\ D[l].seg # None
      BY <2>2, <2>3, <3>1
    <3>3. QED
      BY <3>1, <3>2 DEF Whole
  <2>5. L = F /\ B = {}
    BY <1>4, <2>4
  <2>6. ASSUME NEW l \in Fids
        PROVE  T[l] = D[l]
    <3>1. T[l] = Read(l, L, B) /\ (l \in L => T[l] = byfs[l]) /\ (l \notin L => T[l] = NoEntry)
      BY <1>2, <1>4, <1>5, <2>5, TakeEffect
    <3>2. QED
      BY <2>1, <2>2, <2>3, <2>5, <3>1
  <2>7. T = D
    BY <1>5, <2>2, <2>6
  <2>8. QED
    BY <1>6, <2>5, <2>7 DEF LocalAnswer, D
<1>15. SetOf(fids', search'[s]) /\ CleanOf(byfs', fids', s, search'[s])
  BY <1>11 DEF SetOf, CleanOf
<1>16. QED
  BY <1>3, <1>8, <1>10, <1>12, <1>13, <1>14, <1>15, ActsKeeps

\* A search that begins finds its lines as they are, and those it meets are clean no more.
LEMMA BeginStep ==
  ASSUME SrvIInv, NEW s \in Searches, NEW doc \in Docs, NEW x \in Sessions, Begin(s, doc, x)
  PROVE  SrvIInv'
<1> DEFINE t == NextStep(doc, 1)
           c == /\ fids[x] = {}
                /\ \A l \in ToSet(doc) : byfs[l] = NoEntry
                /\ \A p \in Searches \ {s} : ~Meets(doc, x, p)
           e == [NoSearch EXCEPT !.step = t, !.doc = doc, !.session = x, !.clean = c]
           d(q) == search[q].clean /\ ~Meets(doc, x, q)
           g(q) == [search[q] EXCEPT !.clean = d(q)]
<1>1. /\ search[s].step = "idle" /\ byfs' = byfs /\ fids' = fids
      /\ search' = [q \in Searches |-> IF q = s THEN e ELSE g(q)]
  BY DEF Begin
<1>2. /\ SrvTypeOK /\ SrvInvAt(byfs, fids, search) /\ RecordsPlaced
      /\ search \in [Searches -> SearchState]
      /\ fids \in [Sessions -> SUBSET Fids] /\ byfs \in [Fids -> Entries]
      /\ doc \in Seq(Fids) /\ Len(doc) \in Nat
  BY SrvInvMeans, DocsAreOfLines DEF SrvTypeOK
<1>3. /\ t \in {"sadd", "smembers"}
      /\ t = (IF 1 <= Len(doc) THEN "sadd" ELSE "smembers")
      /\ c \in BOOLEAN /\ \A q \in Searches : d(q) \in BOOLEAN
  BY DEF NextStep
<1>4. NoLines \in [Fids -> Entries] /\ \A l \in Fids : NoLines[l] = NoEntry
  <2>1. NoEntry \in Entries
    BY DEF Entries, NoEntry
  <2>2. QED
    BY <2>1 DEF NoLines
<1>5. /\ search'[s] = e
      /\ \A q \in Searches : q # s => search'[q] = g(q)
  <2> HIDE DEF e, g
  <2>1. QED
    BY <1>1
<1> HIDE DEF t, c, d
<1>6. /\ e \in SearchState /\ e.step = t /\ e.doc = doc /\ e.rc = 1 /\ e.session = x
      /\ e.bigtab = NoLines /\ e.clean = c
  <2>1. NoSearch \in SearchState /\ NoSearch.rc = 1 /\ NoSearch.bigtab = NoLines
    BY <1>4 DEF NoSearch, SearchState
  <2>2. QED
    BY <1>3, <2>1 DEF SearchState
<1>7. \A q \in Searches :
        /\ g(q) \in SearchState /\ g(q).step = search[q].step /\ g(q).doc = search[q].doc
        /\ g(q).rc = search[q].rc /\ g(q).session = search[q].session
        /\ g(q).bigtab = search[q].bigtab /\ g(q).failed = search[q].failed
        /\ g(q).clean = d(q)
  BY <1>2, <1>3 DEF SearchState
<1> HIDE DEF e, g
<1>8. search' \in [Searches -> SearchState]
  BY <1>1, <1>6, <1>7
<1>9. SrvTypeOK'
  BY <1>1, <1>2, <1>8 DEF SrvTypeOK
<1>10. search[s].doc = <<>> /\ search[s].rc = 1 /\ search[s].bigtab = NoLines
  BY <1>1, <1>2 DEF SrvInvAt, OrderOf
<1>11. RecordsPlaced'
  <2>1. \A q \in Searches : search'[q].bigtab = search[q].bigtab
    BY <1>5, <1>6, <1>7, <1>10
  <2>2. PricesOf' = PricesOf /\ BunksOf' = BunksOf
    BY <1>1, <2>1, SameTables
  <2>3. ASSUME NEW q \in Searches
        PROVE  /\ search'[q].rc = search[q].rc
               /\ \/ search'[q].step = search[q].step
                  \/ /\ search'[q].step # "hget"
                     /\ search[q].step \notin {"hget", "error"} \/ search'[q].step = "error"
    <3>1. CASE q = s
      BY <1>1, <1>3, <1>5, <1>6, <1>10, <3>1
    <3>2. CASE q # s
      BY <1>5, <1>7, <3>2
    <3>3. QED
      BY <3>1, <3>2
  <2>4. QED
    BY <1>2, <2>2, <2>3, KeptPlaces
<1>12. ASSUME NEW q \in Searches, q # s
       PROVE  /\ OrderOf(g(q)) /\ SetOf(fids, g(q))
              /\ CleanOf(byfs, fids, q, g(q)) /\ TakenBy(q, g(q))
  <2>1. /\ OrderOf(search[q]) /\ SetOf(fids, search[q])
        /\ CleanOf(byfs, fids, q, search[q]) /\ TakenBy(q, search[q])
    BY <1>2 DEF SrvInvAt
  <2>2. g(q).clean => search[q].clean
    BY <1>7 DEF d
  <2>3. SaddedOf(g(q)) = SaddedOf(search[q]) /\ CollectedOf(q, g(q)) = CollectedOf(q, search[q])
    BY <1>7 DEF SaddedOf, CollectedOf
  <2>4. RunningAs(g(q)) <=> RunningAs(search[q])
    BY <1>7 DEF RunningAs
  <2>5. OrderOf(g(q))
    BY <1>7, <2>1, <2>4 DEF OrderOf
  <2>6. SetOf(fids, g(q))
    BY <1>7, <2>1, <2>3, <2>4 DEF SetOf
  <2>7. CleanOf(byfs, fids, q, g(q))
    BY <1>7, <2>1, <2>2, <2>3, <2>4 DEF CleanOf
  <2>8. TakenBy(q, g(q))
    BY <1>7, <2>1, <2>2 DEF TakenBy
  <2>9. QED
    BY <2>5, <2>6, <2>7, <2>8
<1>13. OrderOf(e) /\ SetOf(fids, e) /\ CleanOf(byfs, fids, s, e) /\ TakenBy(s, e)
  <2>1. OrderOf(e)
    BY <1>2, <1>3, <1>6 DEF OrderOf
  <2>2. SaddedOf(e) = {}
    BY <1>3, <1>6 DEF SaddedOf
  <2>3. CollectedOf(s, e) = NoLines
    <3>1. e.rc - 1 = 0 /\ e.step # "hget"
      BY <1>3, <1>6
    <3>2. QED
      BY <1>2, <1>6, <3>1, DfidSteps DEF CollectedOf
  <2>4. ToSet(doc) \subseteq Fids
    BY <1>2 DEF ToSet
  <2>5. SetOf(fids, e)
    BY <1>6, <2>2 DEF SetOf
  <2>6. CleanOf(byfs, fids, s, e)
    BY <1>4, <1>6, <2>2, <2>3, <2>4 DEF CleanOf, c
  <2>7. TakenBy(s, e)
    BY <1>3, <1>6 DEF TakenBy
  <2>8. QED
    BY <2>1, <2>5, <2>6, <2>7
<1>14. ASSUME NEW p \in Searches
       PROVE  AloneIn(fids, search', p)
  <2> SUFFICES ASSUME search'[p].clean, RunningAs(search'[p]), NEW q \in Searches, q # p,
                      RunningAs(search'[q])
               PROVE  /\ search'[q].session # search'[p].session
                      /\ ReachOf(fids, search'[p]) \cap ReachOf(fids, search'[q]) = {}
    BY DEF AloneIn, MeetAs
  <2>1. \A z \in Searches : z # s =>
          /\ RunningAs(g(z)) <=> Running(z)
          /\ ReachOf(fids, g(z)) = Reach(search[z].doc, search[z].session)
    BY <1>7 DEF RunningAs, Running, ReachOf, Reach
  <2>2. ReachOf(fids, e) = Reach(doc, x)
    BY <1>6 DEF ReachOf, Reach
  <2>3. CASE p = s
    <3>1. ~Meets(doc, x, q) /\ Running(q) /\ search'[q] = g(q)
      BY <1>5, <1>6, <2>1, <2>3 DEF c
    <3>2. search[q].session # x /\ Reach(doc, x) \cap Reach(search[q].doc, search[q].session) = {}
      BY <3>1 DEF Meets
    <3>3. QED
      BY <1>5, <1>6, <1>7, <2>1, <2>2, <2>3, <3>1, <3>2
  <2>4. CASE q = s
    <3>1. ~Meets(doc, x, p) /\ Running(p) /\ search'[p] = g(p)
      BY <1>5, <1>7, <2>1, <2>4 DEF d
    <3>2. search[p].session # x /\ Reach(doc, x) \cap Reach(search[p].doc, search[p].session) = {}
      BY <3>1 DEF Meets
    <3>3. QED
      BY <1>5, <1>6, <1>7, <2>1, <2>2, <2>4, <3>1, <3>2
  <2>5. CASE p # s /\ q # s
    <3>1. /\ search'[p] = g(p) /\ search'[q] = g(q) /\ search[p].clean
          /\ RunningAs(search[p]) /\ RunningAs(search[q])
      BY <1>5, <1>7, <2>5 DEF d, RunningAs
    <3>2. /\ search[q].session # search[p].session
          /\ ReachOf(fids, search[p]) \cap ReachOf(fids, search[q]) = {}
      BY <1>2, <3>1 DEF SrvInvAt, AloneIn, MeetAs
    <3>3. ReachOf(fids, g(p)) = ReachOf(fids, search[p]) /\ ReachOf(fids, g(q)) = ReachOf(fids, search[q])
      BY <1>7 DEF ReachOf
    <3>4. QED
      BY <1>7, <3>1, <3>2, <3>3
  <2>6. QED
    BY <2>3, <2>4, <2>5
<1>15. LeftIn(byfs, search')
  <2> SUFFICES ASSUME NEW l \in Fids, byfs[l] # NoEntry
               PROVE  \E q \in Searches : l \in ToSet(search'[q].doc) /\ search'[q].step # "done"
    BY DEF LeftIn
  <2>1. PICK q \in Searches : l \in ToSet(search[q].doc) /\ search[q].step # "done"
    BY <1>2 DEF SrvInvAt, LeftIn
  <2>2. q # s
    BY <1>10, <2>1 DEF ToSet
  <2>3. QED
    BY <1>5, <1>7, <2>1, <2>2
<1>16. SrvInvAt(byfs', fids', search')
  BY <1>1, <1>5, <1>12, <1>13, <1>14, <1>15 DEF SrvInvAt
<1>17. QED
  BY <1>9, <1>11, <1>16, SrvInvNext

LEMMA ExpiresStep ==
  ASSUME SrvIInv, NEW x \in Sessions, Expires(x)
  PROVE  SrvIInv'
<1>1. /\ \A s \in Searches : RunningAs(search[s]) => search[s].session # x
      /\ fids' = [fids EXCEPT ![x] = {}] /\ byfs' = byfs /\ search' = search
  BY DEF Expires, Running, RunningAs
<1>2. /\ SrvTypeOK /\ SrvInvAt(byfs, fids, search) /\ RecordsPlaced
      /\ fids \in [Sessions -> SUBSET Fids]
  BY SrvInvMeans DEF SrvTypeOK
<1>3. fids' \in [Sessions -> SUBSET Fids] /\ \A y \in Sessions : y # x => fids'[y] = fids[y]
  BY <1>1, <1>2
<1>4. SrvTypeOK'
  BY <1>1, <1>2, <1>3 DEF SrvTypeOK
<1>5. RecordsPlaced'
  <2>1. PricesOf' = PricesOf /\ BunksOf' = BunksOf
    BY <1>1, SameTables
  <2>2. QED
    BY <1>1, <1>2, <2>1, KeptPlaces
<1>6. \A s \in Searches : RunningAs(search[s]) =>
        search[s].session \in Sessions /\ fids'[search[s].session] = fids[search[s].session]
  BY <1>1, <1>2, <1>3 DEF SrvInvAt, SetOf
<1>7. ASSUME NEW s \in Searches
      PROVE  /\ OrderOf(search[s]) /\ TakenBy(s, search[s])
             /\ SetOf(fids', search[s]) /\ CleanOf(byfs, fids', s, search[s])
  <2>1. /\ OrderOf(search[s]) /\ TakenBy(s, search[s])
        /\ SetOf(fids, search[s]) /\ CleanOf(byfs, fids, s, search[s])
    BY <1>2 DEF SrvInvAt
  <2>2. QED
    BY <1>6, <2>1 DEF SetOf, CleanOf
<1>8. ASSUME NEW s \in Searches
      PROVE  AloneIn(fids', search, s)
  <2> SUFFICES ASSUME search[s].clean, RunningAs(search[s]), NEW q \in Searches, q # s,
                      RunningAs(search[q])
               PROVE  /\ search[q].session # search[s].session
                      /\ ReachOf(fids', search[s]) \cap ReachOf(fids', search[q]) = {}
    BY DEF AloneIn, MeetAs
  <2>1. /\ search[q].session # search[s].session
        /\ ReachOf(fids, search[s]) \cap ReachOf(fids, search[q]) = {}
    BY <1>2 DEF SrvInvAt, AloneIn, MeetAs
  <2>2. QED
    BY <1>6, <2>1 DEF ReachOf
<1>9. SrvInvAt(byfs', fids', search')
  BY <1>1, <1>2, <1>7, <1>8 DEF SrvInvAt
<1>10. QED
  BY <1>4, <1>5, <1>9, SrvInvNext

LEMMA SrvIInvInit == SrvInit => SrvIInv
<1> SUFFICES ASSUME SrvInit
             PROVE  SrvIInv
  OBVIOUS
<1>1. /\ byfs = NoLines /\ fids = [x \in Sessions |-> {}]
      /\ \A s \in Searches : search[s] = NoSearch
      /\ search = [s \in Searches |-> NoSearch]
  BY DEF SrvInit
<1>2. NoEntry \in Entries /\ NoLines \in [Fids -> Entries]
      /\ \A l \in Fids : NoLines[l] = NoEntry
  <2>1. NoEntry \in Entries
    BY DEF Entries, NoEntry
  <2>2. QED
    BY <2>1 DEF NoLines
<1>3. SrvTypeOK
  <2>1. NoSearch \in SearchState
    BY <1>2 DEF NoSearch, SearchState
  <2>2. QED
    BY <1>1, <1>2, <2>1 DEF SrvTypeOK
<1>4. /\ NoSearch.step = "idle" /\ NoSearch.doc = <<>> /\ NoSearch.rc = 1
      /\ NoSearch.bigtab = NoLines
  BY DEF NoSearch
<1>5. SrvInvAt(byfs, fids, search)
  <2>1. ASSUME NEW s \in Searches
        PROVE  /\ OrderOf(search[s]) /\ SetOf(fids, search[s])
               /\ CleanOf(byfs, fids, s, search[s])
               /\ AloneIn(fids, search, s) /\ TakenBy(s, search[s])
    BY <1>1, <1>4 DEF OrderOf, SetOf, CleanOf, AloneIn, TakenBy, RunningAs
  <2>2. LeftIn(byfs, search)
    BY <1>1, <1>2 DEF LeftIn
  <2>3. QED
    BY <2>1, <2>2 DEF SrvInvAt
<1>6. \A y : Nowhere(PricesOf, y) /\ Nowhere(BunksOf, y)
  <2>1. \A h \in Holders, l \in Fids : TableIn(byfs, search, h)[l] = NoEntry
    BY <1>1, <1>2, <1>4 DEF TableIn, Holders
  <2>2. \A p \in Shelves : PricesOf[p] = <<>> /\ BunksOf[p] = <<>>
    BY <2>1, ShelvesNow DEF PricesIn, BunksIn, Shelves, NoEntry
  <2>3. DOMAIN <<>> = {}
    OBVIOUS
  <2>4. QED
    BY <2>2, <2>3, NowhereMeans
<1>7. RecordsPlaced
  <2>1. ASSUME NEW s \in Searches, NEW n \in Nat \ {0}
        PROVE  PlacedOf(PricesOf, BunksOf, s, search[s], n)
    <3>1. search[s].rc = 1 /\ search[s].step = "idle" /\ ~(n < 1)
      BY <1>1, <1>4
    <3>2. QED
      BY <1>6, <3>1 DEF PlacedOf
  <2>2. QED
    BY <2>1, RecordsPlacedMeans
<1>8. QED
  BY <1>3, <1>5, <1>7, SrvInvMeans

LEMMA SrvIInvStep == SrvIInv /\ [SrvNext]_srvVars => SrvIInv'
<1> SUFFICES ASSUME SrvIInv, [SrvNext]_srvVars
             PROVE  SrvIInv'
  OBVIOUS
<1>1. ASSUME NEW s \in Searches, NEW doc \in Docs, NEW x \in Sessions, Begin(s, doc, x)
      PROVE  SrvIInv'
  BY <1>1, BeginStep
<1>2. ASSUME NEW s \in Searches, Sadd(s)
      PROVE  SrvIInv'
  BY <1>2, SaddStep
<1>3. ASSUME NEW s \in Searches, Expire(s)
      PROVE  SrvIInv'
  BY <1>3, ExpireStep
<1>4. ASSUME NEW s \in Searches, Hget(s)
      PROVE  SrvIInv'
  BY <1>4, HgetStep
<1>5. ASSUME NEW s \in Searches, Smembers(s)
      PROVE  SrvIInv'
  BY <1>5, SmembersStep
<1>6. ASSUME NEW s \in Searches, Fails(s)
      PROVE  SrvIInv'
  BY <1>6, FailsStep
<1>7. ASSUME NEW x \in Sessions, Expires(x)
      PROVE  SrvIInv'
  BY <1>7, ExpiresStep
<1>8. CASE UNCHANGED srvVars
  <2>1. byfs' = byfs /\ fids' = fids /\ search' = search
    BY <1>8 DEF srvVars
  <2>2. SrvTypeOK /\ SrvInvAt(byfs, fids, search) /\ RecordsPlaced
    BY SrvInvMeans
  <2>3. SrvTypeOK'
    BY <2>1, <2>2 DEF SrvTypeOK
  <2>4. RecordsPlaced'
    <3>1. PricesOf' = PricesOf /\ BunksOf' = BunksOf
      BY <2>1, SameTables
    <3>2. QED
      BY <2>1, <2>2, <3>1, KeptPlaces
  <2>5. SrvInvAt(byfs', fids', search')
    BY <2>1, <2>2
  <2>6. QED
    BY <2>3, <2>4, <2>5, SrvInvNext
<1>9. QED
  BY <1>1, <1>2, <1>3, <1>4, <1>5, <1>6, <1>7, <1>8 DEF SrvNext

\* The invariant, for any number of searches, lines, documents and sessions, with and
\* without failing commands.
THEOREM SrvInductive == SrvSpec => []SrvIInv
  BY SrvIInvInit, SrvIInvStep, PTL DEF SrvSpec

\* Type correctness.
THEOREM SrvTypeCorrect == SrvSpec => []SrvTypeOK
<1>1. SrvIInv => SrvTypeOK
  BY DEF SrvIInv
<1>2. QED
  BY <1>1, SrvInductive, PTL

\* A search that was alone answers what the scripts with local tables answer
\* (pricesrv.lua:67-226 against prido.lua:69-235 and ctripdom.lua:55-223).
THEOREM AloneIsLocal == SrvSpec => []AloneAgrees
<1>1. SrvIInv => AloneAgrees
  BY DEF SrvIInv
<1>2. QED
  BY <1>1, SrvInductive, PTL

\* No fare is answered twice, and none is lost but by the error of the search that
\* took it (pricesrv.lua:134-226).
THEOREM RecordsKept == SrvSpec => []EachRecordOnce
<1>1. ASSUME SrvIInv
      PROVE  EachRecordOnce
  <2> SUFFICES ASSUME NEW s \in Searches, NEW n \in 1..Len(search[s].doc)
               PROVE  /\ Cardinality(Places(PricesOf, <<s, n>>)) = IF n < search[s].rc THEN 1 ELSE 0
                      /\ Cardinality(Places(BunksOf, <<s, n>>))
                           \in IF n < search[s].rc THEN {1} ELSE 0..1
    BY DEF EachRecordOnce
  <2>1. \A lists, x : /\ Once(lists, x) => Cardinality(Places(lists, x)) = 1
                      /\ Nowhere(lists, x) => Cardinality(Places(lists, x)) = 0
    BY FS_Singleton, FS_EmptySet DEF Once, Nowhere
  <2>2. n \in Nat \ {0} /\ search[s].rc \in Nat
    BY <1>1, SearchTyped
  <2>3. PlacedOf(PricesOf, BunksOf, s, search[s], n)
    BY <1>1, <2>2, SearchTyped, RecordsPlacedMeans
  <2> DEFINE x == <<s, n>>
  <2>4. /\ n < search[s].rc => Once(PricesOf, x) /\ Once(BunksOf, x)
        /\ ~(n < search[s].rc) => /\ Nowhere(PricesOf, x)
                                  /\ Once(BunksOf, x) \/ Nowhere(BunksOf, x)
    BY <2>2, <2>3 DEF PlacedOf
  <2> HIDE DEF x
  <2>5. /\ n < search[s].rc => /\ Cardinality(Places(PricesOf, x)) = 1
                               /\ Cardinality(Places(BunksOf, x)) = 1
        /\ ~(n < search[s].rc) => /\ Cardinality(Places(PricesOf, x)) = 0
                                  /\ Cardinality(Places(BunksOf, x)) \in {0, 1}
    BY <2>1, <2>4
  <2>6. 0..1 = {0, 1}
    OBVIOUS
  <2>7. QED
    BY <2>5, <2>6 DEF x
<1>2. SrvIInv => EachRecordOnce
  BY <1>1
<1>3. QED
  BY <1>2, SrvInductive, PTL

\* Only a search that ended in an error leaves something behind (pricesrv.lua:201-219).
THEOREM OnlyErrorsLeave == SrvSpec => []LeftByErrors
<1>1. SrvIInv => LeftByErrors
  BY DEF SrvIInv
<1>2. QED
  BY <1>1, SrvInductive, PTL
-----------------------------------------------------------------------------
(* OtaPrices. *)

\* Appending the fare of a line that is not listed keeps one fare per line.
LEMMA AppendUnique ==
  ASSUME NEW s \in Seq(Fares), NEW f \in Fares,
         UniqueIn(s), ~ListedIn(f.line, s)
  PROVE  /\ Append(s, f) \in Seq(Fares)
         /\ UniqueIn(Append(s, f))
<1> DEFINE t == Append(s, f)
<1>1. /\ t \in Seq(Fares)
      /\ DOMAIN t = 1..(Len(s) + 1)
      /\ DOMAIN s = 1..Len(s)
      /\ \A k \in DOMAIN s : t[k] = s[k]
      /\ t[Len(s) + 1] = f
  OBVIOUS
<1>2. ASSUME NEW m \in DOMAIN t, NEW n \in DOMAIN t, t[m].line = t[n].line
      PROVE  m = n
  <2>1. CASE m \in DOMAIN s /\ n \in DOMAIN s
    BY <1>1, <1>2, <2>1 DEF UniqueIn
  <2>2. CASE m \in DOMAIN s /\ n = Len(s) + 1
    BY <1>1, <1>2, <2>2 DEF ListedIn
  <2>3. CASE m = Len(s) + 1 /\ n \in DOMAIN s
    BY <1>1, <1>2, <2>3 DEF ListedIn
  <2>4. CASE m = Len(s) + 1 /\ n = Len(s) + 1
    BY <2>4
  <2>5. Len(s) \in Nat
    OBVIOUS
  <2>6. QED
    BY <1>1, <2>1, <2>2, <2>3, <2>4, <2>5
<1>3. QED
  BY <1>1, <1>2 DEF UniqueIn

\* The empty list and no post under way satisfy the invariant.
LEMMA OtaIInvInit == OtaInit => OtaIInv
  BY DEF OtaInit, OtaIInv, OtaTypeOK, OneFarePerLine, UniqueIn

\* A post that ends leaves the others as they were.
LEMMA EndsKeeps ==
  ASSUME OtaTypeOK, NEW h \in Posts, Ends(h), ota' \in Seq(Fares)
  PROVE  /\ OtaTypeOK'
         /\ step'[h] = "idle"
         /\ \A g \in Posts : g # h => /\ step'[g] = step[g]
                                         /\ fare'[g] = fare[g]
                                         /\ tmppri'[g] = tmppri[g]
  BY DEF Ends, Goto, OtaTypeOK

\* Every step keeps the invariant.
LEMMA OtaIInvStep == OtaIInv /\ [OtaNext]_otaVars => OtaIInv'
<1> SUFFICES ASSUME OtaIInv, [OtaNext]_otaVars
             PROVE  OtaIInv'
  OBVIOUS
<1> USE DEF OtaIInv
<1>1. CASE UNCHANGED otaVars
  BY <1>1 DEF otaVars, OtaTypeOK, OneFarePerLine, UniqueIn, ListedIn
<1>2. ASSUME NEW h \in Posts, NEW f \in Fares, OtaBegin(h, f)
      PROVE  OtaIInv'
  <2>1. OtaTypeOK'
    BY <1>2 DEF OtaBegin, Goto, OtaTypeOK
  <2>2. ota' = ota /\ tmppri' = tmppri /\ \A g \in Posts :
          step'[g] = "hset" => step[g] = "hset" /\ fare'[g] = fare[g]
    BY <1>2 DEF OtaBegin, Goto, OtaTypeOK
  <2>3. QED
    BY <2>1, <2>2 DEF OneFarePerLine, UniqueIn, ListedIn
<1>3. ASSUME NEW h \in Posts, ReadList(h)
      PROVE  OtaIInv'
  <2>1. OtaTypeOK'
    BY <1>3 DEF ReadList, Goto, OtaTypeOK
  <2>2. /\ ota' = ota /\ fare' = fare
        /\ tmppri'[h] = ota /\ ~ListedIn(fare[h].line, ota)
        /\ \A g \in Posts : g # h => step'[g] = step[g] /\ tmppri'[g] = tmppri[g]
    BY <1>3 DEF ReadList, Goto, OtaTypeOK
  <2>3. ASSUME NEW g \in Posts, step'[g] = "hset"
        PROVE  UniqueIn(tmppri'[g]) /\ ~ListedIn(fare'[g].line, tmppri'[g])
    <3>1. CASE g = h
      BY <2>2, <3>1 DEF OneFarePerLine
    <3>2. CASE g # h
      BY <2>2, <2>3, <3>2
    <3>3. QED
      BY <3>1, <3>2
  <2>4. QED
    BY <2>1, <2>2, <2>3 DEF OneFarePerLine, UniqueIn, ListedIn
<1>4. ASSUME NEW h \in Posts, Refuse(h) \/ PostFails(h)
      PROVE  OtaIInv'
  <2>1. ota' = ota /\ Ends(h)
    BY <1>4 DEF Refuse, PostFails
  <2>2. OtaTypeOK' /\ step'[h] = "idle"
        /\ \A g \in Posts : g # h => /\ step'[g] = step[g]
                                        /\ fare'[g] = fare[g]
                                        /\ tmppri'[g] = tmppri[g]
    BY <2>1, EndsKeeps DEF OtaTypeOK
  <2>3. QED
    BY <2>1, <2>2 DEF OneFarePerLine, UniqueIn, ListedIn
<1>5. ASSUME NEW h \in Posts, WriteList(h)
      PROVE  OtaIInv'
  <2>1. /\ tmppri[h] \in Seq(Fares) /\ fare[h] \in Fares
        /\ UniqueIn(tmppri[h]) /\ ~ListedIn(fare[h].line, tmppri[h])
    BY <1>5 DEF WriteList, OtaTypeOK
  <2>2. ota' \in Seq(Fares) /\ OneFarePerLine'
    BY <1>5, <2>1, AppendUnique DEF WriteList, OneFarePerLine, UniqueIn
  <2>3. OtaTypeOK' /\ step'[h] = "idle"
        /\ \A g \in Posts : g # h => /\ step'[g] = step[g]
                                        /\ fare'[g] = fare[g]
                                        /\ tmppri'[g] = tmppri[g]
    BY <1>5, <2>2, EndsKeeps DEF WriteList
  <2>4. QED
    BY <2>2, <2>3 DEF UniqueIn, ListedIn
<1>6. QED
  BY <1>1, <1>2, <1>3, <1>4, <1>5 DEF OtaNext

\* The strengthened invariant holds in every reachable state: every list about to
\* be written has one fare per line and none of the line to be appended.
THEOREM OtaInductive == OtaSpec => []OtaIInv
  BY OtaIInvInit, OtaIInvStep, PTL DEF OtaSpec

\* Types of the stored list and of the posts.
THEOREM OtaTypeCorrect == OtaSpec => []OtaTypeOK
<1>1. OtaIInv => OtaTypeOK
  BY DEF OtaIInv
<1>2. QED
  BY <1>1, OtaInductive, PTL

\* A list never has two fares of one flight line (ow/priceupdate.lua:74, 96).
THEOREM OneFare == OtaSpec => []OneFarePerLine
<1>1. OtaIInv => OneFarePerLine
  BY DEF OtaIInv
<1>2. QED
  BY <1>1, OtaInductive, PTL

\* What one step does to a settled fare: nothing.
LEMMA SettledStep ==
  ASSUME OtaIInv, [OtaNext]_otaVars
  PROVE  \A k \in Settled : k \in Settled' /\ ota'[k] = ota[k]
<1> SUFFICES ASSUME NEW k \in Settled
             PROVE  k \in Settled' /\ ota'[k] = ota[k]
  OBVIOUS
<1>0. OtaTypeOK /\ k \in DOMAIN ota
      /\ \A g \in Posts : step[g] = "hset" => k \in DOMAIN tmppri[g] /\ tmppri[g][k] = ota[k]
  BY DEF OtaIInv, Settled
<1>1. CASE UNCHANGED otaVars
  BY <1>0, <1>1 DEF otaVars, Settled
<1>2. ASSUME NEW h \in Posts, NEW f \in Fares, OtaBegin(h, f)
      PROVE  k \in Settled' /\ ota'[k] = ota[k]
  BY <1>0, <1>2 DEF OtaBegin, Goto, OtaTypeOK, Settled
<1>3. ASSUME NEW h \in Posts, ReadList(h)
      PROVE  k \in Settled' /\ ota'[k] = ota[k]
  <2>1. ASSUME NEW g \in Posts, step'[g] = "hset"
        PROVE  k \in DOMAIN tmppri'[g] /\ tmppri'[g][k] = ota[k]
    BY <1>0, <1>3, <2>1 DEF ReadList, Goto, OtaTypeOK
  <2>2. QED
    BY <1>0, <1>3, <2>1 DEF ReadList, Settled
<1>4. ASSUME NEW h \in Posts, Refuse(h) \/ PostFails(h)
      PROVE  k \in Settled' /\ ota'[k] = ota[k]
  BY <1>0, <1>4 DEF Refuse, PostFails, Ends, Goto, OtaTypeOK, Settled
<1>5. ASSUME NEW h \in Posts, WriteList(h)
      PROVE  k \in Settled' /\ ota'[k] = ota[k]
  <2>1. /\ tmppri[h] \in Seq(Fares) /\ fare[h] \in Fares
        /\ k \in DOMAIN tmppri[h] /\ tmppri[h][k] = ota[k]
    BY <1>0, <1>5 DEF WriteList, OtaTypeOK
  <2>2. k \in DOMAIN ota' /\ ota'[k] = ota[k]
    BY <1>5, <2>1 DEF WriteList
  <2>3. ASSUME NEW g \in Posts, step'[g] = "hset"
        PROVE  k \in DOMAIN tmppri'[g] /\ tmppri'[g][k] = ota[k]
    BY <1>0, <1>5, <2>3 DEF WriteList, Ends, Goto, OtaTypeOK
  <2>4. QED
    BY <2>2, <2>3 DEF Settled
<1>6. QED
  BY <1>1, <1>2, <1>3, <1>4, <1>5 DEF OtaNext

\* Concurrent posts never lose a settled fare, nor change its price.
THEOREM SettledFaresStay == OtaSpec => SettledStays
<1>1. OtaIInv /\ [OtaNext]_otaVars => [\A k \in Settled : k \in Settled' /\ ota'[k] = ota[k]]_otaVars
  BY SettledStep
<1>2. QED
  BY <1>1, OtaInductive, PTL DEF OtaSpec, SettledStays
=============================================================================
