----------------------------- MODULE Stomp_proof -----------------------------
(***************************************************************************)
(* Proofs about Stomp: lists, the layout of a frame, what main writes, what *)
(* the broker has said, the place of the reader in it; then each step keeps *)
(* the invariant, and the properties and the refinement follow.             *)
(***************************************************************************)
EXTENDS Stomp, SequenceTheorems, WellFoundedInduction, TLAPS

-----------------------------------------------------------------------------
(* Lists. *)

\* Every set of naturals has a least one.
LEMMA LeastOf ==
  ASSUME NEW S \in SUBSET Nat, S # {}
  PROVE  \E m \in S : \A k \in S : m <= k
<1>1. PICK m \in S : \A k \in S : ~(<<k, m>> \in OpToRel(<, Nat))
  BY NatLessThanWellFounded, WFMin
<1>2. \A k \in S : ~(k < m)
  BY <1>1 DEF OpToRel
<1>3. QED
  BY <1>2

\* What a concatenation holds.
LEMMA Joined ==
  ASSUME NEW A, NEW s \in Seq(A), NEW t \in Seq(A)
  PROVE  /\ s \o t \in Seq(A) /\ Len(s \o t) = Len(s) + Len(t)
         /\ Len(s) \in Nat /\ Len(t) \in Nat
         /\ \A k \in 1..Len(s) : (s \o t)[k] = s[k]
         /\ \A k \in 1..Len(t) : (s \o t)[Len(s) + k] = t[k]
  OBVIOUS

\* A list of one.
LEMMA OneLetter ==
  ASSUME NEW A, NEW a \in A
  PROVE  <<a>> \in Seq(A) /\ Len(<<a>>) = 1 /\ <<a>>[1] = a
  OBVIOUS

\* A list of two.
LEMMA TwoLetters ==
  ASSUME NEW A, NEW a \in A, NEW b \in A
  PROVE  /\ <<a, b>> \in Seq(A) /\ Len(<<a, b>>) = 2
         /\ <<a, b>>[1] = a /\ <<a, b>>[2] = b
  OBVIOUS

\* Two lists of one make a list of two.
LEMMA Pair ==
  ASSUME NEW A, NEW a \in A, NEW b \in A
  PROVE  <<a>> \o <<b>> = <<a, b>>
<1> DEFINE u == <<a>>
           v == <<b>>
           w == <<a, b>>
<1>1. /\ u \in Seq(A) /\ v \in Seq(A) /\ w \in Seq(A) /\ Len(u) = 1 /\ Len(v) = 1 /\ Len(w) = 2
      /\ u[1] = a /\ v[1] = b /\ w[1] = a /\ w[2] = b
  OBVIOUS
<1> HIDE DEF u, v, w
<1>2. u \o v \in Seq(A) /\ Len(u \o v) = 2 /\ (u \o v)[1] = a /\ (u \o v)[2] = b
  <2>1. /\ u \o v \in Seq(A) /\ Len(u \o v) = Len(u) + Len(v)
        /\ Len(u) \in Nat /\ Len(v) \in Nat
        /\ \A k \in 1..Len(u) : (u \o v)[k] = u[k]
        /\ \A k \in 1..Len(v) : (u \o v)[Len(u) + k] = v[k]
    <3>1. u \in Seq(A) /\ v \in Seq(A)
      BY <1>1
    <3>2. QED
      BY <3>1, Joined
  <2>2. 1 \in 1..Len(u) /\ 1 \in 1..Len(v)
    BY <1>1
  <2>3. QED
    BY <1>1, <2>1, <2>2
<1>3. u \o v = w
  BY <1>1, <1>2, SeqEqual
<1>4. QED
  BY <1>3 DEF u, v, w

\* The recursion of FlattenSeq has a solution.
IsFlat(f, s, N) == f = [i \in 1..N |-> IF i = 1 THEN s[i] ELSE f[i - 1] \o s[i]]

\* There is a solution for every length.
LEMMA FlatExists ==
  ASSUME NEW s
  PROVE  \A N \in Nat : \E f : IsFlat(f, s, N)
<1> USE DEF IsFlat
<1> DEFINE Sol(N) == \E f : IsFlat(f, s, N)
           Bad == {N \in Nat : ~Sol(N)}
<1>1. SUFFICES ASSUME Bad # {}
               PROVE  FALSE
  OBVIOUS
<1>2. PICK m \in Bad : \A k \in Bad : m <= k
  <2> HIDE DEF Sol
  <2>1. QED
    BY <1>1, LeastOf
<1>3. CASE m = 0
  <2> DEFINE f == [i \in 1..0 |-> s[i]]
  <2>1. f = [i \in 1..0 |-> IF i = 1 THEN s[i] ELSE f[i - 1] \o s[i]]
    OBVIOUS
  <2> HIDE DEF f
  <2>2. Sol(0)
    BY <2>1
  <2> HIDE DEF Sol
  <2>3. QED
    BY <1>3, <2>2
<1>4. CASE m # 0
  <2>1. m \in Nat /\ m - 1 \in Nat /\ m - 1 < m
    BY <1>4
  <2>2. Sol(m - 1)
    <3> HIDE DEF Sol
    <3>1. QED
      BY <1>2, <2>1
  <2>3. PICK f : f = [i \in 1..m - 1 |-> IF i = 1 THEN s[i] ELSE f[i - 1] \o s[i]]
    BY <2>2
  <2> DEFINE g == [i \in 1..m |-> IF i < m THEN f[i]
                                  ELSE IF i = 1 THEN s[i] ELSE f[i - 1] \o s[i]]
  <2>4. ASSUME NEW i \in 1..m
        PROVE  g[i] = IF i = 1 THEN s[i] ELSE g[i - 1] \o s[i]
    <3>1. CASE i = 1
      BY <2>1, <2>3, <3>1
    <3>2. CASE i # 1 /\ i < m
      <4>1. i \in 1..m - 1 /\ i - 1 \in 1..m /\ i - 1 < m
        BY <2>1, <3>2
      <4>2. g[i] = f[i] /\ g[i - 1] = f[i - 1]
        BY <3>2, <4>1
      <4> HIDE DEF g
      <4>3. QED
        BY <2>3, <3>2, <4>1, <4>2
    <3>3. CASE i # 1 /\ i = m
      <4>1. i - 1 \in 1..m /\ i - 1 < m /\ ~(i < m)
        BY <2>1, <3>3
      <4>2. g[i - 1] = f[i - 1] /\ g[i] = f[i - 1] \o s[i]
        BY <3>3, <4>1
      <4> HIDE DEF g
      <4>3. QED
        BY <3>3, <4>2
    <3>4. QED
      BY <2>1, <3>1, <3>2, <3>3
  <2>5. g = [i \in 1..m |-> g[i]]
    OBVIOUS
  <2> HIDE DEF g
  <2>6. g = [i \in 1..m |-> IF i = 1 THEN s[i] ELSE g[i - 1] \o s[i]]
    BY <2>4, <2>5
  <2>7. Sol(m)
    BY <2>6
  <2> HIDE DEF Sol
  <2>8. QED
    BY <2>7
<1>5. QED
  BY <1>3, <1>4

\* FlattenSeq is the last value of a solution.
LEMMA FlatIs ==
  ASSUME NEW A, NEW s \in Seq(A), Len(s) # 0
  PROVE  \E f : IsFlat(f, s, Len(s)) /\ FlattenSeq(s) = f[Len(s)]
<1> DEFINE F == CHOOSE f : IsFlat(f, s, Len(s))
<1>1. FlattenSeq(s) = F[Len(s)]
  BY DEF FlattenSeq, IsFlat
<1>2. Len(s) \in Nat
  OBVIOUS
<1>3. \E f : IsFlat(f, s, Len(s))
  BY <1>2, FlatExists
<1>4. IsFlat(F, s, Len(s))
  BY <1>3
<1> HIDE DEF F
<1>5. QED
  BY <1>1, <1>4

\* Its values: the first is the first list, and each adds the next.
LEMMA FlatSteps ==
  ASSUME NEW f, NEW s, NEW N \in Nat, IsFlat(f, s, N)
  PROVE  \A i \in 1..N : f[i] = IF i = 1 THEN s[i] ELSE f[i - 1] \o s[i]
  BY DEF IsFlat

\* The values of a solution are lists of the letters.
LEMMA FlatType ==
  ASSUME NEW A, NEW f, NEW s, NEW N \in Nat, IsFlat(f, s, N), \A i \in 1..N : s[i] \in Seq(A)
  PROVE  \A i \in 1..N : f[i] \in Seq(A)
<1> DEFINE Bad == {i \in 1..N : f[i] \notin Seq(A)}
<1>1. SUFFICES ASSUME Bad # {}
               PROVE  FALSE
  OBVIOUS
<1>2. Bad \in SUBSET Nat
  OBVIOUS
<1>3. PICK m \in Bad : \A k \in Bad : m <= k
  <2> HIDE DEF Bad
  <2>1. QED
    BY <1>1, <1>2, LeastOf
<1>4. /\ m \in 1..N /\ s[m] \in Seq(A)
      /\ f[m] = IF m = 1 THEN s[m] ELSE f[m - 1] \o s[m]
  BY FlatSteps
<1>5. m # 1
  BY <1>4
<1>6. m - 1 \in 1..N /\ ~(m <= m - 1)
  BY <1>4, <1>5
<1>7. f[m - 1] \in Seq(A)
  BY <1>3, <1>6
<1>8. f[m - 1] \o s[m] \in Seq(A)
  BY <1>4, <1>7
<1>9. QED
  BY <1>4, <1>5, <1>8

\* Solutions agree as long as the lists they flatten do.
LEMMA FlatSame ==
  ASSUME NEW f, NEW g, NEW s, NEW t, NEW N \in Nat, NEW M \in Nat,
         IsFlat(f, s, N), IsFlat(g, t, M), N <= M, \A i \in 1..N : s[i] = t[i]
  PROVE  \A i \in 1..N : f[i] = g[i]
<1> DEFINE Bad == {i \in 1..N : f[i] # g[i]}
<1>1. SUFFICES ASSUME Bad # {}
               PROVE  FALSE
  OBVIOUS
<1>2. Bad \in SUBSET Nat
  OBVIOUS
<1>3. PICK m \in Bad : \A k \in Bad : m <= k
  <2> HIDE DEF Bad
  <2>1. QED
    BY <1>1, <1>2, LeastOf
<1>4. m \in 1..N /\ m \in 1..M /\ s[m] = t[m] /\ f[m] # g[m]
  OBVIOUS
<1>5. f[m] = IF m = 1 THEN s[m] ELSE f[m - 1] \o s[m]
  BY <1>4, FlatSteps
<1>6. g[m] = IF m = 1 THEN t[m] ELSE g[m - 1] \o t[m]
  BY <1>4, FlatSteps
<1>7. m # 1
  BY <1>4, <1>5, <1>6
<1>8. m - 1 \in 1..N /\ ~(m <= m - 1)
  BY <1>4, <1>7
<1>9. f[m - 1] = g[m - 1]
  BY <1>3, <1>8
<1>10. QED
  BY <1>4, <1>5, <1>6, <1>7, <1>9

\* No lists make the empty list.
LEMMA FlattenEmpty == FlattenSeq(<<>>) = <<>>
  BY DEF FlattenSeq

\* Lists of letters flatten to a list of letters.
LEMMA FlattenType ==
  ASSUME NEW A, NEW s \in Seq(Seq(A))
  PROVE  FlattenSeq(s) \in Seq(A)
<1>1. CASE Len(s) = 0
  <2>1. s = <<>> /\ <<>> \in Seq(A)
    BY <1>1
  <2>2. QED
    BY <2>1, FlattenEmpty
<1>2. CASE Len(s) # 0
  <2>1. PICK f : IsFlat(f, s, Len(s)) /\ FlattenSeq(s) = f[Len(s)]
    BY <1>2, FlatIs
  <2>2. Len(s) \in Nat /\ Len(s) \in 1..Len(s) /\ \A i \in 1..Len(s) : s[i] \in Seq(A)
    BY <1>2
  <2>3. QED
    BY <2>1, <2>2, FlatType
<1>3. QED
  BY <1>1, <1>2

\* One list more.
LEMMA FlattenGrow ==
  ASSUME NEW A, NEW s \in Seq(Seq(A)), NEW t \in Seq(Seq(A)),
         Len(t) = Len(s) + 1, \A i \in 1..Len(s) : t[i] = s[i]
  PROVE  FlattenSeq(t) = FlattenSeq(s) \o t[Len(t)]
<1>1. /\ Len(s) \in Nat /\ Len(t) \in Nat /\ Len(t) # 0
      /\ Len(t) \in 1..Len(t) /\ t[Len(t)] \in Seq(A)
  OBVIOUS
<1> DEFINE B == Seq(A)
<1>2. PICK g : IsFlat(g, t, Len(t)) /\ FlattenSeq(t) = g[Len(t)]
  <2>1. t \in Seq(B)
    OBVIOUS
  <2> HIDE DEF B
  <2>2. QED
    BY <1>1, <2>1, FlatIs
<1>3. g[Len(t)] = IF Len(t) = 1 THEN t[Len(t)] ELSE g[Len(t) - 1] \o t[Len(t)]
  BY <1>1, <1>2, FlatSteps
<1>4. CASE Len(s) = 0
  <2>1. s = <<>>
    BY <1>4
  <2>2. FlattenSeq(t) = t[Len(t)] /\ FlattenSeq(s) = <<>>
    BY <1>1, <1>2, <1>3, <1>4, <2>1, FlattenEmpty
  <2>3. <<>> \o t[Len(t)] = t[Len(t)]
    BY <1>1, ConcatEmptySeq
  <2>4. QED
    BY <2>2, <2>3
<1>5. CASE Len(s) # 0
  <2>1. PICK f : IsFlat(f, s, Len(s)) /\ FlattenSeq(s) = f[Len(s)]
    <3>1. s \in Seq(B)
      OBVIOUS
    <3> HIDE DEF B
    <3>2. QED
      BY <1>5, <3>1, FlatIs
  <2>2. Len(s) <= Len(t) /\ \A i \in 1..Len(s) : s[i] = t[i]
    BY <1>1
  <2>3. \A i \in 1..Len(s) : f[i] = g[i]
    <3> DEFINE N == Len(s)
               M == Len(t)
    <3>1. N \in Nat /\ M \in Nat /\ IsFlat(f, s, N) /\ IsFlat(g, t, M) /\ N <= M
      BY <1>1, <1>2, <2>1, <2>2
    <3>2. \A i \in 1..N : s[i] = t[i]
      BY <2>2
    <3> HIDE DEF N, M
    <3>3. \A i \in 1..N : f[i] = g[i]
      BY <3>1, <3>2, FlatSame
    <3>4. QED
      BY <3>3 DEF N
  <2>4. Len(s) \in 1..Len(s) /\ Len(t) - 1 = Len(s) /\ Len(t) # 1
    BY <1>1, <1>5
  <2>5. QED
    BY <1>2, <1>3, <2>1, <2>3, <2>4
<1>6. QED
  BY <1>4, <1>5

\* A list put last is put last.
LEMMA FlattenAppend ==
  ASSUME NEW A, NEW s \in Seq(Seq(A)), NEW w \in Seq(A)
  PROVE  /\ Append(s, w) \in Seq(Seq(A))
         /\ FlattenSeq(Append(s, w)) = FlattenSeq(s) \o w
<1> DEFINE t == Append(s, w)
<1>1. /\ t \in Seq(Seq(A)) /\ Len(t) = Len(s) + 1
      /\ t[Len(t)] = w /\ \A i \in 1..Len(s) : t[i] = s[i]
  OBVIOUS
<1> HIDE DEF t
<1>2. FlattenSeq(t) = FlattenSeq(s) \o w
  BY <1>1, FlattenGrow
<1>3. QED
  BY <1>1, <1>2 DEF t

\* FlattenSeq distributes over concatenation.
LEMMA FlattenConcat ==
  ASSUME NEW A, NEW s \in Seq(Seq(A)), NEW t \in Seq(Seq(A))
  PROVE  FlattenSeq(s \o t) = FlattenSeq(s) \o FlattenSeq(t)
<1> DEFINE u(n) == SubSeq(t, 1, n)
           Good(n) == FlattenSeq(s \o u(n)) = FlattenSeq(s) \o FlattenSeq(u(n))
           Bad == {n \in 0..Len(t) : ~Good(n)}
<1>1. /\ Len(t) \in Nat /\ u(0) = <<>> /\ u(Len(t)) = t
      /\ \A n \in 1..Len(t) : /\ t[n] \in Seq(A) /\ u(n - 1) \in Seq(Seq(A))
                              /\ u(n) = Append(u(n - 1), t[n])
  OBVIOUS
<1>2. FlattenSeq(s) \in Seq(A)
  BY FlattenType
<1> HIDE DEF u
<1>3. ASSUME Bad # {}
      PROVE  FALSE
  <2>1. PICK m \in Bad : \A k \in Bad : m <= k
    <3> HIDE DEF Good
    <3>1. Bad \in SUBSET Nat
      BY <1>1
    <3>2. QED
      BY <1>3, <3>1, LeastOf
  <2>2. CASE m = 0
    <3>1. s \o <<>> = s /\ FlattenSeq(s) \o <<>> = FlattenSeq(s)
      BY <1>2
    <3>2. Good(0)
      BY <1>1, <3>1, FlattenEmpty
    <3> HIDE DEF Good
    <3>3. QED
      BY <2>2, <3>2
  <2>3. CASE m # 0
    <3>1. m \in 1..Len(t) /\ m - 1 \in 0..Len(t) /\ ~(m <= m - 1)
      BY <1>1, <2>3
    <3>2. Good(m - 1)
      <4> HIDE DEF Good
      <4>1. QED
        BY <2>1, <3>1
    <3> DEFINE v == u(m - 1)
               x == t[m]
    <3>3. v \in Seq(Seq(A)) /\ x \in Seq(A) /\ u(m) = Append(v, x)
      BY <1>1, <3>1
    <3>4. FlattenSeq(s \o v) = FlattenSeq(s) \o FlattenSeq(v)
      BY <3>2
    <3> HIDE DEF v, x
    <3>5. s \o Append(v, x) = Append(s \o v, x) /\ s \o v \in Seq(Seq(A))
      BY <3>3
    <3>6. /\ FlattenSeq(Append(s \o v, x)) = FlattenSeq(s \o v) \o x
          /\ FlattenSeq(Append(v, x)) = FlattenSeq(v) \o x
      BY <3>3, <3>5, FlattenAppend
    <3>7. FlattenSeq(v) \in Seq(A)
      BY <3>3, FlattenType
    <3>8. (FlattenSeq(s) \o FlattenSeq(v)) \o x = FlattenSeq(s) \o (FlattenSeq(v) \o x)
      BY <1>2, <3>3, <3>7
    <3>9. Good(m)
      BY <3>3, <3>4, <3>5, <3>6, <3>8
    <3> HIDE DEF Good
    <3>10. QED
      BY <3>9
  <2>4. QED
    BY <2>2, <2>3
<1>4. Good(Len(t))
  <2> HIDE DEF Good
  <2>1. QED
    BY <1>1, <1>3
<1>5. QED
  BY <1>1, <1>4

\* One list flattens to itself.
LEMMA FlattenOne ==
  ASSUME NEW A, NEW w \in Seq(A)
  PROVE  FlattenSeq(<<w>>) = w
<1>1. <<>> \in Seq(Seq(A)) /\ Append(<<>>, w) = <<w>> /\ <<>> \o w = w
  OBVIOUS
<1>2. QED
  BY <1>1, FlattenAppend, FlattenEmpty

-----------------------------------------------------------------------------
(* Frames and what is written of them. *)

IsFrame(f) == /\ f.table \in BOOLEAN
              /\ f.headers \in Seq(ToSet(f.headers))
              /\ f.body \in Seq(ToSet(f.body))
              /\ f.body_length \in -1..Len(f.body)

\* The length up to a NUL is within the list.
LEMMA StrLenBound ==
  ASSUME NEW A, NEW s \in Seq(A)
  PROVE  StrLen(s) \in 0..Len(s)
<1>1. CASE \E k \in DOMAIN s : s[k] = NUL
  <2> DEFINE Nuls == {k \in DOMAIN s : s[k] = NUL}
             IsFirst(k) == k \in DOMAIN s /\ s[k] = NUL /\ \A j \in 1..k - 1 : s[j] # NUL
  <2>1. Nuls \in SUBSET Nat /\ Nuls # {}
    BY <1>1
  <2>2. PICK m \in Nuls : \A k \in Nuls : m <= k
    <3> HIDE DEF Nuls
    <3>1. QED
      BY <2>1, LeastOf
  <2>3. m \in 1..Len(s) /\ s[m] = NUL
    OBVIOUS
  <2>4. ASSUME NEW j \in 1..m - 1
        PROVE  s[j] # NUL
    <3>1. j \in DOMAIN s /\ ~(m <= j)
      BY <2>3
    <3>2. QED
      BY <2>2, <3>1
  <2>5. m \in DOMAIN s /\ s[m] = NUL /\ \A j \in 1..m - 1 : s[j] # NUL
    BY <2>3, <2>4
  <2> DEFINE c == CHOOSE k \in DOMAIN s : s[k] = NUL /\ \A j \in 1..k - 1 : s[j] # NUL
  <2>6. c \in DOMAIN s
    BY <2>5
  <2>7. StrLen(s) = c - 1
    BY <1>1 DEF StrLen
  <2> HIDE DEF c
  <2>8. QED
    BY <2>6, <2>7
<1>2. CASE ~\E k \in DOMAIN s : s[k] = NUL
  BY <1>2 DEF StrLen
<1>3. QED
  BY <1>1, <1>2

\* The body as sent is a beginning of the body, and as long as its length says.
LEMMA WrittenIs ==
  ASSUME NEW f, IsFrame(f)
  PROVE  /\ Written(f) \in Seq(ToSet(f.body))
         /\ Len(Written(f)) \in 0..Len(f.body)
         /\ \A i \in 1..Len(Written(f)) : Written(f)[i] = f.body[i]
         /\ HasLength(f) => Len(Written(f)) = f.body_length
<1> DEFINE n == IF f.body_length < 0 THEN StrLen(f.body) ELSE f.body_length
           b == f.body
<1>1. b \in Seq(ToSet(f.body)) /\ f.body_length \in -1..Len(b)
  BY DEF IsFrame
<1>2. n \in 0..Len(b)
  BY <1>1, StrLenBound
<1>3. Written(f) = SubSeq(b, 1, n) /\ (HasLength(f) => n = f.body_length)
  BY <1>1 DEF Written, HasLength
<1> HIDE DEF n, b
<1>4. /\ SubSeq(b, 1, n) \in Seq(ToSet(f.body)) /\ Len(SubSeq(b, 1, n)) = n
      /\ \A i \in 1..n : SubSeq(b, 1, n)[i] = b[i]
  BY <1>1, <1>2
<1>5. QED
  BY <1>2, <1>3, <1>4 DEF b

\* The first line is the command, the last one the length if there is one, the others are headers.
LEMMA HeadLinesAre ==
  ASSUME NEW f, IsFrame(f)
  PROVE  /\ HeadLines(f) \in Seq({f.command, ContentLength(f.body_length)} \cup ToSet(f.headers))
         /\ Len(HeadLines(f)) \in Nat \ {0}
         /\ HeadLines(f)[1] = f.command
         /\ \A i \in 2..Len(HeadLines(f)) :
               IF HasLength(f) /\ i = Len(HeadLines(f))
               THEN HeadLines(f)[i] = ContentLength(f.body_length)
               ELSE HeadLines(f)[i] \in ToSet(f.headers)
         /\ HasLength(f) => Len(HeadLines(f)) > 1
<1> DEFINE A == {f.command, ContentLength(f.body_length)} \cup ToSet(f.headers)
           H == IF f.table THEN f.headers ELSE <<>>
           N == IF HasLength(f) THEN <<ContentLength(f.body_length)>> ELSE <<>>
           U == <<f.command>> \o H
<1>1. /\ H \in Seq(A) /\ N \in Seq(A) /\ <<f.command>> \in Seq(A)
      /\ Len(N) = IF HasLength(f) THEN 1 ELSE 0
      /\ HasLength(f) => N[1] = ContentLength(f.body_length)
      /\ \A i \in 1..Len(H) : H[i] \in ToSet(f.headers)
  <2>1. ToSet(f.headers) \subseteq A /\ f.headers \in Seq(ToSet(f.headers))
    BY DEF IsFrame
  <2>2. f.headers \in Seq(A)
    BY <2>1, SeqMonotonic
  <2>3. /\ H \in Seq(A) /\ \A i \in 1..Len(H) : H[i] \in ToSet(f.headers)
    BY <2>1, <2>2
  <2>4. /\ N \in Seq(A) /\ <<f.command>> \in Seq(A)
        /\ Len(N) = IF HasLength(f) THEN 1 ELSE 0
        /\ HasLength(f) => N[1] = ContentLength(f.body_length)
    <3> DEFINE n == ContentLength(f.body_length)
               c == f.command
    <3>1. n \in A /\ c \in A
      OBVIOUS
    <3> HIDE DEF n, c, A
    <3>2. /\ <<n>> \in Seq(A) /\ Len(<<n>>) = 1 /\ <<n>>[1] = n /\ <<c>> \in Seq(A)
          /\ <<>> \in Seq(A) /\ Len(<<>>) = 0
      BY <3>1, OneLetter
    <3>3. QED
      BY <3>2 DEF n, c
  <2>5. QED
    BY <2>3, <2>4
<1>2. HeadLines(f) = U \o N
  BY DEF HeadLines
<1> HIDE DEF A, H, N
<1>3. /\ U \in Seq(A) /\ Len(U) = 1 + Len(H) /\ U[1] = f.command /\ Len(H) \in Nat
      /\ \A i \in 2..1 + Len(H) : U[i] = H[i - 1]
  <2> DEFINE c == <<f.command>>
  <2>1. c \in Seq(A) /\ Len(c) = 1 /\ c[1] = f.command
    BY <1>1
  <2> HIDE DEF c
  <2>2. /\ c \o H \in Seq(A) /\ Len(c \o H) = 1 + Len(H) /\ Len(H) \in Nat
        /\ (c \o H)[1] = f.command
        /\ \A k \in 1..Len(H) : (c \o H)[1 + k] = H[k]
    <3>1. 1 \in 1..Len(c)
      BY <2>1
    <3>2. /\ c \o H \in Seq(A) /\ Len(c \o H) = Len(c) + Len(H)
          /\ Len(c) \in Nat /\ Len(H) \in Nat
          /\ \A k \in 1..Len(c) : (c \o H)[k] = c[k]
          /\ \A k \in 1..Len(H) : (c \o H)[Len(c) + k] = H[k]
      BY <1>1, <2>1, Joined
    <3>3. QED
      BY <2>1, <3>1, <3>2
  <2>3. ASSUME NEW i \in 2..1 + Len(H)
        PROVE  (c \o H)[i] = H[i - 1]
    <3>1. i - 1 \in 1..Len(H) /\ 1 + (i - 1) = i
      BY <2>2
    <3>2. QED
      BY <2>2, <3>1
  <2>4. U = c \o H
    BY DEF c
  <2> HIDE DEF U
  <2>5. QED
    BY <2>2, <2>3, <2>4
<1> HIDE DEF U
<1>4. /\ U \o N \in Seq(A) /\ Len(U \o N) = Len(U) + Len(N)
      /\ \A i \in 1..Len(U) : (U \o N)[i] = U[i]
      /\ HasLength(f) => (U \o N)[Len(U) + 1] = N[1]
  <2>1. U \in Seq(A) /\ N \in Seq(A)
    BY <1>1, <1>3
  <2>2. /\ U \o N \in Seq(A) /\ Len(U \o N) = Len(U) + Len(N)
        /\ Len(U) \in Nat /\ Len(N) \in Nat
        /\ \A k \in 1..Len(U) : (U \o N)[k] = U[k]
        /\ \A k \in 1..Len(N) : (U \o N)[Len(U) + k] = N[k]
    BY <2>1, Joined
  <2>3. HasLength(f) => 1 \in 1..Len(N)
    BY <1>1
  <2>4. QED
    BY <2>2, <2>3
<1>5. ASSUME NEW i \in 2..Len(U \o N)
      PROVE  IF HasLength(f) /\ i = Len(U \o N)
             THEN (U \o N)[i] = ContentLength(f.body_length)
             ELSE (U \o N)[i] \in ToSet(f.headers)
  <2>1. CASE HasLength(f) /\ i = Len(U \o N)
    BY <1>1, <1>3, <1>4, <2>1
  <2>2. CASE ~(HasLength(f) /\ i = Len(U \o N))
    <3>1. i \in 2..Len(U) /\ i - 1 \in 1..Len(H)
      BY <1>1, <1>3, <1>4, <2>2
    <3>2. QED
      BY <1>1, <1>3, <1>4, <2>2, <3>1
  <2>3. QED
    BY <2>1, <2>2
<1>6. QED
  BY <1>1, <1>2, <1>3, <1>4, <1>5 DEF A

\* The lines before the empty one, as buffers and as symbols.
Pairs(L, n) == [i \in 1..n |-> <<<<L[i]>>, <<NL>>>>]

\* Lines at the odd places, line feeds at the even ones.
LEMMA PairsWire ==
  ASSUME NEW A, NEW L \in Seq(A), NL \in A
  PROVE  \A n \in 0..Len(L) :
           LET H == FlattenSeq(Pairs(L, n)) IN
           /\ H \in Seq(Seq(A) \ {<<>>}) /\ FlattenSeq(H) \in Seq(A)
           /\ Len(FlattenSeq(H)) = 2 * n
           /\ \A i \in 1..n : FlattenSeq(H)[2 * i - 1] = L[i] /\ FlattenSeq(H)[2 * i] = NL
<1> DEFINE B == Seq(A) \ {<<>>}
           H(n) == FlattenSeq(Pairs(L, n))
           W(n) == FlattenSeq(H(n))
           Good(n) == /\ Len(W(n)) = 2 * n
                      /\ \A i \in 1..n : W(n)[2 * i - 1] = L[i] /\ W(n)[2 * i] = NL
           Bad == {n \in 0..Len(L) : ~Good(n)}
<1>1. ASSUME NEW n \in 0..Len(L)
      PROVE  /\ Pairs(L, n) \in Seq(Seq(B)) /\ Len(Pairs(L, n)) = n
             /\ \A i \in 1..n : Pairs(L, n)[i] = <<<<L[i]>>, <<NL>>>>
  <2>1. \A i \in 1..n : <<L[i]>> \in B /\ <<NL>> \in B
    OBVIOUS
  <2> HIDE DEF B
  <2>2. \A i \in 1..n : <<<<L[i]>>, <<NL>>>> \in Seq(B)
    BY <2>1
  <2>3. QED
    BY <2>2 DEF Pairs
<1>2. ASSUME NEW n \in 0..Len(L)
      PROVE  H(n) \in Seq(B) /\ H(n) \in Seq(Seq(A)) /\ W(n) \in Seq(A)
  <2> DEFINE P == Pairs(L, n)
  <2>1. P \in Seq(Seq(B)) /\ B \subseteq Seq(A)
    BY <1>1
  <2> HIDE DEF B, P
  <2>2. FlattenSeq(P) \in Seq(B)
    BY <2>1, FlattenType
  <2> DEFINE h == FlattenSeq(P)
  <2> HIDE DEF h
  <2>3. h \in Seq(B) /\ h \in Seq(Seq(A))
    BY <2>1, <2>2, SeqMonotonic DEF h
  <2>4. FlattenSeq(h) \in Seq(A)
    BY <2>3, FlattenType
  <2>5. QED
    BY <2>3, <2>4 DEF h, P
<1>3. Good(0)
  <2>1. Pairs(L, 0) = <<>>
    BY DEF Pairs
  <2>2. H(0) = <<>> /\ W(0) = <<>>
    BY <2>1, FlattenEmpty
  <2> HIDE DEF W
  <2>3. QED
    BY <2>2
<1>4. ASSUME NEW n \in 1..Len(L), Good(n - 1)
      PROVE  Good(n)
  <2>1. n - 1 \in 0..Len(L) /\ n \in 0..Len(L) /\ L[n] \in A
    OBVIOUS
  <2> DEFINE p == Pairs(L, n - 1)
             q == Pairs(L, n)
             w == <<<<L[n]>>, <<NL>>>>
  <2>2. /\ p \in Seq(Seq(B)) /\ q \in Seq(Seq(B)) /\ Len(q) = Len(p) + 1 /\ Len(q) = n
        /\ \A i \in 1..Len(p) : q[i] = p[i]
        /\ q[n] = w
    <3>1. /\ p \in Seq(Seq(B)) /\ Len(p) = n - 1
          /\ \A i \in 1..n - 1 : p[i] = <<<<L[i]>>, <<NL>>>>
      BY <1>1, <2>1
    <3>2. /\ q \in Seq(Seq(B)) /\ Len(q) = n
          /\ \A i \in 1..n : q[i] = <<<<L[i]>>, <<NL>>>>
      BY <1>1, <2>1
    <3> HIDE DEF p, q, B
    <3>3. Len(p) = n - 1 /\ Len(q) = Len(p) + 1 /\ n \in 1..n /\ n \in Nat
      BY <2>1, <3>1, <3>2
    <3>4. q[n] = w
      BY <3>2, <3>3
    <3>5. ASSUME NEW i \in 1..Len(p)
          PROVE  q[i] = p[i]
      <4>1. i \in 1..n - 1 /\ i \in 1..n
        BY <3>3
      <4>2. QED
        BY <3>1, <3>2, <4>1
    <3> HIDE DEF w
    <3>6. QED
      BY <3>1, <3>2, <3>3, <3>4, <3>5
  <2>3. H(n) = H(n - 1) \o w
    <3> HIDE DEF p, q, B, w
    <3>1. FlattenSeq(q) = FlattenSeq(p) \o w
      BY <2>2, FlattenGrow
    <3>2. QED
      BY <3>1 DEF p, q
  <2>4. w \in Seq(Seq(A)) /\ H(n - 1) \in Seq(Seq(A))
    BY <1>2, <2>1
  <2>5. FlattenSeq(w) = <<L[n], NL>>
    <3> DEFINE u == <<L[n]>>
               v == <<NL>>
    <3>1. u \in Seq(A) /\ v \in Seq(A) /\ <<u>> \in Seq(Seq(A)) /\ w = Append(<<u>>, v)
          /\ u \o v = <<L[n], NL>>
      <4>1. u \in Seq(A) /\ v \in Seq(A)
        BY <2>1
      <4>2. u \o v = <<L[n], NL>>
        BY <2>1, Pair
      <4>3. w = <<u, v>>
        OBVIOUS
      <4> HIDE DEF u, v, w
      <4>4. <<u>> \in Seq(Seq(A))
        BY <4>1
      <4>5. Append(<<u>>, v) = <<u, v>>
        <5> DEFINE C == Seq(A)
        <5>1. u \in C /\ v \in C /\ <<u>> \in Seq(C)
          BY <4>1, <4>4
        <5> HIDE DEF C
        <5>2. Append(<<u>>, v) = <<u>> \o <<v>>
          BY <5>1, AppendIsConcat
        <5>3. <<u>> \o <<v>> = <<u, v>>
          BY <5>1, Pair
        <5>4. QED
          BY <5>2, <5>3
      <4>6. QED
        BY <4>1, <4>2, <4>3, <4>4, <4>5
    <3> HIDE DEF u, v, w
    <3>2. FlattenSeq(Append(<<u>>, v)) = FlattenSeq(<<u>>) \o v
      BY <3>1, FlattenAppend
    <3>3. FlattenSeq(<<u>>) = u
      BY <3>1, FlattenOne
    <3>4. QED
      BY <3>1, <3>2, <3>3
  <2>6. W(n) = W(n - 1) \o <<L[n], NL>>
    <3> DEFINE h == H(n - 1)
    <3> HIDE DEF h, w
    <3>1. FlattenSeq(h \o w) = FlattenSeq(h) \o FlattenSeq(w)
      BY <2>4, FlattenConcat DEF h
    <3>2. QED
      BY <2>3, <2>5, <3>1 DEF h
  <2>7. W(n - 1) \in Seq(A)
    BY <1>2, <2>1
  <2> DEFINE o == W(n - 1)
             e == W(n)
  <2>8. /\ Len(o) = 2 * (n - 1) /\ o \in Seq(A) /\ e = o \o <<L[n], NL>>
        /\ \A i \in 1..n - 1 : o[2 * i - 1] = L[i] /\ o[2 * i] = NL
    BY <1>4, <2>6, <2>7
  <2> HIDE DEF o, e
  <2>9. /\ Len(e) = 2 * n /\ e[2 * n - 1] = L[n] /\ e[2 * n] = NL
        /\ \A k \in 1..2 * (n - 1) : e[k] = o[k]
    <3> DEFINE x == <<L[n], NL>>
    <3>1. x \in Seq(A) /\ Len(x) = 2 /\ x[1] = L[n] /\ x[2] = NL
      BY <2>1, TwoLetters
    <3>2. e = o \o x
      BY <2>8
    <3> HIDE DEF x
    <3>3. /\ o \o x \in Seq(A) /\ Len(o \o x) = Len(o) + Len(x)
          /\ Len(o) \in Nat /\ Len(x) \in Nat
          /\ \A k \in 1..Len(o) : (o \o x)[k] = o[k]
          /\ \A k \in 1..Len(x) : (o \o x)[Len(o) + k] = x[k]
      <4>1. o \in Seq(A) /\ x \in Seq(A)
        BY <2>8, <3>1
      <4>2. QED
        BY <4>1, Joined
    <3>4. Len(o) + 1 = 2 * n - 1 /\ Len(o) + 2 = 2 * n /\ 1 \in 1..2 /\ 2 \in 1..2
      BY <2>8
    <3>5. e[Len(o) + 1] = x[1] /\ e[Len(o) + 2] = x[2]
      <4>1. 1 \in 1..Len(x) /\ 2 \in 1..Len(x)
        BY <3>1
      <4>2. QED
        BY <3>2, <3>3, <4>1
    <3>6. QED
      BY <2>8, <3>1, <3>2, <3>3, <3>4, <3>5
  <2>10. ASSUME NEW i \in 1..n
         PROVE  e[2 * i - 1] = L[i] /\ e[2 * i] = NL
    <3>1. CASE i = n
      BY <2>9, <3>1
    <3>2. CASE i # n
      <4>1. i \in 1..n - 1 /\ 2 * i \in 1..2 * (n - 1) /\ 2 * i - 1 \in 1..2 * (n - 1)
        BY <3>2
      <4>2. QED
        BY <2>8, <2>9, <4>1
    <3>3. QED
      BY <3>1, <3>2
  <2>11. QED
    BY <2>9, <2>10 DEF e
<1>5. ASSUME Bad # {}
      PROVE  FALSE
  <2> HIDE DEF Good
  <2>1. Bad \in SUBSET Nat
    OBVIOUS
  <2>2. PICK m \in Bad : \A k \in Bad : m <= k
    <3> HIDE DEF Bad
    <3>1. QED
      BY <1>5, <2>1, LeastOf
  <2>3. CASE m = 0
    BY <1>3, <2>3
  <2>4. CASE m # 0
    <3>1. m \in 1..Len(L) /\ m - 1 \in 0..Len(L) /\ ~(m <= m - 1)
      BY <2>4
    <3>2. Good(m - 1)
      BY <2>2, <3>1
    <3>3. QED
      BY <1>4, <3>1, <3>2
  <2>5. QED
    BY <2>3, <2>4
<1>6. ASSUME NEW n \in 0..Len(L)
      PROVE  Good(n)
  <2> HIDE DEF Good
  <2>1. QED
    BY <1>5
<1> HIDE DEF W, H
<1>7. QED
  BY <1>2, <1>6 DEF W, H

\* What stomp_write writes of a frame with h lines and a body of w bytes: where in it
\* the lines are, the empty line, the body and its end.
LEMMA Wire ==
  ASSUME NEW A, NEW f, IsFrame(f), Letters(f) \subseteq A
  PROVE  LET S == Symbols(f)
             h == Len(HeadLines(f))
             w == Len(Written(f))
         IN  /\ Buffers(f) \in Seq(Seq(A) \ {<<>>}) /\ Buffers(f) # <<>>
             /\ S \in Seq(A) /\ h \in Nat \ {0} /\ w \in Nat
             /\ Len(S) = 2 * h + w + 3
             /\ \A i \in 1..h : S[2 * i - 1] = HeadLines(f)[i] /\ S[2 * i] = NL
             /\ S[2 * h + 1] = NL
             /\ \A i \in 1..w : S[2 * h + 1 + i] = Written(f)[i]
             /\ S[2 * h + w + 2] = NUL
             /\ S[2 * h + w + 3] = NL
<1> DEFINE L == HeadLines(f)
           h == Len(L)
           H == FlattenSeq(Pairs(L, h))
           V == Written(f)
           w == Len(V)
           B == Seq(A) \ {<<>>}
           M == IF V = <<>> THEN <<>> ELSE <<V>>
           X == FlattenSeq(H)
<1>1. NUL \in A /\ NL \in A /\ L \in Seq(A) /\ V \in Seq(A) /\ h \in Nat \ {0} /\ w \in Nat
  <2>1. /\ {f.command, ContentLength(f.body_length)} \cup ToSet(f.headers) \subseteq A
        /\ ToSet(f.body) \subseteq A /\ NUL \in A /\ NL \in A
    BY DEF Letters
  <2>2. L \in Seq(A) /\ h \in Nat \ {0}
    BY <2>1, HeadLinesAre, SeqMonotonic
  <2>3. V \in Seq(A)
    BY <2>1, WrittenIs, SeqMonotonic
  <2>4. QED
    BY <2>1, <2>2, <2>3
<1>2. /\ H \in Seq(B) /\ X \in Seq(A) /\ Len(X) = 2 * h
      /\ \A i \in 1..h : X[2 * i - 1] = L[i] /\ X[2 * i] = NL
  <2> HIDE DEF L
  <2>1. h \in 0..Len(L)
    BY <1>1
  <2>2. QED
    BY <1>1, <2>1, PairsWire
<1>3. Buffers(f) = H \o <<<<NL>>>> \o M \o <<<<NUL, NL>>>>
  <2>1. DOMAIN L = 1..h
    BY <1>1
  <2>2. H = FlattenSeq([i \in DOMAIN L |-> <<<<L[i]>>, <<NL>>>>])
    BY <2>1 DEF Pairs
  <2>3. QED
    BY <2>2 DEF Buffers
<1> DEFINE b1 == <<<<NL>>>>
           b2 == <<<<NUL, NL>>>>
           q1 == H \o b1
           q2 == q1 \o M
           q3 == q2 \o b2
<1>4. b1 \in Seq(B) /\ b2 \in Seq(B) /\ M \in Seq(B)
  <2>1. <<NL>> \in B /\ <<NUL, NL>> \in B /\ (V # <<>> => V \in B)
    BY <1>1
  <2> HIDE DEF B, V
  <2>2. QED
    BY <2>1
<1>5. q1 \in Seq(B) /\ q2 \in Seq(B) /\ q3 \in Seq(B) /\ q3 # <<>>
  <2> HIDE DEF B, H, M, b1
  <2>1. q1 \in Seq(B)
    BY <1>2, <1>4
  <2> HIDE DEF q1
  <2>2. q2 \in Seq(B)
    BY <1>4, <2>1
  <2> HIDE DEF q2
  <2>3. q3 \in Seq(B) /\ q3 # <<>>
    BY <1>4, <2>2, ConcatEqualIffEmpty
  <2>4. QED
    BY <2>1, <2>2, <2>3
<1>6. /\ H \in Seq(Seq(A)) /\ b1 \in Seq(Seq(A)) /\ b2 \in Seq(Seq(A)) /\ M \in Seq(Seq(A))
      /\ q1 \in Seq(Seq(A)) /\ q2 \in Seq(Seq(A))
  <2>1. B \subseteq Seq(A)
    OBVIOUS
  <2> HIDE DEF B, H, M, b1, b2, q1, q2
  <2>2. QED
    BY <1>2, <1>4, <1>5, <2>1, SeqMonotonic
<1>7. /\ FlattenSeq(b1) = <<NL>> /\ FlattenSeq(b2) = <<NUL, NL>>
      /\ FlattenSeq(M) = V
  <2>1. <<NL>> \in Seq(A) /\ <<NUL, NL>> \in Seq(A)
    BY <1>1
  <2>2. FlattenSeq(b1) = <<NL>> /\ FlattenSeq(b2) = <<NUL, NL>>
    BY <2>1, FlattenOne
  <2>3. CASE V = <<>>
    <3>1. M = <<>>
      BY <2>3
    <3> HIDE DEF M, V
    <3>2. FlattenSeq(M) = V
      BY <2>3, <3>1, FlattenEmpty
    <3>3. QED
      BY <2>2, <3>2
  <2>4. CASE V # <<>>
    <3>1. M = <<V>>
      BY <2>4
    <3> HIDE DEF M, V
    <3>2. FlattenSeq(M) = V
      BY <1>1, <3>1, FlattenOne
    <3>3. QED
      BY <2>2, <3>2
  <2>5. QED
    BY <2>2, <2>3, <2>4
<1>8. FlattenSeq(q3) = ((X \o <<NL>>) \o V) \o <<NUL, NL>>
  <2> HIDE DEF B, H, M, b1, b2, X, V
  <2>1. FlattenSeq(q1) = FlattenSeq(H) \o FlattenSeq(b1)
    BY <1>6, FlattenConcat
  <2> HIDE DEF q1
  <2>2. FlattenSeq(q2) = FlattenSeq(q1) \o FlattenSeq(M)
    BY <1>6, FlattenConcat
  <2> HIDE DEF q2
  <2>3. FlattenSeq(q3) = FlattenSeq(q2) \o FlattenSeq(b2)
    BY <1>6, FlattenConcat
  <2>4. QED
    BY <1>7, <2>1, <2>2, <2>3 DEF X
<1>9. Symbols(f) = ((X \o <<NL>>) \o V) \o <<NUL, NL>> /\ Buffers(f) = q3
  BY <1>3, <1>8 DEF Symbols
<1> HIDE DEF X, V, B, H, M, L, b1, b2
<1> DEFINE Y == X \o <<NL>>
           Z == Y \o V
           S == Z \o <<NUL, NL>>
<1>10. /\ Y \in Seq(A) /\ Len(Y) = 2 * h + 1 /\ Y[2 * h + 1] = NL
       /\ \A k \in 1..2 * h : Y[k] = X[k]
  <2> DEFINE x == <<NL>>
  <2>1. x \in Seq(A) /\ Len(x) = 1 /\ x[1] = NL
    BY <1>1, OneLetter
  <2> HIDE DEF x
  <2>2. /\ X \o x \in Seq(A) /\ Len(X \o x) = 2 * h + 1
        /\ \A k \in 1..2 * h : (X \o x)[k] = X[k]
        /\ \A k \in 1..1 : (X \o x)[2 * h + k] = x[k]
    <3>1. /\ X \o x \in Seq(A) /\ Len(X \o x) = Len(X) + Len(x)
          /\ Len(X) \in Nat /\ Len(x) \in Nat
          /\ \A k \in 1..Len(X) : (X \o x)[k] = X[k]
          /\ \A k \in 1..Len(x) : (X \o x)[Len(X) + k] = x[k]
      BY <1>2, <2>1, Joined
    <3>2. QED
      BY <1>2, <2>1, <3>1
  <2>3. QED
    BY <2>1, <2>2 DEF x
<1> HIDE DEF Y
<1>11. /\ Z \in Seq(A) /\ Len(Z) = 2 * h + 1 + w
       /\ \A k \in 1..2 * h + 1 : Z[k] = Y[k]
       /\ \A k \in 1..w : Z[2 * h + 1 + k] = V[k]
  BY <1>1, <1>10
<1> HIDE DEF Z
<1>12. /\ S \in Seq(A) /\ Len(S) = 2 * h + w + 3
       /\ \A k \in 1..2 * h + 1 + w : S[k] = Z[k]
       /\ S[2 * h + w + 2] = NUL /\ S[2 * h + w + 3] = NL
  <2> DEFINE x == <<NUL, NL>>
  <2>1. x \in Seq(A) /\ Len(x) = 2 /\ x[1] = NUL /\ x[2] = NL
    BY <1>1, TwoLetters
  <2> HIDE DEF x
  <2>2. /\ Z \o x \in Seq(A) /\ Len(Z \o x) = 2 * h + 1 + w + 2
        /\ \A k \in 1..2 * h + 1 + w : (Z \o x)[k] = Z[k]
        /\ \A k \in 1..2 : (Z \o x)[2 * h + 1 + w + k] = x[k]
    <3>1. /\ Z \o x \in Seq(A) /\ Len(Z \o x) = Len(Z) + Len(x)
          /\ Len(Z) \in Nat /\ Len(x) \in Nat
          /\ \A k \in 1..Len(Z) : (Z \o x)[k] = Z[k]
          /\ \A k \in 1..Len(x) : (Z \o x)[Len(Z) + k] = x[k]
      <4>1. Z \in Seq(A) /\ x \in Seq(A)
        BY <1>11, <2>1
      <4>2. QED
        BY <4>1, Joined
    <3>2. QED
      BY <1>11, <2>1, <3>1
  <2>3. /\ 2 * h + 1 + w + 1 = 2 * h + w + 2 /\ 2 * h + 1 + w + 2 = 2 * h + w + 3
        /\ 1 \in 1..2 /\ 2 \in 1..2
    BY <1>1
  <2>4. S = Z \o x
    BY DEF x
  <2> HIDE DEF S
  <2>5. QED
    BY <2>1, <2>2, <2>3, <2>4
<1>13. Symbols(f) = S
  BY <1>9 DEF Y, Z
<1> HIDE DEF S
<1>14. \A k \in 1..2 * h : S[k] = X[k]
  BY <1>1, <1>10, <1>11, <1>12
<1>15. \A i \in 1..h : S[2 * i - 1] = L[i] /\ S[2 * i] = NL
  BY <1>1, <1>2, <1>14
<1>16. S[2 * h + 1] = NL /\ \A i \in 1..w : S[2 * h + 1 + i] = V[i]
  <2>1. 2 * h + 1 \in 1..2 * h + 1 /\ 2 * h + 1 \in 1..2 * h + 1 + w
    BY <1>1
  <2>2. S[2 * h + 1] = NL
    BY <1>10, <1>11, <1>12, <2>1
  <2>3. ASSUME NEW i \in 1..w
        PROVE  S[2 * h + 1 + i] = V[i]
    <3>1. 2 * h + 1 + i \in 1..2 * h + 1 + w
      BY <1>1
    <3>2. QED
      BY <1>11, <1>12, <3>1
  <2>4. QED
    BY <2>2, <2>3
<1>17. Buffers(f) \in Seq(B) /\ Buffers(f) # <<>>
  BY <1>5, <1>9
<1>18. QED
  BY <1>1, <1>12, <1>13, <1>15, <1>16, <1>17 DEF L, V, B

-----------------------------------------------------------------------------
(* The frames there are. *)

\* A list is one of its own letters.
LEMMA OwnLetters ==
  ASSUME NEW S, NEW s \in Seq(S)
  PROVE  s \in Seq(ToSet(s))
<1>1. \A i \in 1..Len(s) : s[i] \in ToSet(s)
  BY DEF ToSet
<1>2. QED
  BY <1>1

\* What RepliesAreFrames says of a frame.
LEMMA RepliesFit ==
  ASSUME NEW f \in Replies
  PROVE  /\ IsFrame(f) /\ Letters(f) \subseteq Alphabet
         /\ f.command.kind = "text"
         /\ \A h \in ToSet(f.headers) : h.kind = "header"
         /\ \A c \in ToSet(f.body) : c.kind = "length" => c.n \in Nat
         /\ Written(f) \in Seq(Alphabet)
         /\ ~HasLength(f) => \A k \in 1..Len(Written(f)) : Written(f)[k] # NUL
         /\ HasLength(f) /\ ~HoldsEnd(f) =>
              \A k \in 2..Len(Written(f)) - 1 : ~(Written(f)[k] = NUL /\ Written(f)[k + 1] = NL)
<1>1. /\ f.command = Text(f.command.s)
      /\ f.table \in BOOLEAN
      /\ f.headers \in Seq({h \in ToSet(f.headers) : h.kind = "header"})
      /\ f.body \in Seq({c \in ToSet(f.body) : IsByte(c)})
      /\ f.body_length \in -1..Len(f.body)
      /\ ~HasLength(f) => \A k \in DOMAIN Written(f) : f.body[k] # NUL
  BY RepliesAreFrames
<1>2. f.headers \in Seq(ToSet(f.headers)) /\ f.body \in Seq(ToSet(f.body))
  BY <1>1, OwnLetters
<1>3. IsFrame(f)
  BY <1>1, <1>2 DEF IsFrame
<1>4. f.command.kind = "text"
  BY <1>1 DEF Text
<1>5. ASSUME NEW h \in ToSet(f.headers)
      PROVE  h.kind = "header"
  <2> DEFINE K == {x \in ToSet(f.headers) : x.kind = "header"}
  <2>1. PICK i \in DOMAIN f.headers : h = f.headers[i]
    BY DEF ToSet
  <2>2. f.headers \in Seq(K)
    BY <1>1
  <2>3. f.headers[i] \in K
    <3> HIDE DEF K
    <3>1. QED
      BY <2>2
  <2>4. QED
    BY <2>1, <2>3
<1>6. /\ Written(f) \in Seq(ToSet(f.body)) /\ Len(Written(f)) \in 0..Len(f.body)
      /\ \A i \in 1..Len(Written(f)) : Written(f)[i] = f.body[i]
  BY <1>3, WrittenIs
<1>7. Written(f) \in Seq(Alphabet)
  <2>1. ToSet(f.body) \subseteq Alphabet
    BY DEF Alphabet, Letters
  <2>2. QED
    BY <1>6, <2>1, SeqMonotonic
<1>8. DOMAIN Written(f) = 1..Len(Written(f))
  BY <1>7
<1>9. ~HasLength(f) => \A k \in 1..Len(Written(f)) : Written(f)[k] # NUL
  BY <1>1, <1>6, <1>8
<1>10. ASSUME HasLength(f), ~HoldsEnd(f), NEW k \in 2..Len(Written(f)) - 1
       PROVE  ~(Written(f)[k] = NUL /\ Written(f)[k + 1] = NL)
  <2>1. k \in 1..Len(Written(f)) /\ k + 1 \in 1..Len(Written(f))
    BY <1>6, <1>10
  <2>2. ~(f.body[k] = NUL /\ f.body[k + 1] = NL)
    BY <1>10 DEF HoldsEnd
  <2>3. QED
    BY <1>6, <2>1, <2>2
<1>11. Letters(f) \subseteq Alphabet
  BY DEF Alphabet
<1>12. ASSUME NEW c \in ToSet(f.body), c.kind = "length"
       PROVE  c.n \in Nat
  <2> DEFINE K == {x \in ToSet(f.body) : IsByte(x)}
  <2>1. PICK i \in DOMAIN f.body : c = f.body[i]
    BY DEF ToSet
  <2>2. f.body \in Seq(K)
    BY <1>1
  <2>3. f.body[i] \in K
    <3> HIDE DEF K
    <3>1. QED
      BY <2>2
  <2>4. IsByte(c)
    BY <2>1, <2>3
  <2>5. NUL.kind = "nul" /\ NL.kind = "nl"
    BY DEF NUL, NL
  <2>6. QED
    BY <1>12, <2>4, <2>5 DEF IsByte
<1>13. QED
  BY <1>3, <1>4, <1>5, <1>7, <1>9, <1>10, <1>11, <1>12

\* The frames of main are frames.
LEMMA PlainFits ==
  ASSUME NEW c, NEW S, NEW hs \in Seq(S), NEW T, NEW b \in Seq(T)
  PROVE  IsFrame(Plain(c, hs, b))
<1>1. hs \in Seq(ToSet(hs)) /\ b \in Seq(ToSet(b)) /\ -1 \in -1..Len(b)
  BY OwnLetters
<1>2. QED
  BY <1>1 DEF IsFrame, Plain

\* Their symbols are in the alphabet.
LEMMA MineFit ==
  ASSUME NEW f \in {CONNECT, SUB, SEND, DISCONNECT}
  PROVE  IsFrame(f) /\ Letters(f) \subseteq Alphabet
<1> DEFINE h1 == Header("login")
           h2 == Header("passcode")
           h3 == Header("destination")
           t1 == Text("This is the")
           t2 == Text(" message")
<1>1. <<h1, h2>> \in Seq({h1, h2}) /\ <<h3>> \in Seq({h3}) /\ <<t1, t2>> \in Seq({t1, t2})
      /\ <<>> \in Seq({h1})
  <2> HIDE DEF h1, h2, h3, t1, t2
  <2>1. QED
    OBVIOUS
<1>2. IsFrame(CONNECT)
  BY <1>1, PlainFits DEF CONNECT
<1>3. IsFrame(SUB)
  BY <1>1, PlainFits DEF SUB
<1>4. IsFrame(SEND)
  BY <1>1, PlainFits DEF SEND
<1>5. IsFrame(DISCONNECT)
  <2>1. IsFrame(Plain("DISCONNECT", <<>>, <<>>))
    BY <1>1, PlainFits
  <2>2. QED
    BY <2>1 DEF DISCONNECT, IsFrame, Plain
<1>6. Letters(f) \subseteq Alphabet
  BY DEF Alphabet
<1>7. QED
  BY <1>2, <1>3, <1>4, <1>5, <1>6

\* The program of ex6.
LEMMA MainIs ==
  /\ DOMAIN main = 1..7
  /\ \A i \in 1..7 :
       /\ main[i].op = "write" => /\ i < 7 /\ main[i] # Read /\ main[i] # Disconnect
                                  /\ main[i].frame \in {CONNECT, SUB, SEND, DISCONNECT}
       /\ main[i] = Read => i < 7 /\ main[i].op # "write" /\ main[i] # Disconnect
       /\ main[i] = Disconnect => main[i].op # "write" /\ main[i] # Read
<1>1. DOMAIN main = 1..7
  BY DEF main
<1>2. /\ main[1] = Write(CONNECT) /\ main[2] = Read /\ main[3] = Write(SUB)
      /\ main[4] = Write(SEND) /\ main[5] = Read /\ main[6] = Write(DISCONNECT)
      /\ main[7] = Disconnect
  BY DEF main
<1>3. Read.op = "read" /\ Disconnect.op = "disconnect"
  BY DEF Read, Disconnect
<1>4. \A f : Write(f).op = "write" /\ Write(f).frame = f
  BY DEF Write
<1>5. ASSUME NEW i \in 1..7
      PROVE  /\ main[i].op = "write" => i < 7 /\ main[i].frame \in {CONNECT, SUB, SEND, DISCONNECT}
             /\ main[i] = Read => i < 7
             /\ main[i] = Read => main[i].op = "read"
             /\ main[i] = Disconnect => main[i].op = "disconnect"
  <2>1. i \in {1, 2, 3, 4, 5, 6, 7}
    OBVIOUS
  <2>2. QED
    BY <1>2, <1>3, <1>4, <2>1
<1>6. QED
  BY <1>1, <1>3, <1>5
-----------------------------------------------------------------------------
(* What main has the broker sent. *)

Wrote(i) == IF main[i].op = "write" THEN Symbols(main[i].frame) ELSE <<>>

\* What an operation of main writes is in the alphabet.
LEMMA WroteType ==
  ASSUME NEW i \in 1..7
  PROVE  Wrote(i) \in Seq(Alphabet)
<1>1. CASE main[i].op = "write"
  <2> DEFINE f == main[i].frame
  <2>1. IsFrame(f) /\ Letters(f) \subseteq Alphabet
    BY <1>1, MainIs, MineFit
  <2> HIDE DEF f
  <2>2. Symbols(f) \in Seq(Alphabet)
    BY <2>1, Wire
  <2>3. QED
    BY <1>1, <2>2 DEF Wrote, f
<1>2. CASE main[i].op # "write"
  BY <1>2 DEF Wrote
<1>3. QED
  BY <1>1, <1>2

\* Each operation adds what it writes to the stream.
LEMMA StreamGrows ==
  /\ Stream(0) = <<>>
  /\ \A n \in 1..7 : /\ Stream(n) \in Seq(Alphabet) /\ Stream(n - 1) \in Seq(Alphabet)
                     /\ Stream(n) = Stream(n - 1) \o Wrote(n)
<1> DEFINE s(n) == [i \in 1..n |-> Wrote(i)]
<1>1. ASSUME NEW n \in 0..7
      PROVE  s(n) \in Seq(Seq(Alphabet)) /\ Len(s(n)) = n /\ \A i \in 1..n : s(n)[i] = Wrote(i)
  <2>1. \A i \in 1..n : Wrote(i) \in Seq(Alphabet)
    BY WroteType
  <2>2. QED
    BY <2>1
<1>2. \A n : Stream(n) = FlattenSeq(s(n))
  BY DEF Stream, Wrote
<1>3. s(0) = <<>>
  OBVIOUS
<1>4. Stream(0) = <<>>
  <2> HIDE DEF s
  <2>1. QED
    BY <1>2, <1>3, FlattenEmpty
<1>5. ASSUME NEW n \in 1..7
      PROVE  /\ Stream(n) \in Seq(Alphabet) /\ Stream(n - 1) \in Seq(Alphabet)
             /\ Stream(n) = Stream(n - 1) \o Wrote(n)
  <2> DEFINE p == s(n - 1)
             q == s(n)
  <2>1. /\ p \in Seq(Seq(Alphabet)) /\ q \in Seq(Seq(Alphabet)) /\ Len(q) = Len(p) + 1
        /\ Len(q) = n /\ q[n] = Wrote(n) /\ \A i \in 1..Len(p) : q[i] = p[i]
    <3> HIDE DEF s
    <3>1. n - 1 \in 0..7 /\ n \in 0..7 /\ n \in 1..n
      OBVIOUS
    <3>2. p \in Seq(Seq(Alphabet)) /\ Len(p) = n - 1 /\ \A i \in 1..n - 1 : p[i] = Wrote(i)
      BY <1>1, <3>1
    <3>3. q \in Seq(Seq(Alphabet)) /\ Len(q) = n /\ \A i \in 1..n : q[i] = Wrote(i)
      BY <1>1, <3>1
    <3>4. QED
      BY <3>1, <3>2, <3>3
  <2>2. Stream(n) = FlattenSeq(q) /\ Stream(n - 1) = FlattenSeq(p)
    BY <1>2
  <2> HIDE DEF p, q
  <2>3. FlattenSeq(p) \in Seq(Alphabet) /\ FlattenSeq(q) \in Seq(Alphabet)
    BY <2>1, FlattenType
  <2>4. FlattenSeq(q) = FlattenSeq(p) \o q[Len(q)]
    BY <2>1, FlattenGrow
  <2>5. QED
    BY <2>1, <2>2, <2>3, <2>4
<1>6. QED
  BY <1>4, <1>5
-----------------------------------------------------------------------------
(* What the broker has begun to send, and what of it is to come. *)

SaidOf(r, n) == FlattenSeq([i \in 1..n |-> Symbols(r[i])])

\* A reply is in the alphabet.
LEMMA SymbolsType ==
  ASSUME NEW f \in Replies
  PROVE  Symbols(f) \in Seq(Alphabet)
  BY RepliesFit, Wire

\* Each reply adds its symbols to what has been said.
LEMMA SaidGrows ==
  ASSUME NEW r \in Seq(Replies)
  PROVE  /\ SaidOf(r, 0) = <<>>
         /\ \A n \in 0..Len(r) : SaidOf(r, n) \in Seq(Alphabet)
         /\ \A n \in 1..Len(r) : SaidOf(r, n) = SaidOf(r, n - 1) \o Symbols(r[n])
<1> DEFINE s(n) == [i \in 1..n |-> Symbols(r[i])]
<1>1. ASSUME NEW n \in 0..Len(r)
      PROVE  /\ s(n) \in Seq(Seq(Alphabet)) /\ Len(s(n)) = n
             /\ \A i \in 1..n : s(n)[i] = Symbols(r[i])
  <2>1. \A i \in 1..n : r[i] \in Replies
    OBVIOUS
  <2>2. \A i \in 1..n : Symbols(r[i]) \in Seq(Alphabet)
    BY <2>1, SymbolsType
  <2>3. QED
    BY <2>2
<1>2. \A n : SaidOf(r, n) = FlattenSeq(s(n))
  BY DEF SaidOf
<1>3. s(0) = <<>>
  OBVIOUS
<1> HIDE DEF s
<1>4. SaidOf(r, 0) = <<>>
  BY <1>2, <1>3, FlattenEmpty
<1>5. ASSUME NEW n \in 0..Len(r)
      PROVE  SaidOf(r, n) \in Seq(Alphabet)
  BY <1>1, <1>2, FlattenType
<1>6. ASSUME NEW n \in 1..Len(r)
      PROVE  SaidOf(r, n) = SaidOf(r, n - 1) \o Symbols(r[n])
  <2> DEFINE p == s(n - 1)
             q == s(n)
  <2>1. /\ p \in Seq(Seq(Alphabet)) /\ q \in Seq(Seq(Alphabet)) /\ Len(q) = Len(p) + 1
        /\ Len(q) = n /\ q[n] = Symbols(r[n]) /\ \A i \in 1..Len(p) : q[i] = p[i]
    <3>1. n - 1 \in 0..Len(r) /\ n \in 0..Len(r) /\ n \in 1..n
      OBVIOUS
    <3>2. p \in Seq(Seq(Alphabet)) /\ Len(p) = n - 1 /\ \A i \in 1..n - 1 : p[i] = Symbols(r[i])
      BY <1>1, <3>1
    <3>3. q \in Seq(Seq(Alphabet)) /\ Len(q) = n /\ \A i \in 1..n : q[i] = Symbols(r[i])
      BY <1>1, <3>1
    <3>4. QED
      BY <3>1, <3>2, <3>3
  <2>2. SaidOf(r, n) = FlattenSeq(q) /\ SaidOf(r, n - 1) = FlattenSeq(p)
    BY <1>2
  <2> HIDE DEF p, q
  <2>3. FlattenSeq(q) = FlattenSeq(p) \o q[Len(q)]
    BY <2>1, FlattenGrow
  <2>4. QED
    BY <2>1, <2>2, <2>3
<1>7. QED
  BY <1>4, <1>5, <1>6

\* Frame i stands in it behind the frames before it.
LEMMA SaidPlace ==
  ASSUME NEW r \in Seq(Replies), NEW i \in 1..Len(r)
  PROVE  LET S == SaidOf(r, Len(r))
             b == Len(SaidOf(r, i - 1))
         IN  /\ b \in Nat
             /\ Len(SaidOf(r, i)) = b + Len(Symbols(r[i]))
             /\ Len(SaidOf(r, i)) <= Len(S)
             /\ \A p \in 1..Len(Symbols(r[i])) : S[b + p] = Symbols(r[i])[p]
<1> DEFINE b == Len(SaidOf(r, i - 1))
           m == Len(SaidOf(r, i))
           f == r[i]
           W(n) == SaidOf(r, n)
           Good(n) == m <= Len(W(n)) /\ \A p \in 1..Len(Symbols(f)) : W(n)[b + p] = Symbols(f)[p]
           Bad == {n \in i..Len(r) : ~Good(n)}
<1>1. f \in Replies /\ i - 1 \in 0..Len(r) /\ i \in 0..Len(r) /\ i \in Nat /\ Len(r) \in Nat
  OBVIOUS
<1>2. Symbols(f) \in Seq(Alphabet)
  BY <1>1, SymbolsType
<1>3. Good(i) /\ b \in Nat /\ m = b + Len(Symbols(f)) /\ m \in Nat
  <2> DEFINE u == SaidOf(r, i - 1)
             v == Symbols(f)
  <2>1. u \in Seq(Alphabet) /\ v \in Seq(Alphabet)
    BY <1>1, <1>2, SaidGrows
  <2>2. W(i) = u \o v
    BY SaidGrows
  <2> HIDE DEF u, v, f
  <2>3. /\ u \o v \in Seq(Alphabet) /\ Len(u \o v) = Len(u) + Len(v)
        /\ Len(u) \in Nat /\ Len(v) \in Nat
        /\ \A k \in 1..Len(u) : (u \o v)[k] = u[k]
        /\ \A k \in 1..Len(v) : (u \o v)[Len(u) + k] = v[k]
    BY <2>1, Joined
  <2>4. m = Len(u) + Len(v) /\ b = Len(u) /\ Symbols(f) = v
    BY <2>2, <2>3 DEF u, v
  <2> HIDE DEF m, b
  <2>5. QED
    BY <2>2, <2>3, <2>4
<1> HIDE DEF m, b, f
<1>4. ASSUME NEW n \in i + 1..Len(r), Good(n - 1)
      PROVE  Good(n)
  <2> DEFINE u == W(n - 1)
             v == Symbols(r[n])
  <2>1. n \in 1..Len(r) /\ n - 1 \in 0..Len(r) /\ r[n] \in Replies
    BY <1>1
  <2>2. u \in Seq(Alphabet) /\ v \in Seq(Alphabet)
    BY <2>1, SaidGrows, SymbolsType
  <2>3. W(n) = u \o v
    BY <2>1, SaidGrows
  <2>4. m <= Len(u) /\ \A p \in 1..Len(Symbols(f)) : u[b + p] = Symbols(f)[p]
    BY <1>4
  <2> HIDE DEF u, v
  <2>5. /\ Len(u \o v) = Len(u) + Len(v) /\ Len(u) \in Nat /\ Len(v) \in Nat
        /\ \A k \in 1..Len(u) : (u \o v)[k] = u[k]
    BY <2>2, Joined
  <2>6. Len(Symbols(f)) \in Nat
    BY <1>2
  <2>7. \A p \in 1..Len(Symbols(f)) : b + p \in 1..Len(u)
    BY <1>3, <2>4, <2>5, <2>6
  <2> HIDE DEF W
  <2>8. QED
    BY <1>3, <2>3, <2>4, <2>5, <2>7
<1>5. ASSUME Bad # {}
      PROVE  FALSE
  <2> HIDE DEF Good
  <2>1. Bad \in SUBSET Nat
    BY <1>1
  <2>2. PICK n \in Bad : \A k \in Bad : n <= k
    <3> HIDE DEF Bad
    <3>1. QED
      BY <1>5, <2>1, LeastOf
  <2>3. n \in i..Len(r) /\ ~Good(n)
    OBVIOUS
  <2>4. CASE n = i
    BY <1>3, <2>3, <2>4
  <2>5. CASE n # i
    <3>1. n \in i + 1..Len(r) /\ n - 1 \in i..Len(r) /\ ~(n <= n - 1)
      BY <1>1, <2>3, <2>5
    <3>2. Good(n - 1)
      BY <2>2, <3>1
    <3>3. QED
      BY <1>4, <2>3, <3>1, <3>2
  <2>6. QED
    BY <2>4, <2>5
<1>6. Good(Len(r))
  <2>1. Len(r) \in i..Len(r)
    BY <1>1
  <2> HIDE DEF Good
  <2>2. QED
    BY <1>5, <2>1
<1>7. QED
  BY <1>3, <1>6 DEF b, m, f

\* Another frame changes nothing of what is before it.
LEMMA SaidSame ==
  ASSUME NEW r \in Seq(Replies), NEW f \in Replies, NEW n \in 0..Len(r)
  PROVE  SaidOf(Append(r, f), n) = SaidOf(r, n)
<1> DEFINE q == Append(r, f)
<1>1. \A i \in 1..n : q[i] = r[i]
  OBVIOUS
<1> HIDE DEF q
<1>2. [i \in 1..n |-> Symbols(q[i])] = [i \in 1..n |-> Symbols(r[i])]
  BY <1>1
<1>3. SaidOf(q, n) = SaidOf(r, n)
  BY <1>2 DEF SaidOf
<1>4. QED
  BY <1>3 DEF q
-----------------------------------------------------------------------------
(* What is fed to the reader: d has arrived, q is still to come unless c, all of it *)
(* behind the first P symbols of S.                                                 *)

FedOf(S, d, P, q, c) ==
  /\ d \in Seq(Alphabet)
  /\ P + Len(d) <= Len(S)
  /\ d = SubSeq(S, P + 1, P + Len(d))
  /\ ~c => q = SubSeq(S, P + Len(d) + 1, Len(S))

\* Of a part, its length and elements.
LEMMA Part ==
  ASSUME NEW A, NEW S \in Seq(A), NEW m \in Nat, NEW n \in Nat, m <= n, n <= Len(S)
  PROVE  /\ SubSeq(S, m + 1, n) \in Seq(A) /\ Len(SubSeq(S, m + 1, n)) = n - m
         /\ \A k \in 1..n - m : SubSeq(S, m + 1, n)[k] = S[m + k]
  OBVIOUS

\* It is the part with these elements.
LEMMA IsPart ==
  ASSUME NEW A, NEW S \in Seq(A), NEW m \in Nat, NEW n \in Nat, m <= n, n <= Len(S),
         NEW d \in Seq(A), Len(d) = n - m, \A k \in 1..n - m : d[k] = S[m + k]
  PROVE  d = SubSeq(S, m + 1, n)
<1> DEFINE e == SubSeq(S, m + 1, n)
<1>1. e \in Seq(A) /\ Len(e) = n - m /\ \A k \in 1..n - m : e[k] = S[m + k]
  BY Part
<1> HIDE DEF e
<1>2. Len(d) = Len(e) /\ \A k \in 1..Len(d) : d[k] = e[k]
  BY <1>1
<1>3. d = e
  BY <1>1, <1>2, SeqEqual
<1>4. QED
  BY <1>3 DEF e

\* What Fed says of each symbol.
LEMMA FedReads ==
  ASSUME NEW S \in Seq(Alphabet), NEW d, NEW P \in Nat, NEW q, NEW c, FedOf(S, d, P, q, c)
  PROVE  /\ d \in Seq(Alphabet) /\ Len(d) \in Nat /\ P + Len(d) <= Len(S)
         /\ \A k \in 1..Len(d) : d[k] = S[P + k]
         /\ ~c => /\ q \in Seq(Alphabet) /\ Len(q) = Len(S) - P - Len(d)
                  /\ \A k \in 1..Len(q) : q[k] = S[P + Len(d) + k]
<1>1. /\ d \in Seq(Alphabet) /\ P + Len(d) <= Len(S)
      /\ d = SubSeq(S, P + 1, P + Len(d))
      /\ ~c => q = SubSeq(S, P + Len(d) + 1, Len(S))
  BY DEF FedOf
<1> DEFINE n == P + Len(d)
<1>2. Len(d) \in Nat /\ n \in Nat /\ P <= n /\ n <= Len(S) /\ n - P = Len(d) /\ Len(S) \in Nat
      /\ Len(S) <= Len(S)
  BY <1>1
<1>3. d = SubSeq(S, P + 1, n) /\ (~c => q = SubSeq(S, n + 1, Len(S)))
  BY <1>1
<1> HIDE DEF n
<1>4. \A k \in 1..n - P : SubSeq(S, P + 1, n)[k] = S[P + k]
  BY <1>2, Part
<1> DEFINE N == Len(S)
           r == SubSeq(S, n + 1, N)
<1>5. r \in Seq(Alphabet) /\ Len(r) = N - n /\ \A k \in 1..N - n : r[k] = S[n + k]
  <2>1. N \in Nat /\ n <= N /\ N <= Len(S)
    BY <1>2
  <2> HIDE DEF N
  <2>2. QED
    BY <1>2, <2>1, Part
<1> HIDE DEF r
<1>6. ~c => q = r
  BY <1>3 DEF r
<1>7. N - n = Len(S) - P - Len(d) /\ n = P + Len(d)
  BY <1>2 DEF n
<1>8. \A k \in 1..Len(d) : d[k] = S[P + k]
  BY <1>2, <1>3, <1>4
<1>9. QED
  BY <1>1, <1>2, <1>5, <1>6, <1>7, <1>8

\* And what is enough for it.
LEMMA IsFed ==
  ASSUME NEW S \in Seq(Alphabet), NEW d \in Seq(Alphabet), NEW P \in Nat, NEW q, NEW c,
         P + Len(d) <= Len(S), \A k \in 1..Len(d) : d[k] = S[P + k],
         ~c => /\ q \in Seq(Alphabet) /\ Len(q) = Len(S) - P - Len(d)
               /\ \A k \in 1..Len(q) : q[k] = S[P + Len(d) + k]
  PROVE  FedOf(S, d, P, q, c)
<1> DEFINE n == P + Len(d)
           N == Len(S)
<1>1. Len(d) \in Nat /\ n \in Nat /\ P <= n /\ n <= N /\ n - P = Len(d) /\ N \in Nat
      /\ N <= Len(S) /\ n <= Len(S) /\ n = P + Len(d)
  OBVIOUS
<1>2. ~c => /\ q \in Seq(Alphabet) /\ Len(q) = N - n
            /\ \A k \in 1..N - n : q[k] = S[n + k]
  BY <1>1
<1> HIDE DEF n, N
<1>3. \A k \in 1..n - P : d[k] = S[P + k]
  BY <1>1
<1>4. d = SubSeq(S, P + 1, n)
  BY <1>1, <1>3, IsPart
<1>5. ~c => q = SubSeq(S, n + 1, N)
  BY <1>1, <1>2, IsPart
<1>6. QED
  BY <1>1, <1>4, <1>5 DEF FedOf, n, N

\* m symbols are received.
LEMMA FedOn ==
  ASSUME NEW S \in Seq(Alphabet), NEW d, NEW P \in Nat, NEW q, NEW c, FedOf(S, d, P, q, c),
         NEW m \in 0..Len(d)
  PROVE  FedOf(S, SubSeq(d, m + 1, Len(d)), P + m, q, c)
<1> DEFINE e == SubSeq(d, m + 1, Len(d))
           Q == P + m
           n == Len(d)
<1>1. /\ d \in Seq(Alphabet) /\ n \in Nat /\ P + n <= Len(S)
      /\ \A k \in 1..n : d[k] = S[P + k]
      /\ ~c => /\ q \in Seq(Alphabet) /\ Len(q) = Len(S) - P - n
               /\ \A k \in 1..Len(q) : q[k] = S[P + n + k]
  BY FedReads
<1>2. e \in Seq(Alphabet) /\ Len(e) = n - m /\ \A k \in 1..n - m : e[k] = d[m + k]
  <2>1. m \in Nat /\ m <= n /\ n <= Len(d) /\ n \in Nat
    BY <1>1
  <2>2. e = SubSeq(d, m + 1, n)
    OBVIOUS
  <2> HIDE DEF n, e
  <2>3. QED
    BY <1>1, <2>1, <2>2, Part
<1> HIDE DEF e
<1>3. Q \in Nat /\ Q + Len(e) = P + n /\ Len(S) \in Nat
  BY <1>1, <1>2
<1>4. \A k \in 1..Len(e) : e[k] = S[Q + k]
  <2>1. SUFFICES ASSUME NEW k \in 1..Len(e)
                 PROVE  e[k] = S[Q + k]
    OBVIOUS
  <2>2. m + k \in 1..n /\ k \in 1..n - m /\ P + (m + k) = Q + k
    BY <1>1, <1>2
  <2>3. QED
    BY <1>1, <1>2, <2>2
<1>5. ~c => /\ q \in Seq(Alphabet) /\ Len(q) = Len(S) - Q - Len(e)
            /\ \A k \in 1..Len(q) : q[k] = S[Q + Len(e) + k]
  BY <1>1, <1>2, <1>3
<1> HIDE DEF Q, n
<1>6. FedOf(S, e, Q, q, c)
  BY <1>1, <1>2, <1>3, <1>4, <1>5, IsFed
<1>7. QED
  BY <1>6 DEF e, Q

\* k more arrive.
LEMMA FedMore ==
  ASSUME NEW S \in Seq(Alphabet), NEW d, NEW P \in Nat, NEW q, NEW c, FedOf(S, d, P, q, c), ~c,
         NEW k \in 1..Len(q)
  PROVE  FedOf(S, d \o SubSeq(q, 1, k), P, SubSeq(q, k + 1, Len(q)), c)
<1>1. /\ d \in Seq(Alphabet) /\ Len(d) \in Nat /\ P + Len(d) <= Len(S)
      /\ \A i \in 1..Len(d) : d[i] = S[P + i]
      /\ q \in Seq(Alphabet) /\ Len(q) = Len(S) - P - Len(d)
      /\ \A i \in 1..Len(q) : q[i] = S[P + Len(d) + i]
  BY FedReads
<1> DEFINE u == SubSeq(q, 1, k)
           v == SubSeq(q, k + 1, Len(q))
           e == d \o u
<1>2. /\ u \in Seq(Alphabet) /\ Len(u) = k /\ \A i \in 1..k : u[i] = q[i]
      /\ v \in Seq(Alphabet) /\ Len(v) = Len(q) - k /\ \A i \in 1..Len(q) - k : v[i] = q[k + i]
  BY <1>1
<1> HIDE DEF u, v
<1>3. /\ e \in Seq(Alphabet) /\ Len(e) = Len(d) + k
      /\ \A i \in 1..Len(d) : e[i] = d[i]
      /\ \A i \in 1..Len(u) : e[Len(d) + i] = u[i]
  <2>1. u \in Seq(Alphabet) /\ d \in Seq(Alphabet)
    BY <1>1, <1>2
  <2>2. /\ e \in Seq(Alphabet) /\ Len(e) = Len(d) + Len(u)
        /\ \A i \in 1..Len(d) : e[i] = d[i]
        /\ \A i \in 1..Len(u) : e[Len(d) + i] = u[i]
    BY <2>1, Joined
  <2> HIDE DEF e
  <2>3. QED
    BY <1>2, <2>2
<1> HIDE DEF e
<1>4. P + Len(e) <= Len(S) /\ Len(S) \in Nat /\ k \in Nat
  BY <1>1, <1>3
<1>5. ASSUME NEW i \in 1..Len(e)
      PROVE  e[i] = S[P + i]
  <2>1. CASE i <= Len(d)
    <3>1. i \in 1..Len(d)
      BY <1>1, <2>1
    <3>2. QED
      BY <1>1, <1>3, <3>1
  <2>2. CASE i > Len(d)
    <3>1. i - Len(d) \in 1..k /\ i - Len(d) \in 1..Len(q) /\ i = Len(d) + (i - Len(d))
          /\ P + Len(d) + (i - Len(d)) = P + i
      BY <1>1, <1>3, <2>2
    <3>2. e[i] = u[i - Len(d)] /\ u[i - Len(d)] = q[i - Len(d)]
      BY <1>2, <1>3, <3>1
    <3>3. q[i - Len(d)] = S[P + i]
      BY <1>1, <3>1
    <3>4. QED
      BY <3>2, <3>3
  <2>3. QED
    BY <1>1, <1>3, <2>1, <2>2
<1>6. Len(v) = Len(S) - P - Len(e)
  BY <1>1, <1>2, <1>3, <1>4
<1>7. ASSUME NEW i \in 1..Len(v)
      PROVE  v[i] = S[P + Len(e) + i]
  <2>1. i \in 1..Len(q) - k /\ k + i \in 1..Len(q) /\ P + Len(d) + (k + i) = P + Len(e) + i
    BY <1>1, <1>2, <1>3
  <2>2. v[i] = q[k + i] /\ q[k + i] = S[P + Len(d) + (k + i)]
    BY <1>1, <1>2, <2>1
  <2>3. QED
    BY <2>1, <2>2
<1>8. FedOf(S, e, P, v, c)
  BY <1>2, <1>3, <1>4, <1>5, <1>6, <1>7, IsFed
<1>9. QED
  BY <1>8 DEF e, u, v

\* A frame more is begun.
LEMMA FedLonger ==
  ASSUME NEW S \in Seq(Alphabet), NEW d, NEW P \in Nat, NEW q, NEW c, FedOf(S, d, P, q, c), ~c,
         NEW T \in Seq(Alphabet)
  PROVE  FedOf(S \o T, d, P, q \o T, c)
<1>1. /\ d \in Seq(Alphabet) /\ Len(d) \in Nat /\ P + Len(d) <= Len(S)
      /\ \A i \in 1..Len(d) : d[i] = S[P + i]
      /\ q \in Seq(Alphabet) /\ Len(q) = Len(S) - P - Len(d)
      /\ \A i \in 1..Len(q) : q[i] = S[P + Len(d) + i]
  BY FedReads
<1> DEFINE U == S \o T
           v == q \o T
<1>2. /\ U \in Seq(Alphabet) /\ Len(U) = Len(S) + Len(T)
      /\ Len(S) \in Nat /\ Len(T) \in Nat
      /\ \A i \in 1..Len(S) : U[i] = S[i]
      /\ \A i \in 1..Len(T) : U[Len(S) + i] = T[i]
  BY Joined
<1>3. /\ v \in Seq(Alphabet) /\ Len(v) = Len(q) + Len(T)
      /\ \A i \in 1..Len(q) : v[i] = q[i]
      /\ \A i \in 1..Len(T) : v[Len(q) + i] = T[i]
  <2>1. q \in Seq(Alphabet)
    BY <1>1
  <2>2. QED
    BY <2>1, Joined
<1> HIDE DEF U, v
<1>4. P + Len(d) <= Len(U) /\ Len(v) = Len(U) - P - Len(d)
  BY <1>1, <1>2, <1>3
<1>5. ASSUME NEW i \in 1..Len(d)
      PROVE  d[i] = U[P + i]
  <2>1. P + i \in 1..Len(S)
    BY <1>1, <1>2
  <2>2. QED
    BY <1>1, <1>2, <2>1
<1>6. ASSUME NEW i \in 1..Len(v)
      PROVE  v[i] = U[P + Len(d) + i]
  <2>1. CASE i <= Len(q)
    <3>1. i \in 1..Len(q) /\ P + Len(d) + i \in 1..Len(S)
      BY <1>1, <1>2, <2>1
    <3>2. QED
      BY <1>1, <1>2, <1>3, <3>1
  <2>2. CASE i > Len(q)
    <3>1. i - Len(q) \in 1..Len(T) /\ i = Len(q) + (i - Len(q))
          /\ P + Len(d) + i = Len(S) + (i - Len(q))
      BY <1>1, <1>2, <1>3, <2>2
    <3>2. v[i] = T[i - Len(q)]
      BY <1>3, <3>1
    <3>3. U[P + Len(d) + i] = T[i - Len(q)]
      BY <1>2, <3>1
    <3>4. QED
      BY <3>2, <3>3
  <2>3. QED
    BY <1>1, <1>2, <1>3, <2>1, <2>2
<1>7. FedOf(U, d, P, v, c)
  BY <1>1, <1>2, <1>3, <1>4, <1>5, <1>6, IsFed
<1>8. QED
  BY <1>7 DEF U, v

\* The connection is over: what has arrived is still there, or is lost.
LEMMA FedNoMore ==
  ASSUME NEW S \in Seq(Alphabet), NEW d, NEW P \in Nat, NEW q, NEW c, FedOf(S, d, P, q, c),
         NEW e \in {d, <<>>}, NEW r
  PROVE  FedOf(S, e, P, r, TRUE)
<1>1. /\ d \in Seq(Alphabet) /\ Len(d) \in Nat /\ P + Len(d) <= Len(S)
      /\ \A i \in 1..Len(d) : d[i] = S[P + i]
  BY FedReads
<1>2. /\ e \in Seq(Alphabet) /\ P + Len(e) <= Len(S)
      /\ \A i \in 1..Len(e) : e[i] = S[P + i]
  <2>1. CASE e = d
    BY <1>1, <2>1
  <2>2. CASE e = <<>>
    <3>1. Len(S) \in Nat
      OBVIOUS
    <3>2. QED
      BY <1>1, <2>2, <3>1
  <2>3. QED
    BY <2>1, <2>2
<1>3. QED
  BY <1>2, IsFed
-----------------------------------------------------------------------------
(* The reader. *)

\* Where the parts of a reply are, and what it can be told by.
LEMMA ReplyWire ==
  ASSUME NEW f \in Replies
  PROVE  LET S == Symbols(f)
             h == Len(HeadLines(f))
             w == Len(Written(f))
         IN  /\ h \in Nat \ {0} /\ w \in Nat
             /\ Len(S) = 2 * h + w + 3
             /\ \A i \in 1..h : S[2 * i - 1] = HeadLines(f)[i] /\ S[2 * i] = NL
             /\ S[2 * h + 1] = NL
             /\ \A i \in 1..w : S[2 * h + 1 + i] = Written(f)[i]
             /\ S[2 * h + w + 2] = NUL
             /\ S[2 * h + w + 3] = NL
<1>1. IsFrame(f) /\ Letters(f) \subseteq Alphabet
  BY RepliesFit
<1> DEFINE S == Symbols(f)
           h == Len(HeadLines(f))
           w == Len(Written(f))
<1>2. /\ Buffers(f) \in Seq(Seq(Alphabet) \ {<<>>}) /\ Buffers(f) # <<>>
      /\ S \in Seq(Alphabet) /\ h \in Nat \ {0} /\ w \in Nat
      /\ Len(S) = 2 * h + w + 3
      /\ \A i \in 1..h : S[2 * i - 1] = HeadLines(f)[i] /\ S[2 * i] = NL
      /\ S[2 * h + 1] = NL
      /\ \A i \in 1..w : S[2 * h + 1 + i] = Written(f)[i]
      /\ S[2 * h + w + 2] = NUL
      /\ S[2 * h + w + 3] = NL
  BY <1>1, Wire
<1>3. QED
  BY <1>2

\* No line of a frame is a NUL or a line feed; all but the first have a colon.
LEMMA ReplyLines ==
  ASSUME NEW f \in Replies
  PROVE  /\ HeadLines(f)[1] = f.command
         /\ \A i \in 1..Len(HeadLines(f)) : HeadLines(f)[i] # NL /\ HeadLines(f)[i] # NUL
         /\ \A i \in 2..Len(HeadLines(f)) :
              /\ HasColon(HeadLines(f)[i])
              /\ HeadLines(f)[i].kind = "length" <=> HasLength(f) /\ i = Len(HeadLines(f))
              /\ HeadLines(f)[i].kind = "length" => HeadLines(f)[i].n = f.body_length
         /\ HasLength(f) => Len(HeadLines(f)) > 1
         /\ HasLength(f) => f.body_length = Len(Written(f)) /\ f.body_length \in Nat
         /\ f.body_length \in Int
<1> DEFINE L == HeadLines(f)
           c == ContentLength(f.body_length)
<1>1. /\ IsFrame(f) /\ f.command.kind = "text"
      /\ \A x \in ToSet(f.headers) : x.kind = "header"
  BY RepliesFit
<1>2. /\ Len(L) \in Nat \ {0} /\ L[1] = f.command
      /\ \A i \in 2..Len(L) : IF HasLength(f) /\ i = Len(L) THEN L[i] = c
                                                          ELSE L[i] \in ToSet(f.headers)
      /\ HasLength(f) => Len(L) > 1
  BY <1>1, HeadLinesAre
<1>3. c.kind = "length" /\ c.n = f.body_length /\ NL.kind = "nl" /\ NUL.kind = "nul"
  BY DEF ContentLength, NL, NUL
<1>4. /\ HasLength(f) => f.body_length = Len(Written(f)) /\ f.body_length \in Nat
      /\ f.body_length \in Int
  BY <1>1, WrittenIs DEF IsFrame, HasLength
<1> HIDE DEF L, c
<1>5. ASSUME NEW i \in 2..Len(L)
      PROVE  /\ L[i].kind \in {"header", "length"}
             /\ L[i].kind = "length" <=> HasLength(f) /\ i = Len(L)
             /\ L[i].kind = "length" => L[i].n = f.body_length
  <2>1. CASE HasLength(f) /\ i = Len(L)
    BY <1>2, <1>3, <2>1
  <2>2. CASE ~(HasLength(f) /\ i = Len(L))
    BY <1>1, <1>2, <2>2
  <2>3. QED
    BY <2>1, <2>2
<1>6. ASSUME NEW i \in 1..Len(L)
      PROVE  L[i].kind \in {"text", "header", "length"}
  <2>1. CASE i = 1
    BY <1>1, <1>2, <2>1
  <2>2. CASE i # 1
    <3>1. i \in 2..Len(L)
      BY <1>2, <2>2
    <3>2. QED
      BY <1>5, <3>1
  <2>3. QED
    BY <2>1, <2>2
<1>7. ASSUME NEW i \in 1..Len(L)
      PROVE  L[i] # NL /\ L[i] # NUL
  BY <1>3, <1>6
<1>8. QED
  BY <1>2, <1>4, <1>5, <1>7 DEF L, HasColon

\* The reader is at place p of frame f, b symbols having come before it.
Facing(f, p, b) ==
  /\ f \in Replies
  /\ Len(got) < Len(replied)
  /\ f = replied[Len(got) + 1]
  /\ b = Len(SaidOf(replied, Len(got)))
  /\ p \in 0..Len(Symbols(f)) - 1
  /\ AtPlace(f, p)
  /\ Fed(b + p)

\* The place that each point of stomp_read is at.
LEMMA AtPlaceIs ==
  ASSUME NEW f, NEW p, AtPlace(f, p)
  PROVE  /\ at = "command" => /\ cur = NoFrame
                              /\ (p = 0 /\ line = <<>>) \/ (p = 1 /\ line = <<f.command>>)
         /\ at = "header" =>
              \E k \in 1..Len(HeadLines(f)) :
                /\ \/ p = 2 * k /\ line = <<>>
                   \/ /\ p = 2 * k + 1 /\ k < Len(HeadLines(f))
                      /\ line = <<HeadLines(f)[k + 1]>>
                /\ ReadOf(f, cur, LengthAfter(f, k), 0)
         /\ at = "length" =>
              /\ HasLength(f) /\ p = 2 * Len(HeadLines(f)) + 1
              /\ ReadOf(f, cur, f.body_length, 0)
         /\ at = "tail" =>
              /\ HasLength(f)
              /\ \E n \in 0..Len(Written(f)) : /\ n = 0 => Written(f) = <<>>
                                               /\ p = 2 * Len(HeadLines(f)) + 1 + n
                                               /\ ReadOf(f, cur, f.body_length, n)
         /\ at = "body" =>
              /\ ~HasLength(f)
              /\ \E n \in 0..Len(Written(f)) : /\ p = 2 * Len(HeadLines(f)) + 1 + n
                                               /\ ReadOf(f, cur, -1, n)
         /\ at = "endline" =>
              /\ ~HasLength(f) /\ p = 2 * Len(HeadLines(f)) + 2 + Len(Written(f))
              /\ ReadOf(f, cur, -1, Len(Written(f)))
  BY Zenon DEF AtPlace

\* Fed is FedOf of the variables.
LEMMA FedIs ==
  ASSUME NEW P
  PROVE  /\ Fed(P) <=> FedOf(SaidOf(replied, Len(replied)), down, P, pending, closed)
         /\ Fed(P)' <=> FedOf(SaidOf(replied', Len(replied')), down', P, pending', closed')
  BY DEF Fed, FedOf, Said, SaidOf

\* What Returned says, with the types.
LEMMA Returning ==
  ASSUME Base, Follows
  PROVE  /\ replied \in Seq(Replies) /\ Len(got) \in Nat /\ Len(got) <= Len(replied)
         /\ got \in Seq({Content(f) : f \in Replies})
         /\ \A i \in 1..Len(got) : got[i] = Content(replied[i])
<1>1. /\ replied \in Seq(Replies) /\ got \in Seq({Content(f) : f \in Replies})
      /\ Len(got) <= Len(replied) /\ \A i \in 1..Len(got) : got[i] = Content(replied[i])
  BY DEF Base, TypeOK, Follows, Returned
<1> DEFINE C == {Content(f) : f \in Replies}
<1>2. got \in Seq(C)
  BY <1>1
<1> HIDE DEF C
<1>3. Len(got) \in Nat
  BY <1>2
<1>4. QED
  BY <1>1, <1>3

\* The last symbol of the frame is yet to be read.
LEMMA PlaceBound ==
  ASSUME NEW f \in Replies, NEW p \in Nat, AtPlace(f, p), at \in Reading \cup {"endline"}
  PROVE  p <= 2 * Len(HeadLines(f)) + Len(Written(f)) + 2
<1> DEFINE h == Len(HeadLines(f))
           w == Len(Written(f))
<1>1. h \in Nat \ {0} /\ w \in Nat
  BY ReplyWire
<1>2. at = "command" => p <= 1
  BY AtPlaceIs
<1>3. at = "header" => p <= 2 * h
  <2>1. SUFFICES ASSUME at = "header"
                 PROVE  p <= 2 * h
    OBVIOUS
  <2>2. \E k \in 1..Len(HeadLines(f)) : p = 2 * k \/ (p = 2 * k + 1 /\ k < Len(HeadLines(f)))
    BY <2>1, AtPlaceIs
  <2>3. \E k \in 1..h : p = 2 * k \/ (p = 2 * k + 1 /\ k < h)
    BY <2>2
  <2> HIDE DEF h
  <2>4. QED
    BY <1>1, <2>3
<1>4. at = "length" => p = 2 * h + 1
  BY AtPlaceIs
<1>5. at = "tail" => \E n \in 0..w : p = 2 * h + 1 + n
  BY AtPlaceIs
<1>6. at = "body" => \E n \in 0..w : p = 2 * h + 1 + n
  BY AtPlaceIs
<1>7. at = "endline" => p = 2 * h + 2 + w
  BY AtPlaceIs
<1>8. at \in {"command", "header", "length", "tail", "body", "endline"}
  BY DEF Reading
<1> HIDE DEF h, w
<1>9. p <= 2 * h + w + 2
  BY <1>1, <1>2, <1>3, <1>4, <1>5, <1>6, <1>7, <1>8
<1>10. QED
  BY <1>9 DEF h, w

\* A reader that has begun a frame, or has the first symbols of one before it, is at a
\* place of that frame.
LEMMA Place ==
  ASSUME Base, Follows, at \in Reading \cup {"endline"}, down # <<>> \/ at # "command"
  PROVE  \E f, p, b : Facing(f, p, b)
<1>0. at \in Reading \cup {"endline"}
  OBVIOUS
<1>1. /\ replied \in Seq(Replies) /\ Len(got) \in Nat /\ Len(got) <= Len(replied)
  BY Returning
<1> DEFINE N == Len(replied)
           n == Len(got)
           b == Len(SaidOf(replied, n))
           f == replied[n + 1]
<1>2. /\ SaidOf(replied, N) \in Seq(Alphabet) /\ SaidOf(replied, n) \in Seq(Alphabet)
      /\ N \in Nat /\ b \in Nat
  <2>1. N \in 0..Len(replied) /\ n \in 0..Len(replied)
    BY <1>1
  <2>2. SaidOf(replied, N) \in Seq(Alphabet) /\ SaidOf(replied, n) \in Seq(Alphabet)
    BY <1>1, <2>1, SaidGrows
  <2>3. N \in Nat
    BY <1>1
  <2>4. QED
    BY <2>2, <2>3
<1>3. at \notin Over
  BY DEF Reading, Over
<1>4. \/ Between /\ Fed(b)
      \/ /\ n < N
         /\ \E p \in 1..Len(Symbols(f)) : AtPlace(f, p) /\ Fed(b + p)
  BY <1>3 DEF Base, Follows, InStep, Said, SaidOf
<1>5. n < N => /\ f \in Replies /\ Len(Symbols(f)) = 2 * Len(HeadLines(f)) + Len(Written(f)) + 3
               /\ Len(HeadLines(f)) \in Nat \ {0} /\ Len(Written(f)) \in Nat
  <2>1. SUFFICES ASSUME n < N
                 PROVE  /\ f \in Replies
                        /\ Len(Symbols(f)) = 2 * Len(HeadLines(f)) + Len(Written(f)) + 3
                        /\ Len(HeadLines(f)) \in Nat \ {0} /\ Len(Written(f)) \in Nat
    OBVIOUS
  <2>2. n + 1 \in 1..N
    BY <1>1, <1>2, <2>1
  <2>3. f \in Replies
    BY <1>1, <2>2
  <2> HIDE DEF f
  <2>4. QED
    BY <2>3, ReplyWire
<1>6. CASE Between /\ Fed(b)
  <2>1. at = "command" /\ line = <<>> /\ cur = NoFrame /\ down # <<>>
    BY <1>6 DEF Between, Reading
  <2>2. FedOf(SaidOf(replied, N), down, b, pending, closed)
    BY <1>6, FedIs
  <2> DEFINE S == SaidOf(replied, N)
  <2>3. S \in Seq(Alphabet)
    BY <1>2
  <2>4. down \in Seq(Alphabet) /\ b + Len(down) <= Len(S)
    <3>1. FedOf(S, down, b, pending, closed)
      BY <2>2
    <3> HIDE DEF S, b
    <3>2. QED
      BY <3>1 DEF FedOf
  <2>5. Len(down) \in Nat \ {0} /\ Len(S) \in Nat
    <3> HIDE DEF S
    <3>1. QED
      BY <2>1, <2>3, <2>4
  <2>6. b < Len(S)
    <3> HIDE DEF b, S
    <3>1. QED
      BY <1>2, <2>4, <2>5
  <2>7. n < N
    <3>1. n # N
      BY <2>6
    <3>2. QED
      BY <1>1, <1>2, <3>1
  <2>8. AtPlace(f, 0)
    BY <2>1 DEF AtPlace
  <2>9. 0 \in 0..Len(Symbols(f)) - 1
    BY <1>5, <2>7
  <2>10. Fed(b + 0)
    <3>1. b + 0 = b
      BY <1>2
    <3>2. QED
      BY <1>6, <3>1
  <2>11. f \in Replies
    BY <1>5, <2>7
  <2> HIDE DEF b, f
  <2>12. Facing(f, 0, b)
    BY <2>7, <2>8, <2>9, <2>10, <2>11 DEF Facing, b, f
  <2>13. QED
    BY <2>12
<1>7. CASE n < N /\ \E p \in 1..Len(Symbols(f)) : AtPlace(f, p) /\ Fed(b + p)
  <2>1. PICK p \in 1..Len(Symbols(f)) : AtPlace(f, p) /\ Fed(b + p)
    BY <1>7
  <2> HIDE DEF f
  <2> DEFINE h == Len(HeadLines(f))
             w == Len(Written(f))
  <2>2. f \in Replies /\ Len(Symbols(f)) = 2 * h + w + 3 /\ h \in Nat \ {0} /\ w \in Nat
    BY <1>5, <1>7 DEF f
  <2>3. p <= 2 * h + w + 2
    <3> HIDE DEF f
    <3>1. f \in Replies /\ AtPlace(f, p) /\ p \in Nat
      BY <2>1, <2>2
    <3>2. QED
      BY <1>0, <3>1, PlaceBound
  <2>4. p \in 0..Len(Symbols(f)) - 1
    <3> HIDE DEF h, w
    <3>1. QED
      BY <2>2, <2>3
  <2>5. Facing(f, p, b)
    <3>1. n < N /\ f \in Replies
      BY <1>7, <2>2
    <3> HIDE DEF f, b
    <3>2. QED
      BY <2>1, <2>4, <3>1 DEF Facing, f, b
  <2>6. QED
    BY <2>5
<1>8. QED
  BY <1>4, <1>6, <1>7

\* The symbols before a reader are those of its frame from its place on.
LEMMA Reads ==
  ASSUME Base, Follows, NEW f, NEW p, NEW b, Facing(f, p, b)
  PROVE  /\ b \in Nat /\ p \in Nat /\ Len(down) \in Nat /\ down \in Seq(Alphabet)
         /\ Len(Symbols(f)) \in Nat
         /\ b + Len(Symbols(f)) = Len(SaidOf(replied, Len(got) + 1))
         /\ \A k \in 1..Len(down) : p + k <= Len(Symbols(f)) => down[k] = Symbols(f)[p + k]
<1> DEFINE N == Len(replied)
           S == SaidOf(replied, N)
           n == Len(got)
           i == n + 1
           F == Symbols(f)
<1>1. /\ replied \in Seq(Replies) /\ n \in Nat /\ N \in Nat /\ i \in 1..N /\ n \in 0..N
      /\ i - 1 = n /\ f = replied[i]
  <2>1. /\ replied \in Seq(Replies) /\ n \in Nat /\ n < N /\ f = replied[i]
    BY Returning DEF Facing
  <2>2. QED
    BY <2>1
<1>2. f \in Replies /\ b = Len(SaidOf(replied, n)) /\ p \in 0..Len(F) - 1 /\ Fed(b + p)
  BY DEF Facing
<1>3. S \in Seq(Alphabet) /\ F \in Seq(Alphabet)
  <2>1. N \in 0..Len(replied)
    BY <1>1
  <2>2. QED
    BY <1>1, <1>2, <2>1, SaidGrows, SymbolsType
<1>4. /\ b \in Nat /\ Len(SaidOf(replied, i)) = b + Len(F)
      /\ \A k \in 1..Len(F) : S[b + k] = F[k]
  <2> HIDE DEF i, n, N
  <2>1. b = Len(SaidOf(replied, i - 1)) /\ N = Len(replied) /\ i \in 1..Len(replied)
    BY <1>1, <1>2 DEF N
  <2> HIDE DEF F, S
  <2>2. QED
    BY <1>1, <2>1, SaidPlace DEF F, S, N
<1>5. F \in Seq(Alphabet) /\ Len(F) \in Nat /\ p \in Nat
  <2>1. Len(F) \in Nat
    <3> HIDE DEF F
    <3>1. QED
      BY <1>3
  <2>2. QED
    BY <1>2, <1>3, <2>1
<1>6. FedOf(S, down, b + p, pending, closed) /\ b + p \in Nat
  BY <1>2, <1>4, <1>5, FedIs
<1>7. /\ down \in Seq(Alphabet) /\ Len(down) \in Nat
      /\ \A k \in 1..Len(down) : down[k] = S[b + p + k]
  <2> DEFINE P == b + p
  <2>1. FedOf(S, down, P, pending, closed) /\ P \in Nat
    BY <1>6
  <2> HIDE DEF S, P
  <2> DEFINE d == down
             q == pending
             c == closed
  <2> HIDE DEF d, q, c
  <2>4. S \in Seq(Alphabet) /\ P \in Nat /\ FedOf(S, d, P, q, c)
    BY <1>3, <2>1 DEF d, q, c
  <2>5. d \in Seq(Alphabet)
    BY <2>4, FedReads
  <2>6. Len(d) \in Nat
    BY <2>5
  <2>7. \A k \in 1..Len(d) : d[k] = S[P + k]
    BY <2>4, FedReads
  <2>2. down \in Seq(Alphabet) /\ Len(down) \in Nat /\ \A k \in 1..Len(down) : down[k] = S[P + k]
    BY <2>5, <2>6, <2>7 DEF d
  <2>3. QED
    BY <2>2 DEF P
<1>8. ASSUME NEW k \in 1..Len(down), p + k <= Len(F)
      PROVE  down[k] = F[p + k]
  <2>1. p + k \in 1..Len(F) /\ b + (p + k) = b + p + k
    BY <1>4, <1>5, <1>7, <1>8
  <2> HIDE DEF F, S
  <2>2. QED
    BY <1>4, <1>7, <2>1
<1>9. QED
  BY <1>4, <1>5, <1>7, <1>8

-----------------------------------------------------------------------------
(* What the steps have in common. *)

\* A step within stomp_read keeps the invariant when it keeps the place.
LEMMA GotoKeeps ==
  ASSUME Base, Follows, at \in Reading \cup {"endline"}, NEW a \in Reading \cup {"endline"},
         NEW l, NEW c, Goto(a, l, c), InStep'
  PROVE  Follows'
<1>1. /\ at' = a /\ got' = got /\ replied' = replied
  BY DEF Goto, broker
<1>2. Returned'
  BY <1>1 DEF Returned, Base, Follows
<1>3. PlainIsNeverRefused'
  BY <1>1 DEF PlainIsNeverRefused, Reading
<1>4. QED
  BY <1>2, <1>3 DEF Follows

\* What has been received puts the rest further on.
LEMMA FedFurther ==
  ASSUME Base, Follows, NEW f, NEW p, NEW b, Facing(f, p, b), NEW m \in 0..Len(down),
         NEW q, q = b + (p + m),
         down' = SubSeq(down, m + 1, Len(down)),
         replied' = replied, pending' = pending, closed' = closed
  PROVE  Fed(q)'
<1>1. /\ b \in Nat /\ p \in Nat /\ Fed(b + p)
  BY Reads DEF Facing
<1> DEFINE S == SaidOf(replied, Len(replied))
           P == b + p
<1>3. FedOf(S, down, P, pending, closed) /\ P \in Nat
  BY <1>1, FedIs
<1>4. S \in Seq(Alphabet)
  <2>1. Len(replied) \in 0..Len(replied)
    BY Returning
  <2>2. QED
    BY <2>1, Returning, SaidGrows
<1>5. FedOf(S, down', P + m, pending, closed)
  <2> HIDE DEF S, P
  <2>1. FedOf(S, SubSeq(down, m + 1, Len(down)), P + m, pending, closed)
    BY <1>3, <1>4, FedOn
  <2>2. QED
    BY <2>1
<1>6. P + m = q
  BY <1>1
<1>7. FedOf(SaidOf(replied', Len(replied')), down', q, pending', closed')
  BY <1>5, <1>6
<1>8. QED
  BY <1>7, FedIs

\* m symbols are received of a frame that has more.
LEMMA Advance ==
  ASSUME Base, Follows, NEW f, NEW p, NEW b, Facing(f, p, b), NEW m \in 0..Len(down),
         NEW q, q = p + m, q \in 1..Len(Symbols(f)), AtPlace(f, q)',
         down' = SubSeq(down, m + 1, Len(down)),
         got' = got, replied' = replied, pending' = pending, closed' = closed
  PROVE  InStep'
<1>1. /\ Len(got) < Len(replied) /\ f = replied[Len(got) + 1] /\ b = Len(SaidOf(replied, Len(got)))
  BY DEF Facing
<1>2. Fed(b + q)'
  <2> DEFINE x == b + q
  <2>1. x = b + (p + m)
    OBVIOUS
  <2> HIDE DEF x
  <2>2. Fed(x)'
    BY <2>1, FedFurther
  <2>3. QED
    BY <2>2 DEF x
<1>3. Len(Said(Len(got)))' = b
  BY <1>1 DEF Said, SaidOf
<1>4. QED
  BY <1>1, <1>2, <1>3 DEF InStep

\* A list is a prefix of what extends it.
LEMMA Beginning ==
  ASSUME NEW A, NEW s \in Seq(A), NEW t \in Seq(A)
  PROVE  IsPrefix(s, s \o t)
<1> DEFINE u == s \o t
<1>1. /\ u \in Seq(A) /\ Len(s) \in Nat /\ Len(u) \in Nat /\ Len(s) <= Len(u)
      /\ \A k \in 1..Len(s) : u[k] = s[k]
  <2>1. /\ u \in Seq(A) /\ Len(u) = Len(s) + Len(t)
        /\ Len(s) \in Nat /\ Len(t) \in Nat
        /\ \A k \in 1..Len(s) : u[k] = s[k]
    BY Joined
  <2> HIDE DEF u
  <2>2. QED
    BY <2>1
<1> HIDE DEF u
<1> DEFINE n == Len(s)
           a == SubSeq(s, 0 + 1, n)
           c == SubSeq(u, 0 + 1, n)
<1>2. n \in Nat /\ 0 <= n /\ n <= Len(s) /\ n <= Len(u) /\ 0 \in Nat
  BY <1>1
<1>3. a \in Seq(A) /\ Len(a) = n - 0 /\ \A k \in 1..n - 0 : a[k] = s[0 + k]
  <2> HIDE DEF n
  <2>1. QED
    BY <1>2, Part
<1>4. c \in Seq(A) /\ Len(c) = n - 0 /\ \A k \in 1..n - 0 : c[k] = u[0 + k]
  <2> HIDE DEF n
  <2>1. QED
    BY <1>1, <1>2, Part
<1>5. a = c
  <2>1. \A k \in 1..n - 0 : u[0 + k] = s[0 + k]
    BY <1>1
  <2> HIDE DEF n, a, c
  <2>2. Len(a) = Len(c) /\ \A k \in 1..Len(a) : a[k] = c[k]
    BY <1>2, <1>3, <1>4, <2>1
  <2>3. QED
    BY <1>3, <1>4, <2>2, SeqEqual
<1>6. QED
  BY <1>1, <1>5 DEF IsPrefix, u

\* The stream of main only grows.
LEMMA StreamPrefix ==
  ASSUME NEW n \in 1..7
  PROVE  IsPrefix(Stream(n - 1), Stream(n))
<1>1. Stream(n) = Stream(n - 1) \o Wrote(n) /\ Stream(n - 1) \in Seq(Alphabet)
  BY StreamGrows
<1>2. Wrote(n) \in Seq(Alphabet)
  BY WroteType
<1>3. QED
  BY <1>1, <1>2, Beginning

\* Reading and disconnecting write nothing.
LEMMA ReadWritesNothing ==
  ASSUME NEW n \in 1..7, main[n] = Read \/ main[n] = Disconnect
  PROVE  Stream(n) = Stream(n - 1)
<1>1. Wrote(n) = <<>>
  BY MainIs DEF Wrote
<1>2. Stream(n) = Stream(n - 1) \o <<>> /\ Stream(n - 1) \in Seq(Alphabet)
  BY <1>1, StreamGrows
<1>3. QED
  BY <1>2

\* stomp_read returns a frame as it was sent.
LEMMA ReturnsKeeps ==
  ASSUME Base, Follows, at \in Reading \cup {"endline"}, NEW f, NEW p, NEW b, Facing(f, p, b),
         NEW c, Returns(c), [command |-> c.command, body |-> c.body] = Content(f),
         Fed(b + Len(Symbols(f)))'
  PROVE  Follows'
<1> DEFINE n == Len(got)
           x == Content(f)
<1>1. /\ at' = "call" /\ line' = <<>> /\ cur' = NoFrame /\ step' = step + 1 /\ why' = why
      /\ out' = out /\ up' = up /\ got' = Append(got, x)
      /\ replied' = replied /\ pending' = pending /\ closed' = closed
  BY DEF Returns, broker
<1>8. /\ f \in Replies /\ n < Len(replied) /\ f = replied[n + 1]
      /\ b = Len(SaidOf(replied, n)) /\ b + Len(Symbols(f)) = Len(SaidOf(replied, n + 1))
  <2>1. b + Len(Symbols(f)) = Len(SaidOf(replied, n + 1))
    BY Reads
  <2>2. QED
    BY <2>1 DEF Facing
<1>9. /\ got' \in Seq({Content(g) : g \in Replies}) /\ Len(got') = n + 1 /\ n \in Nat
      /\ \A i \in 1..n + 1 : got'[i] = IF i = n + 1 THEN x ELSE got[i]
  <2> DEFINE C == {Content(g) : g \in Replies}
  <2>1. got \in Seq(C) /\ x \in C
    BY <1>8, Returning
  <2> HIDE DEF C, x
  <2>2. /\ Append(got, x) \in Seq(C) /\ Len(Append(got, x)) = Len(got) + 1 /\ Len(got) \in Nat
        /\ \A i \in 1..Len(got) + 1 : Append(got, x)[i] = IF i = Len(got) + 1 THEN x ELSE got[i]
    BY <2>1
  <2>3. QED
    BY <1>1, <2>2 DEF C
<1>10. Returned'
  <2>1. Len(got') <= Len(replied')
    BY <1>1, <1>8, <1>9, Returning
  <2>2. ASSUME NEW i \in 1..Len(got')
        PROVE  got'[i] = Content(replied'[i])
    <3>1. CASE i = n + 1
      BY <1>1, <1>8, <1>9, <3>1
    <3>2. CASE i # n + 1
      <4>1. i \in 1..n
        BY <1>9, <3>2
      <4> HIDE DEF x
      <4>2. QED
        BY <1>1, <1>9, <3>2, <4>1, Returning
    <3>3. QED
      BY <3>1, <3>2
  <2>3. got' \in Seq({Content(g) : g \in Replies})
    BY <1>9
  <2>4. QED
    BY <1>1, <2>1, <2>2, <2>3, Returning DEF Returned
<1>11. InStep'
  <2>1. Len(Said(Len(got)))' = Len(SaidOf(replied, n + 1))
    BY <1>1, <1>9 DEF Said, SaidOf
  <2>2. Fed(Len(Said(Len(got))))'
    BY <1>8, <2>1
  <2>3. Between'
    BY <1>1 DEF Between
  <2>4. QED
    BY <2>2, <2>3 DEF InStep
<1>12. PlainIsNeverRefused'
  BY <1>1 DEF PlainIsNeverRefused
<1>13. QED
  BY <1>10, <1>11, <1>12 DEF Follows

\* A session may fail, except for a frame that is to be accepted.
LEMMA DiesKeeps ==
  ASSUME Base, Follows, at \notin Over, NEW r \in {"connect", "send", "recv", "general"}, Dies(r),
         r = "general" /\ main[step] = Read => closed \/ HasLength(replied[Len(got) + 1])
  PROVE  Follows'
<1>1. /\ at' = "dead" /\ line' = <<>> /\ cur' = NoFrame /\ step' = step /\ why' = r
      /\ out' = <<>> /\ up' = up /\ got' = got
      /\ replied' = replied /\ pending' = pending /\ closed' = closed
  BY DEF Dies, broker
<1>5. Returned'
  BY <1>1 DEF Returned, Base, Follows
<1>6. InStep'
  BY <1>1 DEF InStep, Over
<1>7. PlainIsNeverRefused'
  BY <1>1 DEF PlainIsNeverRefused
<1>8. QED
  BY <1>5, <1>6, <1>7 DEF Follows

\* The places of AtPlace after a step.
LEMMA AtPlaceNext ==
  ASSUME NEW f, NEW p
  PROVE  /\ at' = "command" /\ cur' = NoFrame /\ p = 1 /\ line' = <<f.command>> => AtPlace(f, p)'
         /\ \A k \in 1..Len(HeadLines(f)) :
              /\ at' = "header" /\ ReadOf(f, cur', LengthAfter(f, k), 0)
              /\ \/ p = 2 * k /\ line' = <<>>
                 \/ p = 2 * k + 1 /\ k < Len(HeadLines(f)) /\ line' = <<HeadLines(f)[k + 1]>>
              => AtPlace(f, p)'
         /\ /\ at' = "length" /\ HasLength(f) /\ p = 2 * Len(HeadLines(f)) + 1
            /\ ReadOf(f, cur', f.body_length, 0)
            => AtPlace(f, p)'
         /\ \A n \in 0..Len(Written(f)) :
              /\ at' = "tail" /\ HasLength(f) /\ (n = 0 => Written(f) = <<>>) /\ p = 2 * Len(HeadLines(f)) + 1 + n
              /\ ReadOf(f, cur', f.body_length, n)
              => AtPlace(f, p)'
         /\ \A n \in 0..Len(Written(f)) :
              /\ at' = "body" /\ ~HasLength(f) /\ p = 2 * Len(HeadLines(f)) + 1 + n
              /\ ReadOf(f, cur', -1, n)
              => AtPlace(f, p)'
         /\ /\ at' = "endline" /\ ~HasLength(f) /\ p = 2 * Len(HeadLines(f)) + 2 + Len(Written(f))
            /\ ReadOf(f, cur', -1, Len(Written(f)))
            => AtPlace(f, p)'
  BY Zenon DEF AtPlace, ReadOf

\* What has been read of a body has the type of one.
LEMMA ReadOfIs ==
  ASSUME NEW f \in Replies, NEW c, NEW len, NEW n \in 0..Len(Written(f)), ReadOf(f, c, len, n)
  PROVE  /\ c.body \in Seq(Alphabet) /\ Len(c.body) = n /\ c.len = len /\ c.command = <<f.command>>
         /\ c.body = SubSeq(Written(f), 1, n)
<1> DEFINE W == Written(f)
           B == SubSeq(W, 0 + 1, n)
<1>1. W \in Seq(Alphabet)
  BY RepliesFit
<1>2. c.body = SubSeq(Written(f), 1, n) /\ c.len = len /\ c.command = <<f.command>>
  BY DEF ReadOf
<1>3. c.body = B
  BY <1>2
<1>4. n \in Nat /\ 0 \in Nat /\ 0 <= n /\ n <= Len(W) /\ Len(W) \in Nat
  <2>1. Len(W) \in Nat
    BY ReplyWire
  <2>2. QED
    BY <2>1
<1>5. B \in Seq(Alphabet) /\ Len(B) = n - 0
  <2> HIDE DEF W
  <2>1. QED
    BY <1>1, <1>4, Part
<1>6. QED
  BY <1>2, <1>3, <1>4, <1>5

\* A step within a frame.
LEMMA Moves ==
  ASSUME Base, Follows, at \in Reading \cup {"endline"}, NEW f, NEW p, NEW b, Facing(f, p, b),
         NEW m \in 0..Len(down), NEW q, q = p + m, q \in 1..Len(Symbols(f)),
         down' = SubSeq(down, m + 1, Len(down)),
         NEW a \in Reading \cup {"endline"}, NEW l, NEW c, Goto(a, l, c), AtPlace(f, q)'
  PROVE  Follows'
<1>1. /\ got' = got /\ replied' = replied /\ pending' = pending /\ closed' = closed
  BY DEF Goto, broker
<1>2. InStep'
  BY <1>1, Advance
<1>3. QED
  BY <1>2, GotoKeeps

\* The symbol received next.
LEMMA ReadsOne ==
  ASSUME Base, Follows, NEW f, NEW p, NEW b, Facing(f, p, b), Recv(1)
  PROVE  /\ 1 \in 0..Len(down) /\ down' = SubSeq(down, 1 + 1, Len(down))
         /\ p \in Nat /\ p + 1 \in 1..Len(Symbols(f)) /\ p \in 0..Len(Symbols(f)) - 1
         /\ Head(down) = Symbols(f)[p + 1]
<1>1. /\ p \in Nat /\ Len(down) \in Nat /\ down \in Seq(Alphabet) /\ Len(Symbols(f)) \in Nat
      /\ \A k \in 1..Len(down) : p + k <= Len(Symbols(f)) => down[k] = Symbols(f)[p + k]
  BY Reads
<1>2. p \in 0..Len(Symbols(f)) - 1
  BY DEF Facing
<1>3. down # <<>>
  BY DEF Recv
<1>4. Len(down) > 0
  BY <1>1, <1>3
<1>5. Least(1, Len(down)) = 1
  <2> DEFINE d == Len(down)
  <2>1. d \in Nat /\ d > 0
    BY <1>1, <1>4
  <2> HIDE DEF d
  <2>2. Least(1, d) = 1
    BY <2>1 DEF Least
  <2>3. QED
    BY <2>2 DEF d
<1>6. 1 \in 1..Len(down) /\ p + 1 <= Len(Symbols(f)) /\ p + 1 \in 1..Len(Symbols(f))
  <2> DEFINE F == Len(Symbols(f))
             d == Len(down)
  <2>1. p \in 0..F - 1 /\ F \in Nat /\ d \in Nat /\ d > 0
    BY <1>1, <1>2, <1>4
  <2> HIDE DEF F, d
  <2>2. 1 \in 1..d /\ p + 1 <= F /\ p + 1 \in 1..F
    BY <2>1
  <2>3. QED
    BY <2>2 DEF F, d
<1>7. down[1] = Symbols(f)[p + 1]
  BY <1>1, <1>6
<1>8. Head(down) = down[1]
  BY <1>1, <1>3
<1>9. down' = SubSeq(down, 1 + 1, Len(down))
  BY <1>5 DEF Recv
<1>10. QED
  BY <1>1, <1>2, <1>4, <1>6, <1>7, <1>8, <1>9

-----------------------------------------------------------------------------
(* The steps of stomp_read. *)

\* The symbol after each place.
LEMMA NextSymbol ==
  ASSUME NEW f \in Replies
  PROVE  LET S == Symbols(f)
             h == Len(HeadLines(f))
             w == Len(Written(f))
         IN  /\ h \in Nat \ {0} /\ w \in Nat /\ Len(S) = 2 * h + w + 3
             /\ S[0 + 1] = f.command /\ S[1 + 1] = NL
             /\ \A k \in 1..h : S[2 * k + 1] = IF k < h THEN HeadLines(f)[k + 1] ELSE NL
             /\ \A k \in 1..h : k < h => S[2 * k + 1 + 1] = NL
             /\ \A n \in 0..w : S[2 * h + 1 + n + 1] = IF n < w THEN Written(f)[n + 1] ELSE NUL
             /\ S[2 * h + 2 + w + 1] = NL
<1> DEFINE S == Symbols(f)
           H == HeadLines(f)
           W == Written(f)
           h == Len(H)
           w == Len(W)
<1>1. /\ h \in Nat \ {0} /\ w \in Nat
      /\ Len(S) = 2 * h + w + 3
      /\ \A i \in 1..h : S[2 * i - 1] = H[i] /\ S[2 * i] = NL
      /\ S[2 * h + 1] = NL
      /\ \A i \in 1..w : S[2 * h + 1 + i] = W[i]
      /\ S[2 * h + w + 2] = NUL
      /\ S[2 * h + w + 3] = NL
  BY ReplyWire
<1>2. H[1] = f.command
  BY ReplyLines
<1> HIDE DEF S, H, W, h, w
<1>3. S[0 + 1] = f.command /\ S[1 + 1] = NL
  <2>1. 1 \in 1..h
    BY <1>1
  <2>2. S[2 * 1 - 1] = H[1] /\ S[2 * 1] = NL
    BY <1>1, <2>1
  <2>3. QED
    BY <1>2, <2>2
<1>4. ASSUME NEW k \in 1..h
      PROVE  S[2 * k + 1] = IF k < h THEN H[k + 1] ELSE NL
  <2>1. CASE k < h
    <3>1. k + 1 \in 1..h /\ 2 * (k + 1) - 1 = 2 * k + 1
      BY <1>1, <2>1
    <3>2. QED
      BY <1>1, <2>1, <3>1
  <2>2. CASE ~(k < h)
    <3>1. k = h
      BY <1>1, <2>2
    <3>2. QED
      BY <1>1, <2>2, <3>1
  <2>3. QED
    BY <2>1, <2>2
<1>5. ASSUME NEW k \in 1..h, k < h
      PROVE  S[2 * k + 1 + 1] = NL
  <2>1. k + 1 \in 1..h /\ 2 * (k + 1) = 2 * k + 1 + 1
    BY <1>1, <1>5
  <2>2. QED
    BY <1>1, <2>1
<1>6. ASSUME NEW n \in 0..w
      PROVE  S[2 * h + 1 + n + 1] = IF n < w THEN W[n + 1] ELSE NUL
  <2>1. CASE n < w
    <3>1. n + 1 \in 1..w /\ 2 * h + 1 + (n + 1) = 2 * h + 1 + n + 1
      BY <1>1, <2>1
    <3>2. QED
      BY <1>1, <2>1, <3>1
  <2>2. CASE ~(n < w)
    <3>1. 2 * h + 1 + n + 1 = 2 * h + w + 2
      BY <1>1, <2>2
    <3>2. QED
      BY <1>1, <2>2, <3>1
  <2>3. QED
    BY <2>1, <2>2
<1>7. S[2 * h + 2 + w + 1] = NL
  <2>1. 2 * h + 2 + w + 1 = 2 * h + w + 3
    BY <1>1
  <2>2. QED
    BY <1>1, <2>1
<1>8. QED
  BY <1>1, <1>3, <1>4, <1>5, <1>6, <1>7 DEF S, H, W, h, w

\* A byte of a line: the command or the header that the place says, and never NUL.
LEMMA LineByteKeeps ==
  ASSUME Base, Follows, LineByte
  PROVE  Follows'
<1>1. /\ at \in {"command", "header"} /\ at \in Reading \cup {"endline"} /\ Recv(1) /\ down # <<>>
      /\ Head(down) # NL
      /\ Head(down) # NUL => Goto(at, Append(line, Head(down)), cur)
  BY DEF LineByte, Recv, Reading
<1>2. PICK f, p, b : Facing(f, p, b)
  BY <1>1, Place
<1>3. f \in Replies /\ AtPlace(f, p)
  BY <1>2 DEF Facing
<1> DEFINE S == Symbols(f)
           h == Len(HeadLines(f))
           x == S[p + 1]
<1>4. /\ 1 \in 0..Len(down) /\ down' = SubSeq(down, 1 + 1, Len(down))
      /\ p \in Nat /\ p + 1 \in 1..Len(S) /\ Head(down) = x
  BY <1>1, <1>2, ReadsOne
<1>5. ASSUME x # NUL, AtPlace(f, p + 1)'
      PROVE  Follows'
  <2> DEFINE l == Append(line, Head(down))
             q == p + 1
  <2>1. Goto(at, l, cur) /\ AtPlace(f, q)' /\ q = p + 1 /\ q \in 1..Len(Symbols(f))
    BY <1>1, <1>4, <1>5
  <2> HIDE DEF l, q
  <2>2. QED
    BY <1>1, <1>2, <1>4, <2>1, Moves
<1>6. at = "command" => x = NL \/ (x # NUL /\ AtPlace(f, p + 1)')
  <2>1. SUFFICES ASSUME at = "command", x # NL
                 PROVE  x # NUL /\ AtPlace(f, p + 1)'
    OBVIOUS
  <2>2. cur = NoFrame /\ ((p = 0 /\ line = <<>>) \/ (p = 1 /\ line = <<f.command>>))
    BY <1>3, <2>1, AtPlaceIs
  <2>3. p # 1
    BY <1>3, <2>1, NextSymbol
  <2>4. p = 0 /\ line = <<>> /\ x = f.command
    BY <1>3, <2>2, <2>3, NextSymbol
  <2>5. f.command # NUL
    <3>1. HeadLines(f)[1] = f.command /\ 1 \in 1..Len(HeadLines(f))
      BY <1>3, ReplyLines, NextSymbol
    <3>2. QED
      BY <1>3, <3>1, ReplyLines
  <2>6. at' = "command" /\ line' = <<f.command>> /\ cur' = NoFrame
    BY <1>1, <1>4, <2>1, <2>2, <2>4, <2>5 DEF Goto
  <2>7. AtPlace(f, 1)'
    BY <2>6, AtPlaceNext
  <2>8. p + 1 = 1
    BY <2>4
  <2>9. QED
    BY <2>4, <2>5, <2>7, <2>8
<1>7. at = "header" => x = NL \/ (x # NUL /\ AtPlace(f, p + 1)')
  <2>1. SUFFICES ASSUME at = "header", x # NL
                 PROVE  x # NUL /\ AtPlace(f, p + 1)'
    OBVIOUS
  <2>2. PICK k \in 1..h :
          /\ \/ p = 2 * k /\ line = <<>>
             \/ /\ p = 2 * k + 1 /\ k < h
                /\ line = <<HeadLines(f)[k + 1]>>
          /\ ReadOf(f, cur, LengthAfter(f, k), 0)
    BY <1>3, <2>1, AtPlaceIs
  <2>3. p # 2 * k + 1 \/ ~(k < h)
    BY <1>3, <2>1, NextSymbol
  <2>4. p = 2 * k /\ line = <<>>
    BY <2>2, <2>3
  <2>5. k < h /\ x = HeadLines(f)[k + 1]
    BY <1>3, <2>1, <2>4, NextSymbol
  <2>6. x # NUL
    <3>1. k + 1 \in 1..h
      <4>1. h \in Nat
        BY <1>3, NextSymbol
      <4> HIDE DEF h
      <4>2. QED
        BY <2>5, <4>1
    <3>2. QED
      BY <1>3, <2>5, <3>1, ReplyLines
  <2>7. at' = "header" /\ line' = <<HeadLines(f)[k + 1]>> /\ cur' = cur
    BY <1>1, <1>4, <2>1, <2>4, <2>5, <2>6 DEF Goto
  <2>8. ReadOf(f, cur', LengthAfter(f, k), 0)
    BY <2>2, <2>7
  <2>9. AtPlace(f, 2 * k + 1)'
    BY <2>5, <2>7, <2>8, AtPlaceNext
  <2>10. QED
    BY <2>4, <2>6, <2>9
<1>8. x # NL
  BY <1>1, <1>4
<1>9. QED
  BY <1>1, <1>5, <1>6, <1>7, <1>8

\* Lists that agree up to m have the same first m.
LEMMA SameBeginning ==
  ASSUME NEW A, NEW s \in Seq(A), NEW B, NEW t \in Seq(B), NEW m \in Nat, m <= Len(s), m <= Len(t),
         \A k \in 1..m : s[k] = t[k]
  PROVE  SubSeq(s, 1, m) = SubSeq(t, 1, m)
<1> DEFINE a == SubSeq(s, 0 + 1, m)
           c == SubSeq(t, 0 + 1, m)
<1>1. 0 \in Nat /\ 0 <= m
  OBVIOUS
<1>2. a \in Seq(A) /\ Len(a) = m - 0 /\ \A k \in 1..m - 0 : a[k] = s[0 + k]
  BY <1>1, Part
<1>3. c \in Seq(B) /\ Len(c) = m - 0 /\ \A k \in 1..m - 0 : c[k] = t[0 + k]
  BY <1>1, Part
<1> HIDE DEF a, c
<1>4. Len(a) = Len(c) /\ \A k \in 1..Len(a) : a[k] = c[k]
  BY <1>2, <1>3
<1>5. a = c
  BY <1>2, <1>3, <1>4, SeqEqual
<1>6. QED
  BY <1>5 DEF a, c

\* Nothing of a body has been read before its first symbol.
LEMMA NothingOfBody ==
  ASSUME NEW f
  PROVE  SubSeq(Written(f), 1, 0) = <<>>
  OBVIOUS

\* The line feed after the command; a frame with a length has a header.
LEMMA CommandReadKeeps ==
  ASSUME Base, Follows, CommandRead
  PROVE  Follows'
<1> DEFINE c == [cur EXCEPT !.command = line]
<1>1. /\ at = "command" /\ at \in Reading \cup {"endline"} /\ Recv(1) /\ down # <<>>
      /\ Head(down) = NL /\ Goto("header", <<>>, c)
  BY DEF CommandRead, Recv, Reading
<1>2. PICK f, p, b : Facing(f, p, b)
  BY <1>1, Place
<1>3. f \in Replies /\ AtPlace(f, p)
  BY <1>2 DEF Facing
<1>4. /\ 1 \in 0..Len(down) /\ down' = SubSeq(down, 1 + 1, Len(down))
      /\ p \in Nat /\ p + 1 \in 1..Len(Symbols(f)) /\ Head(down) = Symbols(f)[p + 1]
  BY <1>1, <1>2, ReadsOne
<1>5. cur = NoFrame /\ ((p = 0 /\ line = <<>>) \/ (p = 1 /\ line = <<f.command>>))
  BY <1>1, <1>3, AtPlaceIs
<1>6. p # 0
  <2>1. HeadLines(f)[1] = f.command /\ 1 \in 1..Len(HeadLines(f)) /\ Symbols(f)[0 + 1] = f.command
    BY <1>3, ReplyLines, NextSymbol
  <2>2. f.command # NL
    BY <1>3, <2>1, ReplyLines
  <2>3. QED
    BY <1>1, <1>4, <2>1, <2>2
<1>7. p = 1 /\ line = <<f.command>>
  BY <1>5, <1>6
<1>8. c = [command |-> <<f.command>>, len |-> -1, body |-> <<>>]
  BY <1>5, <1>7 DEF NoFrame
<1>9. LengthAfter(f, 1) = -1 /\ 1 \in 1..Len(HeadLines(f))
  <2>1. HasLength(f) => Len(HeadLines(f)) > 1
    BY <1>3, ReplyLines
  <2>2. Len(HeadLines(f)) \in Nat \ {0}
    BY <1>3, NextSymbol
  <2>3. ~(HasLength(f) /\ 1 = Len(HeadLines(f)))
    <3> DEFINE h == Len(HeadLines(f))
    <3>1. SUFFICES ASSUME HasLength(f), 1 = h
                   PROVE  FALSE
      OBVIOUS
    <3>2. h > 1
      BY <2>1, <3>1
    <3> HIDE DEF h
    <3>3. QED
      BY <3>1, <3>2
  <2>4. LengthAfter(f, 1) = -1
    BY <2>3 DEF LengthAfter
  <2>5. 1 \in 1..Len(HeadLines(f))
    BY <2>2
  <2>6. QED
    BY <2>4, <2>5
<1>10. at' = "header" /\ line' = <<>> /\ cur' = c
  BY <1>1 DEF Goto
<1>11. ReadOf(f, cur', LengthAfter(f, 1), 0)
  BY <1>8, <1>9, <1>10, NothingOfBody DEF ReadOf
<1>12. AtPlace(f, 2)'
  <2>1. 2 = 2 * 1
    OBVIOUS
  <2>2. QED
    BY <1>9, <1>10, <1>11, <2>1, AtPlaceNext
<1>13. QED
  <2> DEFINE q == p + 1
             a == "header"
             l == <<>>
  <2>1. /\ a \in Reading \cup {"endline"} /\ Goto(a, l, c) /\ (l # <<>> => a \in {"command", "header"})
        /\ q = p + 1 /\ q \in 1..Len(Symbols(f)) /\ AtPlace(f, q)'
    <3>1. q = 2
      BY <1>7
    <3>2. q \in 1..Len(Symbols(f))
      BY <1>4
    <3> HIDE DEF q, c
    <3>3. AtPlace(f, q)'
      BY <1>12, <3>1
    <3>4. QED
      BY <1>1, <3>2, <3>3 DEF Reading, q
  <2> HIDE DEF a, l, c, q
  <2>2. QED
    BY <1>1, <1>2, <1>4, <2>1, Moves

\* The line feed after a header, the last of which is the length if there is one.
LEMMA HeaderReadKeeps ==
  ASSUME Base, Follows, HeaderRead
  PROVE  Follows'
<1> DEFINE c == [cur EXCEPT !.len = IF line[1].kind = "length" THEN line[1].n ELSE @]
<1>1. /\ at = "header" /\ at \in Reading \cup {"endline"} /\ Recv(1) /\ down # <<>>
      /\ Head(down) = NL /\ line # <<>>
      /\ (\E j \in DOMAIN line : HasColon(line[j])) => Goto("header", <<>>, c)
  BY DEF HeaderRead, Recv, Reading
<1>2. PICK f, p, b : Facing(f, p, b)
  BY <1>1, Place
<1>3. f \in Replies /\ AtPlace(f, p)
  BY <1>2 DEF Facing
<1> DEFINE H == HeadLines(f)
           h == Len(H)
<1>4. /\ 1 \in 0..Len(down) /\ down' = SubSeq(down, 1 + 1, Len(down))
      /\ p \in Nat /\ p + 1 \in 1..Len(Symbols(f)) /\ Head(down) = Symbols(f)[p + 1]
  BY <1>1, <1>2, ReadsOne
<1>5. PICK k \in 1..h :
          /\ \/ p = 2 * k /\ line = <<>>
             \/ /\ p = 2 * k + 1 /\ k < h
                /\ line = <<H[k + 1]>>
          /\ ReadOf(f, cur, LengthAfter(f, k), 0)
  BY <1>1, <1>3, AtPlaceIs
<1>6. p = 2 * k + 1 /\ k < h /\ line = <<H[k + 1]>> /\ line[1] = H[k + 1]
  BY <1>1, <1>5
<1>7. k + 1 \in 2..h /\ k + 1 \in 1..h /\ h \in Nat /\ k \in Nat
  <2>1. h \in Nat
    BY <1>3, NextSymbol
  <2> HIDE DEF h
  <2>2. QED
    BY <1>6, <2>1
<1>8. /\ HasColon(line[1])
      /\ line[1].kind = "length" <=> HasLength(f) /\ k + 1 = h
      /\ line[1].kind = "length" => line[1].n = f.body_length
  BY <1>3, <1>6, <1>7, ReplyLines
<1>9. Goto("header", <<>>, c)
  <2>1. 1 \in DOMAIN line
    BY <1>6
  <2>2. QED
    BY <1>1, <1>8, <2>1
<1>10. ReadOf(f, c, LengthAfter(f, k + 1), 0)
  <2>1. LengthAfter(f, k) = -1
    BY <1>6, <1>7 DEF LengthAfter
  <2>2. cur = [command |-> <<f.command>>, len |-> -1, body |-> SubSeq(Written(f), 1, 0)]
    BY <1>5, <2>1 DEF ReadOf
  <2>3. c = [command |-> <<f.command>>, len |-> IF line[1].kind = "length" THEN line[1].n ELSE -1,
             body |-> SubSeq(Written(f), 1, 0)]
    BY <2>2
  <2>4. (IF line[1].kind = "length" THEN line[1].n ELSE -1) = LengthAfter(f, k + 1)
    BY <1>8 DEF LengthAfter
  <2> HIDE DEF c
  <2>5. QED
    BY <2>3, <2>4 DEF ReadOf
<1>11. at' = "header" /\ line' = <<>> /\ cur' = c
  BY <1>9 DEF Goto
<1> DEFINE q == p + 1
<1>12. q = 2 * (k + 1)
  BY <1>6, <1>7
<1>13. AtPlace(f, q)'
  <2>1. ReadOf(f, cur', LengthAfter(f, k + 1), 0)
    BY <1>10, <1>11
  <2> HIDE DEF q, c
  <2>2. QED
    BY <1>7, <1>11, <1>12, <2>1, AtPlaceNext
<1>14. QED
  <2> DEFINE a == "header"
             l == <<>>
  <2>1. /\ a \in Reading \cup {"endline"} /\ Goto(a, l, c) /\ (l # <<>> => a \in {"command", "header"})
        /\ q = p + 1 /\ q \in 1..Len(Symbols(f))
    BY <1>4, <1>9 DEF Reading
  <2> HIDE DEF a, l, c, q
  <2>2. QED
    BY <1>1, <1>2, <1>4, <1>13, <2>1, Moves

\* A line feed with no line before it is the one after the last header.
LEMMA HeadersReadKeeps ==
  ASSUME Base, Follows, HeadersRead
  PROVE  Follows'
<1> DEFINE a == IF cur.len >= 0 THEN "length" ELSE "body"
<1>1. /\ at = "header" /\ at \in Reading \cup {"endline"} /\ Recv(1) /\ down # <<>>
      /\ Head(down) = NL /\ line = <<>> /\ Goto(a, <<>>, cur)
  BY DEF HeadersRead, Recv, Reading
<1>2. PICK f, p, b : Facing(f, p, b)
  BY <1>1, Place
<1>3. f \in Replies /\ AtPlace(f, p)
  BY <1>2 DEF Facing
<1> DEFINE H == HeadLines(f)
           h == Len(H)
           w == Len(Written(f))
<1>4. /\ 1 \in 0..Len(down) /\ down' = SubSeq(down, 1 + 1, Len(down))
      /\ p \in Nat /\ p + 1 \in 1..Len(Symbols(f)) /\ Head(down) = Symbols(f)[p + 1]
  BY <1>1, <1>2, ReadsOne
<1>5. PICK k \in 1..h :
          /\ \/ p = 2 * k /\ line = <<>>
             \/ /\ p = 2 * k + 1 /\ k < h
                /\ line = <<H[k + 1]>>
          /\ ReadOf(f, cur, LengthAfter(f, k), 0)
  BY <1>1, <1>3, AtPlaceIs
<1>6. p = 2 * k
  BY <1>1, <1>5
<1>7. h \in Nat /\ w \in Nat /\ 0 \in 0..w
  BY <1>3, NextSymbol
<1>8. k = h
  <2>1. SUFFICES ASSUME k < h
                 PROVE  FALSE
    <3> HIDE DEF h
    <3>1. QED
      BY <1>7
  <2>2. Symbols(f)[2 * k + 1] = H[k + 1]
    BY <1>3, <2>1, NextSymbol
  <2>3. k + 1 \in 1..h
    <3> HIDE DEF h
    <3>1. QED
      BY <1>7, <2>1
  <2>4. H[k + 1] # NL
    BY <1>3, <2>3, ReplyLines
  <2>5. QED
    BY <1>1, <1>4, <1>6, <2>2, <2>4
<1>9. ReadOf(f, cur, IF HasLength(f) THEN f.body_length ELSE -1, 0)
  BY <1>5, <1>8 DEF LengthAfter
<1>10. cur.len = IF HasLength(f) THEN f.body_length ELSE -1
  BY <1>9 DEF ReadOf
<1>11. HasLength(f) => f.body_length \in Nat
  BY <1>3, ReplyLines
<1>12. a = IF HasLength(f) THEN "length" ELSE "body"
  BY <1>10, <1>11
<1>13. at' = a /\ line' = <<>> /\ cur' = cur
  BY <1>1 DEF Goto
<1> DEFINE q == p + 1
<1>14. q = 2 * h + 1 /\ q = 2 * h + 1 + 0
  <2> HIDE DEF h
  <2>1. QED
    BY <1>6, <1>7, <1>8
<1>15. AtPlace(f, q)'
  <2> HIDE DEF q, a
  <2>1. CASE HasLength(f)
    <3>1. at' = "length" /\ ReadOf(f, cur', f.body_length, 0)
      BY <1>9, <1>12, <1>13, <2>1
    <3>2. QED
      BY <1>14, <2>1, <3>1, AtPlaceNext
  <2>2. CASE ~HasLength(f)
    <3>1. at' = "body" /\ ReadOf(f, cur', -1, 0)
      BY <1>9, <1>12, <1>13, <2>2
    <3>2. QED
      BY <1>7, <1>14, <2>2, <3>1, AtPlaceNext
  <2>3. QED
    BY <2>1, <2>2
<1>16. QED
  <2> DEFINE l == <<>>
  <2>1. /\ a \in Reading \cup {"endline"} /\ Goto(a, l, cur) /\ (l # <<>> => a \in {"command", "header"})
        /\ q = p + 1 /\ q \in 1..Len(Symbols(f))
    BY <1>1, <1>4 DEF Reading
  <2> HIDE DEF a, l, q
  <2>2. QED
    BY <1>1, <1>2, <1>4, <1>15, <2>1, Moves

\* The first n + 1 are the first n and the next.
LEMMA OneMore ==
  ASSUME NEW A, NEW s \in Seq(A), NEW n \in Nat, n < Len(s)
  PROVE  Append(SubSeq(s, 1, n), s[n + 1]) = SubSeq(s, 1, n + 1)
<1> DEFINE a == SubSeq(s, 0 + 1, n)
           c == SubSeq(s, 0 + 1, n + 1)
           x == s[n + 1]
<1>1. 0 \in Nat /\ 0 <= n /\ n <= Len(s) /\ n + 1 \in Nat /\ 0 <= n + 1 /\ n + 1 <= Len(s)
      /\ n + 1 \in 1..Len(s)
  <2>1. Len(s) \in Nat
    OBVIOUS
  <2>2. QED
    BY <2>1
<1>2. a \in Seq(A) /\ Len(a) = n - 0 /\ \A k \in 1..n - 0 : a[k] = s[0 + k]
  BY <1>1, Part
<1>3. c \in Seq(A) /\ Len(c) = n + 1 - 0 /\ \A k \in 1..n + 1 - 0 : c[k] = s[0 + k]
  <2> DEFINE m == n + 1
  <2>1. 0 \in Nat /\ m \in Nat /\ 0 <= m /\ m <= Len(s)
    BY <1>1
  <2> HIDE DEF m
  <2>2. SubSeq(s, 0 + 1, m) \in Seq(A) /\ Len(SubSeq(s, 0 + 1, m)) = m - 0
        /\ \A k \in 1..m - 0 : SubSeq(s, 0 + 1, m)[k] = s[0 + k]
    BY <2>1, Part
  <2>3. QED
    BY <2>2 DEF m
<1>4. x \in A
  BY <1>1
<1> HIDE DEF a, c, x
<1> DEFINE e == Append(a, x)
<1>5. /\ e \in Seq(A) /\ Len(e) = n + 1
      /\ \A k \in 1..n + 1 : e[k] = IF k = n + 1 THEN x ELSE a[k]
  <2>1. e \in Seq(A) /\ Len(e) = Len(a) + 1
        /\ \A k \in 1..Len(a) + 1 : e[k] = IF k = Len(a) + 1 THEN x ELSE a[k]
    BY <1>2, <1>4
  <2>2. Len(a) + 1 = n + 1
    BY <1>2
  <2> HIDE DEF e
  <2>3. QED
    BY <2>1, <2>2
<1> HIDE DEF e
<1>6. \A k \in 1..n + 1 : e[k] = c[k]
  <2>1. SUFFICES ASSUME NEW k \in 1..n + 1
                 PROVE  e[k] = c[k]
    OBVIOUS
  <2>2. c[k] = s[k]
    BY <1>3
  <2>3. CASE k = n + 1
    BY <1>5, <2>2, <2>3 DEF x
  <2>4. CASE k # n + 1
    <3>1. k \in 1..n - 0 /\ 0 + k = k
      BY <2>4
    <3>2. QED
      BY <1>2, <1>5, <2>2, <2>4, <3>1
  <2>5. QED
    BY <2>3, <2>4
<1>7. e = c
  <2>1. Len(e) = Len(c) /\ \A k \in 1..Len(e) : e[k] = c[k]
    BY <1>3, <1>5, <1>6
  <2>2. QED
    BY <1>3, <1>5, <2>1, SeqEqual
<1>8. QED
  BY <1>7 DEF e, a, c, x

\* All of a list is the list.
LEMMA Whole ==
  ASSUME NEW A, NEW s \in Seq(A), NEW n, n = Len(s)
  PROVE  SubSeq(s, 1, n) = s
<1>1. Len(s) \in Nat /\ 0 \in Nat /\ 0 <= Len(s) /\ Len(s) <= Len(s)
      /\ \A k \in 1..Len(s) - 0 : s[k] = s[0 + k]
  OBVIOUS
<1> DEFINE m == Len(s)
<1>2. m \in Nat /\ 0 \in Nat /\ 0 <= m /\ m <= Len(s) /\ Len(s) = m - 0
      /\ \A k \in 1..m - 0 : s[k] = s[0 + k]
  BY <1>1
<1> HIDE DEF m
<1>3. s = SubSeq(s, 0 + 1, m)
  BY <1>2, IsPart
<1>4. QED
  BY <1>3 DEF m

\* A frame read to its end is the frame sent.
LEMMA WholeContent ==
  ASSUME NEW f \in Replies, NEW c, NEW len, ReadOf(f, c, len, Len(Written(f)))
  PROVE  [command |-> c.command, body |-> c.body] = Content(f)
<1>1. c.command = <<f.command>> /\ c.body = SubSeq(Written(f), 1, Len(Written(f)))
  BY DEF ReadOf
<1>2. c.body = Written(f)
  <2> DEFINE W == Written(f)
             n == Len(W)
  <2>1. W \in Seq(Alphabet) /\ n = Len(W)
    BY RepliesFit
  <2> HIDE DEF W, n
  <2>2. SubSeq(W, 1, n) = W
    BY <2>1, Whole
  <2>3. QED
    BY <1>1, <2>2 DEF W, n
<1>3. f.command = Text(f.command.s)
  BY RepliesAreFrames
<1>4. QED
  BY <1>1, <1>2, <1>3 DEF Content

\* What recv takes.
LEMMA Takes ==
  ASSUME Base, Follows, NEW f, NEW p, NEW b, Facing(f, p, b), NEW n \in Nat, Recv(n)
  PROVE  LET m == Least(n, Len(down)) IN
         /\ m \in Nat /\ m \in 0..Len(down) /\ m <= n /\ (n > 0 => m > 0)
         /\ (Len(down) >= n => m = n) /\ (Len(down) < n => m = Len(down))
         /\ down' = SubSeq(down, m + 1, Len(down))
         /\ Received(n) = SubSeq(down, 1, m)
<1> DEFINE d == Len(down)
           m == Least(n, d)
<1>1. d \in Nat
  BY Reads
<1>2. down' = SubSeq(down, m + 1, Len(down)) /\ Received(n) = SubSeq(down, 1, m) /\ down # <<>>
  BY DEF Recv, Received
<1>3. d > 0
  BY <1>1, <1>2, Reads
<1> HIDE DEF d
<1>4. m \in Nat /\ m \in 0..d /\ m <= n /\ (n > 0 => m > 0) /\ (d >= n => m = n) /\ (d < n => m = d)
  BY <1>1, <1>3 DEF Least
<1>5. QED
  BY <1>2, <1>4 DEF d

\* One recv of the body: what it returns is a beginning of it.
LEMMA LengthReadKeeps ==
  ASSUME Base, Follows, LengthRead
  PROVE  Follows'
<1>1. at = "length" /\ at \in Reading \cup {"endline"} /\ at # "command" /\ at \notin Over
  BY DEF LengthRead, Reading, Over
<1>2. PICK f, p, b : Facing(f, p, b)
  BY <1>1, Place
<1>3. f \in Replies /\ AtPlace(f, p) /\ p \in 0..Len(Symbols(f)) - 1
  BY <1>2 DEF Facing
<1> DEFINE h == Len(HeadLines(f))
           W == Written(f)
           w == Len(W)
<1>4. HasLength(f) /\ p = 2 * h + 1 /\ ReadOf(f, cur, f.body_length, 0)
  BY <1>1, <1>3, AtPlaceIs
<1>5. h \in Nat \ {0} /\ w \in Nat /\ Len(Symbols(f)) = 2 * h + w + 3 /\ f.body_length = w
  BY <1>3, <1>4, NextSymbol, ReplyLines
<1>6. cur = [command |-> <<f.command>>, len |-> w, body |-> SubSeq(W, 1, 0)] /\ cur.len = w
  BY <1>4, <1>5 DEF ReadOf
<1>7. ASSUME NEW m \in 0..Len(down), m <= w, m = 0 => w = 0, down' = SubSeq(down, m + 1, Len(down)),
             NEW c, c = [cur EXCEPT !.body = SubSeq(W, 1, m)], Goto("tail", <<>>, c)
      PROVE  Follows'
  <2> DEFINE q == p + m
             a == "tail"
             l == <<>>
  <2>1. q = 2 * h + 1 + m /\ q \in 1..Len(Symbols(f)) /\ m \in 0..w
    <3>1. m \in Nat
      BY <1>2, Reads
    <3> HIDE DEF h, w
    <3>2. QED
      BY <1>4, <1>5, <1>7, <3>1
  <2>2. ReadOf(f, c, f.body_length, m)
    <3>1. c = [command |-> <<f.command>>, len |-> w, body |-> SubSeq(W, 1, m)]
      BY <1>6, <1>7
    <3>2. QED
      BY <1>5, <3>1 DEF ReadOf
  <2>7. m = 0 => Written(f) = <<>>
    <3>1. W \in Seq(Alphabet)
      BY <1>3, RepliesFit
    <3> HIDE DEF W
    <3>2. w = 0 => W = <<>>
      BY <3>1
    <3>3. QED
      BY <1>7, <3>2 DEF W
  <2>3. at' = "tail" /\ cur' = c
    BY <1>7 DEF Goto
  <2>4. AtPlace(f, q)'
    <3> HIDE DEF q
    <3>1. QED
      BY <1>4, <2>1, <2>2, <2>3, <2>7, AtPlaceNext
  <2>5. /\ a \in Reading \cup {"endline"} /\ Goto(a, l, c) /\ (l # <<>> => a \in {"command", "header"})
        /\ q = p + m
    BY <1>7 DEF Reading
  <2> HIDE DEF a, l, q
  <2>6. QED
    BY <1>1, <1>2, <1>7, <2>1, <2>4, <2>5, Moves
<1>8. CASE /\ cur.len > 0 /\ Recv(cur.len)
           /\ Goto("tail", <<>>, [cur EXCEPT !.body = Received(cur.len)])
  <2> DEFINE m == Least(w, Len(down))
  <2>1. Recv(w) /\ Goto("tail", <<>>, [cur EXCEPT !.body = Received(w)])
    BY <1>6, <1>8
  <2>9. w > 0
    BY <1>6, <1>8
  <2>2. /\ m \in Nat /\ m \in 0..Len(down) /\ m <= w /\ m > 0
        /\ down' = SubSeq(down, m + 1, Len(down)) /\ Received(w) = SubSeq(down, 1, m)
    <3> HIDE DEF w
    <3>1. QED
      BY <1>2, <1>5, <2>1, <2>9, Takes
  <2> HIDE DEF m
  <2>3. /\ down \in Seq(Alphabet) /\ Len(down) \in Nat
        /\ \A k \in 1..Len(down) : p + k <= Len(Symbols(f)) => down[k] = Symbols(f)[p + k]
    BY <1>2, Reads
  <2>4. W \in Seq(Alphabet)
    BY <1>3, RepliesFit
  <2>5. ASSUME NEW k \in 1..m
        PROVE  down[k] = W[k]
    <3>1. k \in 1..Len(down)
      BY <2>2, <2>3
    <3>2. p + k <= Len(Symbols(f)) /\ k - 1 \in 0..w /\ k - 1 < w /\ (k - 1) + 1 = k
          /\ p + k = 2 * h + 1 + (k - 1) + 1
      <4> HIDE DEF h, w
      <4>1. QED
        BY <1>4, <1>5, <2>2
    <3>3. Symbols(f)[2 * h + 1 + (k - 1) + 1] = W[(k - 1) + 1]
      <4> DEFINE j == k - 1
      <4>1. j \in 0..w /\ j < w
        BY <3>2
      <4> HIDE DEF j
      <4>2. Symbols(f)[2 * h + 1 + j + 1] = W[j + 1]
        BY <1>3, <4>1, NextSymbol
      <4>3. QED
        BY <4>2 DEF j
    <3>4. QED
      BY <2>3, <3>1, <3>2, <3>3
  <2>6. SubSeq(down, 1, m) = SubSeq(W, 1, m)
    <3>1. m <= Len(down)
      BY <2>2, <2>3
    <3>2. m <= Len(W)
      BY <2>2
    <3> HIDE DEF W
    <3>3. QED
      BY <2>2, <2>3, <2>4, <2>5, <3>1, <3>2, SameBeginning
  <2> DEFINE c == [cur EXCEPT !.body = SubSeq(W, 1, m)]
  <2>7. Goto("tail", <<>>, c) /\ c = [cur EXCEPT !.body = SubSeq(W, 1, m)]
    BY <2>1, <2>2, <2>6
  <2> HIDE DEF c
  <2>10. m = 0 => w = 0
    BY <2>2
  <2>8. QED
    BY <1>7, <2>2, <2>7, <2>10
<1>9. CASE cur.len = 0 /\ Goto("tail", <<>>, cur) /\ UNCHANGED down
  <2>7. w = 0
    BY <1>6, <1>9
  <2>1. 0 \in 0..Len(down) /\ 0 <= w /\ down \in Seq(Alphabet) /\ Len(down) \in Nat
    BY <1>2, <1>5, Reads
  <2>2. down' = SubSeq(down, 0 + 1, Len(down))
    <3>1. SubSeq(down, 1, Len(down)) = down
      BY <2>1, Whole
    <3>2. QED
      BY <1>9, <3>1
  <2> DEFINE c == [cur EXCEPT !.body = SubSeq(W, 1, 0)]
  <2>3. c = cur
    BY <1>6
  <2>4. Goto("tail", <<>>, c)
    BY <1>9, <2>3
  <2>5. c = [cur EXCEPT !.body = SubSeq(W, 1, 0)]
    OBVIOUS
  <2> HIDE DEF c
  <2>6. QED
    BY <1>7, <2>1, <2>2, <2>4, <2>5, <2>7
<1>10. CASE Dies("recv")
  BY <1>1, <1>10, DiesKeeps
<1>11. QED
  BY <1>8, <1>9, <1>10 DEF LengthRead

\* A byte of a body without a length, which ends at the first NUL.
LEMMA BodyByteKeeps ==
  ASSUME Base, Follows, BodyByte
  PROVE  Follows'
<1>1. /\ at = "body" /\ at \in Reading \cup {"endline"} /\ Recv(1) /\ down # <<>>
      /\ Head(down) = NUL => Goto("endline", <<>>, cur)
      /\ Head(down) # NUL => Goto("body", <<>>, [cur EXCEPT !.body = Append(@, Head(down))])
  BY DEF BodyByte, Recv, Reading
<1>2. PICK f, p, b : Facing(f, p, b)
  BY <1>1, Place
<1>3. f \in Replies /\ AtPlace(f, p)
  BY <1>2 DEF Facing
<1> DEFINE h == Len(HeadLines(f))
           W == Written(f)
           w == Len(W)
           q == p + 1
           l == <<>>
<1>4. /\ 1 \in 0..Len(down) /\ down' = SubSeq(down, 1 + 1, Len(down))
      /\ p \in Nat /\ p + 1 \in 1..Len(Symbols(f)) /\ Head(down) = Symbols(f)[p + 1]
  BY <1>1, <1>2, ReadsOne
<1>5. ~HasLength(f) /\ \E n \in 0..w : p = 2 * h + 1 + n /\ ReadOf(f, cur, -1, n)
  BY <1>1, <1>3, AtPlaceIs
<1>6. PICK n \in 0..w : p = 2 * h + 1 + n /\ ReadOf(f, cur, -1, n)
  BY <1>5
<1>7. h \in Nat /\ w \in Nat /\ W \in Seq(Alphabet) /\ \A k \in 1..w : W[k] # NUL
  BY <1>3, <1>5, NextSymbol, RepliesFit
<1>8. Head(down) = IF n < w THEN W[n + 1] ELSE NUL
  BY <1>3, <1>4, <1>6, NextSymbol
<1>9. CASE n < w
  <2>1. n + 1 \in 1..w /\ n + 1 \in 0..w /\ n \in Nat /\ q = 2 * h + 1 + (n + 1)
    <3> HIDE DEF h, w
    <3>1. QED
      BY <1>6, <1>7, <1>9
  <2>2. Head(down) = W[n + 1] /\ W[n + 1] # NUL
    BY <1>7, <1>8, <1>9, <2>1
  <2> DEFINE c == [cur EXCEPT !.body = Append(@, W[n + 1])]
             a == "body"
  <2>3. Goto(a, l, c)
    BY <1>1, <2>2
  <2>4. cur = [command |-> <<f.command>>, len |-> -1, body |-> SubSeq(W, 1, n)]
    BY <1>6 DEF ReadOf
  <2>5. Append(SubSeq(W, 1, n), W[n + 1]) = SubSeq(W, 1, n + 1)
    <3>1. n < Len(W)
      BY <1>9
    <3> HIDE DEF W
    <3>2. QED
      BY <1>7, <2>1, <3>1, OneMore
  <2>6. c = [command |-> <<f.command>>, len |-> -1, body |-> Append(SubSeq(W, 1, n), W[n + 1])]
    <3> DEFINE B == SubSeq(W, 1, n)
               x == W[n + 1]
    <3>1. cur = [command |-> <<f.command>>, len |-> -1, body |-> B]
      BY <2>4
    <3>2. cur.body = B
      BY <3>1
    <3>3. c = [cur EXCEPT !.body = Append(B, x)]
      BY <3>2
    <3> DEFINE e == Append(B, x)
    <3> HIDE DEF B, x, c
    <3>4. c = [cur EXCEPT !.body = e]
      BY <3>3
    <3> HIDE DEF e
    <3>5. c = [command |-> <<f.command>>, len |-> -1, body |-> e]
      BY <3>1, <3>4
    <3>6. QED
      BY <3>5 DEF e, x, B
  <2>7. ReadOf(f, c, -1, n + 1)
    <3> HIDE DEF c
    <3>1. QED
      BY <2>5, <2>6 DEF ReadOf
  <2>8. at' = "body" /\ cur' = c
    BY <2>3 DEF Goto
  <2>9. AtPlace(f, q)'
    <3> DEFINE j == n + 1
    <3>1. j \in 0..w /\ q = 2 * h + 1 + j /\ ReadOf(f, cur', -1, j)
      BY <2>1, <2>7, <2>8
    <3> HIDE DEF j, q
    <3>2. QED
      BY <1>5, <2>8, <3>1, AtPlaceNext
  <2>10. /\ a \in Reading \cup {"endline"} /\ (l # <<>> => a \in {"command", "header"})
         /\ q = p + 1 /\ q \in 1..Len(Symbols(f))
    BY <1>4 DEF Reading
  <2> HIDE DEF a, l, c, q
  <2>11. QED
    BY <1>1, <1>2, <1>4, <2>3, <2>9, <2>10, Moves
<1>10. CASE ~(n < w)
  <2>1. n = w /\ q = 2 * h + 2 + w
    <3> HIDE DEF h, w
    <3>1. QED
      BY <1>6, <1>7, <1>10
  <2> DEFINE a == "endline"
  <2>2. Goto(a, l, cur)
    BY <1>1, <1>8, <1>10
  <2>3. ReadOf(f, cur, -1, Len(Written(f)))
    BY <1>6, <2>1
  <2>4. at' = "endline" /\ cur' = cur
    BY <2>2 DEF Goto
  <2>5. AtPlace(f, q)'
    <3>1. ReadOf(f, cur', -1, Len(Written(f)))
      BY <2>3, <2>4
    <3>2. q = 2 * Len(HeadLines(f)) + 2 + Len(Written(f))
      BY <2>1
    <3> HIDE DEF q
    <3>3. QED
      BY <1>5, <2>4, <3>1, <3>2, AtPlaceNext
  <2>6. /\ a \in Reading \cup {"endline"} /\ (l # <<>> => a \in {"command", "header"})
         /\ q = p + 1 /\ q \in 1..Len(Symbols(f))
    BY <1>4
  <2> HIDE DEF a, l, q
  <2>7. QED
    BY <1>1, <1>2, <1>4, <2>2, <2>5, <2>6, Moves
<1>11. QED
  BY <1>9, <1>10

\* A body never holds NUL NL, so a tail that is NUL NL is the end of the frame.
LEMMA TailIsTheEnd ==
  ASSUME NEW f \in Replies, HasLength(f), ~HoldsEnd(f), NEW n \in 0..Len(Written(f)),
         n = 0 => Written(f) = <<>>,
         Symbols(f)[2 * Len(HeadLines(f)) + 1 + n + 1] = NUL,
         Symbols(f)[2 * Len(HeadLines(f)) + 1 + n + 1 + 1] = NL
  PROVE  n = Len(Written(f))
<1> DEFINE S == Symbols(f)
           h == Len(HeadLines(f))
           W == Written(f)
           w == Len(W)
<1>1. /\ h \in Nat /\ w \in Nat
      /\ \A k \in 0..w : S[2 * h + 1 + k + 1] = IF k < w THEN W[k + 1] ELSE NUL
  BY NextSymbol
<1>2. /\ \A k \in 2..w - 1 : ~(W[k] = NUL /\ W[k + 1] = NL)
  BY RepliesFit
<1>3. S[2 * h + 1 + n + 1] = NUL /\ S[2 * h + 1 + n + 1 + 1] = NL /\ n \in 0..w
  OBVIOUS
<1>4. NUL # NL
  BY DEF NUL, NL
<1>13. n = 0 => w = 0
  OBVIOUS
<1> HIDE DEF S, h, W, w
<1>5. SUFFICES ASSUME n < w
               PROVE  FALSE
  <2>1. n = w
    BY <1>1, <1>3, <1>5
  <2>2. QED
    BY <2>1 DEF w, W
<1>6. W[n + 1] = NUL
  BY <1>1, <1>3, <1>5
<1>7. n + 1 \in 0..w /\ 2 * h + 1 + (n + 1) + 1 = 2 * h + 1 + n + 1 + 1
  BY <1>1, <1>3, <1>5
<1> DEFINE j == n + 1
<1>8. S[2 * h + 1 + j + 1] = IF j < w THEN W[j + 1] ELSE NUL
  <2>1. j \in 0..w
    BY <1>7
  <2> HIDE DEF j
  <2>2. QED
    BY <1>1, <2>1
<1>9. j < w /\ W[j + 1] = NL
  BY <1>3, <1>4, <1>7, <1>8
<1>10. j \in 2..w - 1
  BY <1>1, <1>3, <1>5, <1>9, <1>13
<1>11. W[j] = NUL
  BY <1>6
<1> HIDE DEF j
<1>12. QED
  BY <1>2, <1>9, <1>10, <1>11

\* The two bytes after a body: the end of the frame, or an error.
LEMMA TailReadKeeps ==
  ASSUME Base, Follows, Clear, TailRead
  PROVE  Follows'
<1>1. /\ at = "tail" /\ at \in Reading \cup {"endline"} /\ at # "command" /\ at \notin Over /\ Recv(2)
      /\ IF Received(2) = <<NUL, NL>> THEN Returns(cur) ELSE Dies("general")
  BY DEF TailRead, Reading, Over
<1>2. PICK f, p, b : Facing(f, p, b)
  BY <1>1, Place
<1>3. f \in Replies /\ AtPlace(f, p) /\ p \in 0..Len(Symbols(f)) - 1 /\ f = replied[Len(got) + 1]
  BY <1>2 DEF Facing
<1> DEFINE h == Len(HeadLines(f))
           w == Len(Written(f))
           S == Symbols(f)
<1>4. HasLength(f) /\ \E n \in 0..w : /\ n = 0 => Written(f) = <<>>
                                      /\ p = 2 * h + 1 + n /\ ReadOf(f, cur, f.body_length, n)
  BY <1>1, <1>3, AtPlaceIs
<1>5. PICK n \in 0..w : (n = 0 => Written(f) = <<>>) /\ p = 2 * h + 1 + n /\ ReadOf(f, cur, f.body_length, n)
  BY <1>4
<1>6. /\ h \in Nat \ {0} /\ w \in Nat /\ Len(S) = 2 * h + w + 3
  BY <1>3, NextSymbol
<1>7. CASE Received(2) = <<NUL, NL>>
  <2> DEFINE m == Least(2, Len(down))
  <2>1. /\ m \in Nat /\ m \in 0..Len(down) /\ m <= 2
        /\ down' = SubSeq(down, m + 1, Len(down)) /\ Received(2) = SubSeq(down, 1, m)
    BY <1>1, <1>2, Takes
  <2> HIDE DEF m
  <2>2. /\ down \in Seq(Alphabet) /\ Len(down) \in Nat /\ p \in Nat /\ b \in Nat
        /\ \A k \in 1..Len(down) : p + k <= Len(S) => down[k] = S[p + k]
    BY <1>2, Reads
  <2> DEFINE r == SubSeq(down, 0 + 1, m)
  <2>3. r \in Seq(Alphabet) /\ Len(r) = m - 0 /\ \A k \in 1..m - 0 : r[k] = down[0 + k]
    <3>1. 0 \in Nat /\ 0 <= m /\ m <= Len(down)
      BY <2>1, <2>2
    <3>2. QED
      BY <2>1, <2>2, <3>1, Part
  <2>4. r = Received(2)
    BY <2>1
  <2>5. Len(r) = 2 /\ r[1] = NUL /\ r[2] = NL
    <3> DEFINE t == <<NUL, NL>>
    <3>1. Len(t) = 2 /\ t[1] = NUL /\ t[2] = NL
      OBVIOUS
    <3>2. r = t
      <4> HIDE DEF r
      <4>1. QED
        BY <1>7, <2>4
    <3> HIDE DEF r, t
    <3>3. QED
      BY <3>1, <3>2
  <2> HIDE DEF r
  <2>6. m = 2 /\ down[1] = NUL /\ down[2] = NL
    <3>5. Len(r) = m - 0 /\ Len(r) = 2 /\ m \in Nat
      BY <2>1, <2>3, <2>5
    <3> DEFINE z == Len(r)
    <3>6. z = m - 0 /\ z = 2 /\ m \in Nat
      BY <3>5
    <3> HIDE DEF z
    <3>1. m = 2
      BY <3>6
    <3>2. 1 \in 1..m - 0 /\ 2 \in 1..m - 0 /\ 0 + 1 = 1 /\ 0 + 2 = 2
      BY <3>1
    <3>3. r[1] = down[1] /\ r[2] = down[2]
      BY <2>3, <3>2
    <3>4. QED
      BY <2>5, <3>1, <3>3
  <2>7. 1 \in 1..Len(down) /\ 2 \in 1..Len(down) /\ 2 \in 0..Len(down)
    BY <2>1, <2>2, <2>6
  <2>8. p + 1 <= Len(S) /\ p + 2 <= Len(S) /\ p + 2 = 2 * h + 1 + n + 1 + 1
    <3> HIDE DEF h, w, S
    <3>1. QED
      BY <1>5, <1>6
  <2>9. S[2 * h + 1 + n + 1] = NUL /\ S[2 * h + 1 + n + 1 + 1] = NL
    BY <1>5, <2>2, <2>6, <2>7, <2>8
  <2>16. ~HoldsEnd(f)
    <3>1. Len(got) \in Nat /\ Len(got) < Len(replied) /\ replied \in Seq(Replies)
      BY <1>2, Returning DEF Facing
    <3>2. Len(got) + 1 \in DOMAIN replied
      BY <3>1
    <3>3. QED
      BY <1>3, <3>1, <3>2 DEF Clear
  <2>10. n = w
    BY <1>3, <1>4, <1>5, <2>9, <2>16, TailIsTheEnd
  <2>11. [command |-> cur.command, body |-> cur.body] = Content(f)
    BY <1>3, <1>5, <2>10, WholeContent
  <2>12. /\ Returns(cur) /\ replied' = replied /\ pending' = pending /\ closed' = closed
    BY <1>1, <1>7 DEF Returns, broker
  <2>13. p + 2 = Len(S)
    <3> HIDE DEF h, w, S
    <3>1. QED
      BY <1>5, <1>6, <2>10
  <2>14. Fed(b + Len(S))'
    <3> DEFINE q == b + Len(S)
    <3>1. q = b + (p + m)
      BY <2>6, <2>13
    <3> HIDE DEF q
    <3>2. Fed(q)'
      BY <1>2, <2>1, <2>12, <3>1, FedFurther
    <3>3. QED
      BY <3>2 DEF q
  <2>15. QED
    BY <1>1, <1>2, <2>11, <2>12, <2>14, ReturnsKeeps
<1>8. CASE Received(2) # <<NUL, NL>>
  <2>1. Dies("general")
    BY <1>1, <1>8
  <2>2. HasLength(replied[Len(got) + 1])
    BY <1>3, <1>4
  <2>3. QED
    BY <1>1, <2>1, <2>2, DiesKeeps
<1>9. QED
  BY <1>7, <1>8

\* At the line feed of a frame without a length.
LEMMA AtEndline ==
  ASSUME Base, Follows, at = "endline", NEW f, NEW p, NEW b, Facing(f, p, b)
  PROVE  /\ f \in Replies /\ p + 1 = Len(Symbols(f)) /\ Symbols(f)[p + 1] = NL
         /\ [command |-> cur.command, body |-> cur.body] = Content(f)
<1>1. f \in Replies /\ AtPlace(f, p)
  BY DEF Facing
<1> DEFINE h == Len(HeadLines(f))
           w == Len(Written(f))
           S == Symbols(f)
<1>2. p = 2 * h + 2 + w /\ ReadOf(f, cur, -1, Len(Written(f)))
  BY <1>1, AtPlaceIs
<1>3. /\ h \in Nat \ {0} /\ w \in Nat /\ Len(S) = 2 * h + w + 3 /\ S[2 * h + 2 + w + 1] = NL
  BY <1>1, NextSymbol
<1>4. p + 1 = Len(S) /\ p + 1 = 2 * h + 2 + w + 1
  <2> HIDE DEF h, w, S
  <2>1. QED
    BY <1>2, <1>3
<1>5. QED
  BY <1>1, <1>2, <1>3, <1>4, WholeContent

\* The line feed after the NUL of a body is the last symbol of the frame.
LEMMA EndlineReadKeeps ==
  ASSUME Base, Follows, EndlineRead
  PROVE  Follows'
<1>1. /\ at = "endline" /\ at \in Reading \cup {"endline"} /\ at # "command" /\ Recv(1)
      /\ Head(down) = NL => Returns(cur)
  BY DEF EndlineRead
<1>2. PICK f, p, b : Facing(f, p, b)
  BY <1>1, Place
<1> DEFINE S == Symbols(f)
<1>3. /\ f \in Replies /\ p + 1 = Len(S) /\ S[p + 1] = NL
      /\ [command |-> cur.command, body |-> cur.body] = Content(f)
  BY <1>1, <1>2, AtEndline
<1>4. /\ 1 \in 0..Len(down) /\ down' = SubSeq(down, 1 + 1, Len(down))
      /\ p \in Nat /\ p + 1 \in 1..Len(S) /\ Head(down) = S[p + 1]
  BY <1>1, <1>2, ReadsOne
<1>5. Returns(cur)
  BY <1>1, <1>3, <1>4
<1>6. replied' = replied /\ pending' = pending /\ closed' = closed
  BY <1>5 DEF Returns, broker
<1>7. Fed(b + Len(S))'
  <2> DEFINE q == b + Len(S)
  <2>1. q = b + (p + 1)
    BY <1>3
  <2> HIDE DEF q
  <2>2. Fed(q)'
    BY <1>2, <1>4, <1>6, <2>1, FedFurther
  <2>3. QED
    BY <2>2 DEF q
<1>8. QED
  BY <1>1, <1>2, <1>3, <1>5, <1>7, ReturnsKeeps

\* The same when it did not come: the frame is whole but for it.
LEMMA EndlineAtEofKeeps ==
  ASSUME Base, Follows, EndlineAtEof
  PROVE  Follows'
<1>1. /\ at = "endline" /\ at \in Reading \cup {"endline"} /\ at # "command" /\ at \notin Over
      /\ closed /\ down = <<>> /\ down' = down
      /\ Returns(cur) \/ Dies("general")
  BY DEF EndlineAtEof, Over
<1>2. PICK f, p, b : Facing(f, p, b)
  BY <1>1, Place
<1> DEFINE F == Symbols(f)
           q == b + Len(F)
           S == SaidOf(replied, Len(replied))
           n == Len(got)
<1>3. [command |-> cur.command, body |-> cur.body] = Content(f)
  BY <1>1, <1>2, AtEndline
<1>4. CASE Returns(cur)
  <2>1. replied' = replied /\ pending' = pending /\ closed' = closed
    BY <1>4 DEF Returns, broker
  <2>2. q = Len(SaidOf(replied, n + 1)) /\ q \in Nat
    BY <1>2, Reads
  <2>3. n + 1 \in 1..Len(replied) /\ replied \in Seq(Replies) /\ Len(replied) \in 0..Len(replied)
    <3>1. n < Len(replied) /\ n \in Nat /\ replied \in Seq(Replies)
      BY <1>2, Returning DEF Facing
    <3>2. Len(replied) \in Nat
      BY <3>1
    <3> HIDE DEF n
    <3>3. QED
      BY <3>1, <3>2
  <2>4. q <= Len(S)
    <3> DEFINE i == n + 1
    <3>1. i \in 1..Len(replied)
      BY <2>3
    <3> HIDE DEF i
    <3>2. Len(SaidOf(replied, i)) <= Len(S)
      BY <2>3, <3>1, SaidPlace
    <3>3. QED
      BY <2>2, <3>2 DEF i
  <2>5. S \in Seq(Alphabet)
    BY <2>3, SaidGrows
  <2>6. FedOf(S, <<>>, q, pending, TRUE)
    <3> HIDE DEF S, q
    <3> DEFINE d == <<>>
    <3>1. d \in Seq(Alphabet) /\ Len(d) = 0
      OBVIOUS
    <3> HIDE DEF d
    <3>2. q + Len(d) <= Len(S) /\ \A k \in 1..Len(d) : d[k] = S[q + k]
      BY <2>2, <2>4, <3>1
    <3>3. FedOf(S, d, q, pending, TRUE)
      BY <2>2, <2>5, <3>1, <3>2, IsFed
    <3>4. QED
      BY <3>3 DEF d
  <2>7. FedOf(SaidOf(replied', Len(replied')), down', q, pending', closed')
    <3>1. closed' = TRUE
      BY <1>1, <2>1 DEF Base, Follows, TypeOK
    <3>2. QED
      BY <1>1, <2>1, <2>6, <3>1
  <2>8. Fed(q)'
    <3> HIDE DEF q
    <3>1. QED
      BY <2>7, FedIs
  <2>9. QED
    BY <1>1, <1>2, <1>3, <1>4, <2>8, ReturnsKeeps
<1>5. CASE Dies("general")
  BY <1>1, <1>5, DiesKeeps
<1>6. QED
  BY <1>1, <1>4, <1>5

\* The end of the stream is an error.
LEMMA RecvFailsKeeps ==
  ASSUME Base, Follows, RecvFails
  PROVE  Follows'
<1>1. at \notin Over /\ Dies("recv")
  BY DEF RecvFails, Reading, Over
<1>2. QED
  BY <1>1, DiesKeeps

-----------------------------------------------------------------------------
(* The steps of main and of stomp_write. *)

\* Outside stomp_read the next symbol to come is the first of a frame.
LEMMA Resting ==
  ASSUME Base, Follows, at \in {"connect", "call", "write"}
  PROVE  Between /\ Fed(Len(Said(Len(got))))
<1>1. at \notin Over
  BY DEF Over
<1>2. \A f, p : ~AtPlace(f, p)
  BY Zenon DEF AtPlace
<1>3. QED
  BY <1>1, <1>2 DEF Base, Follows, InStep

\* And it stays so until stomp_read receives it.
LEMMA StillBetween ==
  ASSUME Base, Follows, at \in {"connect", "call", "write"}, at' \in {"connect", "call", "write", "command"},
         UNCHANGED <<down, line, cur, got, broker>>
  PROVE  InStep'
<1>1. Between /\ Fed(Len(Said(Len(got))))
  BY Resting
<1>2. Between'
  BY <1>1 DEF Between
<1>3. Fed(Len(Said(Len(got))))'
  BY <1>1 DEF Fed, Said, broker
<1>4. QED
  BY <1>2, <1>3 DEF InStep

\* stomp_connect.
LEMMA ConnectKeeps ==
  ASSUME Base, Follows, Connect
  PROVE  Follows'
<1>1. at = "connect" /\ at \notin Over
  BY DEF Connect, Over
<1>2. CASE at' = "call" /\ UNCHANGED <<step, why, out, up, down, reading, broker>>
  <2>1. InStep'
    BY <1>1, <1>2, StillBetween DEF reading
  <2>5. Returned'
    BY <1>2 DEF Base, Follows, Returned, reading, broker
  <2>6. PlainIsNeverRefused'
    BY <1>2 DEF PlainIsNeverRefused
  <2>7. QED
    BY <2>1, <2>5, <2>6 DEF Follows
<1>3. CASE Dies("connect")
  BY <1>1, <1>3, DiesKeeps
<1>4. QED
  BY <1>2, <1>3 DEF Connect

\* stomp_read begins.
LEMMA ReadBeginsKeeps ==
  ASSUME Base, Follows, ReadBegins
  PROVE  Follows'
<1>1. /\ at = "call" /\ at' = "command" /\ main[step] = Read
      /\ UNCHANGED <<step, why, out, up, down, reading, broker>>
  BY DEF ReadBegins
<1>2. InStep'
  BY <1>1, StillBetween DEF reading
<1>6. Returned'
  BY <1>1 DEF Base, Follows, Returned, reading, broker
<1>7. PlainIsNeverRefused'
  BY <1>1 DEF PlainIsNeverRefused
<1>8. QED
  BY <1>2, <1>6, <1>7 DEF Follows

\* stomp_write begins: its buffers make up the next part of the stream.
LEMMA WriteBeginsKeeps ==
  ASSUME Base, Follows, WriteBegins
  PROVE  Follows'
<1>1. at = "call" /\ at' = "write" /\ UNCHANGED <<step, why, up, down, reading, broker>>
  BY DEF WriteBegins
<1>2. InStep'
  BY <1>1, StillBetween DEF reading
<1>3. Returned'
  BY <1>1 DEF Base, Follows, Returned, reading, broker
<1>4. PlainIsNeverRefused'
  BY <1>1 DEF PlainIsNeverRefused
<1>5. QED
  BY <1>2, <1>3, <1>4 DEF Follows

\* A send fails.
LEMMA SendFailsKeeps ==
  ASSUME Base, Follows, SendFails
  PROVE  Follows'
<1>1. at \notin Over /\ Dies("send")
  BY DEF SendFails, Over
<1>2. QED
  BY <1>1, DiesKeeps

\* stomp_disconnect, when all of main has been written.
LEMMA DisconnectsKeeps ==
  ASSUME Base, Follows, Disconnects
  PROVE  Follows'
<1>1. at = "call" /\ at \notin Over /\ main[step] = Disconnect
  BY DEF Disconnects, Over
<1>2. step \in 1..7
  BY MainIs DEF Base, Follows, TypeOK
<1>3. CASE at' = "done" /\ UNCHANGED <<step, why, out, up, reading, broker>>
  <2>1. Returned'
    BY <1>3 DEF Base, Follows, Returned, reading, broker
  <2>2. InStep' /\ PlainIsNeverRefused'
    BY <1>3 DEF InStep, PlainIsNeverRefused, Over
  <2>3. QED
    BY <2>1, <2>2 DEF Follows
<1>4. CASE Dies("general")
  <2>1. main[step] # Read
    BY <1>1, <1>2, MainIs
  <2>2. QED
    BY <1>1, <1>4, <2>1, DiesKeeps
<1>5. QED
  BY <1>3, <1>4 DEF Disconnects

\* stomp_write_buffer: symbols move from the buffers to the broker.
LEMMA SendKeeps ==
  ASSUME Base, Follows, at = "write", NEW k \in DOMAIN Head(out), Send(k)
  PROVE  Follows'
<1>1. at' \in {"call", "write"} /\ UNCHANGED <<why, down, reading, broker>>
  BY DEF Send
<1>2. InStep'
  BY <1>1, StillBetween DEF reading
<1>3. Returned'
  BY <1>1 DEF Base, Follows, Returned, reading, broker
<1>4. PlainIsNeverRefused'
  BY <1>1 DEF PlainIsNeverRefused
<1>5. QED
  BY <1>2, <1>3, <1>4 DEF Follows

-----------------------------------------------------------------------------
(* The steps of the broker. *)

\* A step of the broker that keeps what is next for the client.
LEMMA BrokerKeeps ==
  ASSUME Base, Follows, at \notin Over, UNCHANGED <<client, out, up, reading>>,
         replied' \in Seq(Replies), Len(replied) <= Len(replied'),
         \A i \in 1..Len(replied) : replied'[i] = replied[i],
         Len(SaidOf(replied', Len(got))) = Len(SaidOf(replied, Len(got))),
         closed' \in BOOLEAN,
         \A P \in Nat : Fed(P) => Fed(P)'
  PROVE  Follows'
<1> DEFINE n == Len(got)
           N == Len(replied)
<1>0. PICK b : b = Len(SaidOf(replied, n))
  OBVIOUS
<1>1. /\ step' = step /\ at' = at /\ why' = why /\ out' = out /\ up' = up
      /\ line' = line /\ cur' = cur /\ got' = got
  BY DEF client, reading
<1>2. n \in Nat /\ N \in Nat /\ n <= N /\ Len(replied') \in Nat /\ replied \in Seq(Replies)
  BY Returning
<1>3. b \in Nat
  <2> DEFINE s == SaidOf(replied, n)
  <2>1. n \in 0..Len(replied)
    BY <1>2
  <2>2. s \in Seq(Alphabet)
    BY <1>2, <2>1, SaidGrows
  <2> HIDE DEF s
  <2>3. Len(s) \in Nat
    BY <2>2
  <2>4. QED
    BY <1>0, <2>3 DEF s
<1>4. Len(Said(Len(got))) = b /\ Len(Said(Len(got)))' = b
  BY <1>0, <1>1 DEF Said, SaidOf
<1>7. Returned'
  <2>1. \A i \in 1..n : i \in 1..N /\ got[i] = Content(replied[i])
    BY <1>2, Returning
  <2>2. n <= Len(replied')
    BY <1>2
  <2>3. got \in Seq({Content(f) : f \in Replies})
    BY Returning
  <2>4. QED
    BY <1>1, <2>1, <2>2, <2>3 DEF Returned
<1>8. InStep'
  <2>1. CASE Between /\ Fed(b)
    <3>1. Fed(b)'
      BY <1>3, <2>1
    <3>2. Between'
      BY <1>1, <2>1 DEF Between
    <3>3. QED
      BY <1>4, <3>1, <3>2 DEF InStep
  <2>2. CASE /\ n < N
             /\ LET f == replied[n + 1]
                IN  \E p \in 1..Len(Symbols(f)) : AtPlace(f, p) /\ Fed(b + p)
    <3>0. PICK f : f = replied[n + 1]
      OBVIOUS
    <3>1. PICK p \in 1..Len(Symbols(f)) : AtPlace(f, p) /\ Fed(b + p)
      BY <2>2, <3>0
    <3>2. replied'[n + 1] = f /\ n < Len(replied')
      <4>1. n + 1 \in 1..N
        BY <1>2, <2>2
      <4>2. QED
        BY <1>2, <2>2, <3>0, <4>1
    <3>3. AtPlace(f, p)'
      BY <1>1, <3>1, Zenon DEF AtPlace, ReadOf
    <3>4. Fed(b + p)'
      <4>1. b + p \in Nat
        BY <1>3
      <4>2. QED
        BY <3>1, <4>1
    <3>5. QED
      BY <1>1, <1>4, <3>1, <3>2, <3>3, <3>4 DEF InStep
  <2>3. QED
    BY <1>4, <2>1, <2>2 DEF Base, Follows, InStep
<1>9. PlainIsNeverRefused'
  BY <1>1 DEF PlainIsNeverRefused, Over
<1>10. QED
  BY <1>7, <1>8, <1>9 DEF Follows

\* A reply adds to the end of what has been said.
LEMMA ReplyKeeps ==
  ASSUME Base, Follows, at \notin Over, NEW f \in Replies, Reply(f)
  PROVE  Follows'
<1>1. /\ ~closed /\ replied' = Append(replied, f) /\ pending' = pending \o Symbols(f)
      /\ UNCHANGED <<client, out, up, down, reading, closed>>
  BY DEF Reply
<1> DEFINE n == Len(got)
           N == Len(replied)
<1>2. n \in Nat /\ N \in Nat /\ n <= N /\ replied \in Seq(Replies)
  BY Returning
<1>3. /\ replied' \in Seq(Replies) /\ Len(replied') = N + 1 /\ N <= Len(replied')
      /\ \A i \in 1..N : replied'[i] = replied[i]
      /\ replied'[N + 1] = f
  BY <1>1, <1>2
<1>4. n \in 0..Len(replied) /\ N \in 0..Len(replied)
  BY <1>2
<1>5. SaidOf(replied', n) = SaidOf(replied, n) /\ SaidOf(replied', N) = SaidOf(replied, N)
  BY <1>1, <1>2, <1>4, SaidSame
<1> DEFINE S == SaidOf(replied, N)
           T == Symbols(f)
<1>6. S \in Seq(Alphabet) /\ T \in Seq(Alphabet)
  BY <1>2, <1>4, SaidGrows, SymbolsType
<1>7. SaidOf(replied', Len(replied')) = S \o T
  <2> DEFINE r == replied'
             m == N + 1
  <2>1. r \in Seq(Replies) /\ m \in 1..Len(r) /\ m - 1 = N /\ r[m] = f
    BY <1>2, <1>3
  <2>2. SaidOf(r, N) = S /\ Len(r) = m
    BY <1>3, <1>5
  <2> HIDE DEF r, m
  <2>3. SaidOf(r, m) = SaidOf(r, m - 1) \o Symbols(r[m])
    BY <2>1, SaidGrows
  <2>4. SaidOf(r, Len(r)) = S \o T
    <3> HIDE DEF S, T, N
    <3>1. QED
      BY <2>1, <2>2, <2>3 DEF T
  <2>5. QED
    BY <2>4 DEF r
<1>8. ASSUME NEW P \in Nat, Fed(P)
      PROVE  Fed(P)'
  <2>1. FedOf(S, down, P, pending, closed)
    BY <1>8, FedIs
  <2>2. FedOf(S \o T, down, P, pending \o T, closed)
    <3> HIDE DEF S, T
    <3>1. QED
      BY <1>1, <1>6, <2>1, FedLonger
  <2>3. FedOf(SaidOf(replied', Len(replied')), down', P, pending', closed')
    BY <1>1, <1>7, <2>2
  <2>4. QED
    BY <2>3, FedIs
<1>9. closed' \in BOOLEAN /\ Len(SaidOf(replied', n)) = Len(SaidOf(replied, n))
  BY <1>1, <1>5 DEF Base, Follows, TypeOK
<1>10. QED
  BY <1>1, <1>3, <1>8, <1>9, BrokerKeeps

\* Symbols arrive in their order.
LEMMA ArrivalKeeps ==
  ASSUME Base, Follows, at \notin Over, Arrival
  PROVE  Follows'
<1>1. PICK k \in DOMAIN pending : Arrive(k)
  BY DEF Arrival
<1>2. /\ ~closed /\ down' = down \o SubSeq(pending, 1, k)
      /\ pending' = SubSeq(pending, k + 1, Len(pending))
      /\ UNCHANGED <<client, out, up, reading, replied, closed>>
  BY <1>1 DEF Arrive
<1>3. replied \in Seq(Replies) /\ Len(replied) \in 0..Len(replied)
  BY Returning
<1> DEFINE S == SaidOf(replied, Len(replied))
<1>4. S \in Seq(Alphabet)
  BY <1>3, SaidGrows
<1>5. ASSUME NEW P \in Nat, Fed(P)
      PROVE  Fed(P)'
  <2>1. FedOf(S, down, P, pending, closed)
    BY <1>5, FedIs
  <2>2. FedOf(S, down', P, pending', closed)
    <3> HIDE DEF S
    <3>1. pending \in Seq(Alphabet)
      BY <1>2, <1>4, <2>1, FedReads
    <3>2. k \in 1..Len(pending)
      BY <3>1
    <3>3. FedOf(S, down \o SubSeq(pending, 1, k), P, SubSeq(pending, k + 1, Len(pending)), closed)
      BY <1>2, <1>4, <2>1, <3>2, FedMore
    <3>4. QED
      BY <1>2, <3>3
  <2>3. FedOf(SaidOf(replied', Len(replied')), down', P, pending', closed')
    BY <1>2, <2>2
  <2>4. QED
    BY <2>3, FedIs
<1>6. closed' \in BOOLEAN
  BY <1>2 DEF Base, Follows, TypeOK
<1>7. /\ Len(SaidOf(replied', Len(got))) = Len(SaidOf(replied, Len(got)))
      /\ replied' \in Seq(Replies) /\ Len(replied) <= Len(replied')
      /\ \A i \in 1..Len(replied) : replied'[i] = replied[i]
  BY <1>2, <1>3
<1>8. QED
  BY <1>2, <1>5, <1>6, <1>7, BrokerKeeps

\* A close takes symbols from the end, and may take all of them.
LEMMA CloseKeeps ==
  ASSUME Base, Follows, at \notin Over, Close
  PROVE  Follows'
<1>1. /\ closed' = TRUE /\ down' \in {down, <<>>}
      /\ UNCHANGED <<client, out, up, reading, replied>>
  BY DEF Close
<1>2. replied \in Seq(Replies) /\ Len(replied) \in 0..Len(replied)
  BY Returning
<1> DEFINE S == SaidOf(replied, Len(replied))
<1>3. S \in Seq(Alphabet)
  BY <1>2, SaidGrows
<1>4. ASSUME NEW P \in Nat, Fed(P)
      PROVE  Fed(P)'
  <2>1. FedOf(S, down, P, pending, closed)
    BY <1>4, FedIs
  <2>2. FedOf(S, down', P, pending', TRUE)
    <3> HIDE DEF S
    <3>1. QED
      BY <1>1, <1>3, <2>1, FedNoMore
  <2>3. FedOf(SaidOf(replied', Len(replied')), down', P, pending', closed')
    BY <1>1, <2>2
  <2>4. QED
    BY <2>3, FedIs
<1>5. /\ closed' \in BOOLEAN /\ Len(SaidOf(replied', Len(got))) = Len(SaidOf(replied, Len(got)))
      /\ replied' \in Seq(Replies) /\ Len(replied) <= Len(replied')
      /\ \A i \in 1..Len(replied) : replied'[i] = replied[i]
  BY <1>1, <1>2
<1>6. QED
  BY <1>1, <1>4, <1>5, BrokerKeeps

-----------------------------------------------------------------------------
(* What holds wherever the reader is. *)

FrameSoFar == [command : Seq(Alphabet), len : Int, body : Seq(Alphabet)]

\* The letters of two lists.
LEMMA OneOfTwo ==
  ASSUME NEW a, NEW b
  PROVE  /\ ToSet(<<a, b>>) = {a, b}
         /\ ToSet(<<a>>) = {a}
         /\ ToSet(<<>>) = {}
<1>1. ToSet(<<a, b>>) = {a, b}
  BY DEF ToSet
<1>2. ToSet(<<a>>) = {a}
  BY DEF ToSet
<1>3. ToSet(<<>>) = {}
  BY DEF ToSet
<1>4. QED
  BY <1>1, <1>2, <1>3

\* The frames of main are texts under headers.
LEMMA MyLetters ==
  ASSUME NEW f \in {CONNECT, SUB, SEND, DISCONNECT}
  PROVE  /\ f.command.kind = "text"
         /\ \A h \in ToSet(f.headers) : h.kind = "header"
         /\ \A c \in ToSet(f.body) : c.kind = "text"
<1> DEFINE h1 == Header("login")
           h2 == Header("passcode")
           h3 == Header("destination")
           t1 == Text("This is the")
           t2 == Text(" message")
<1>1. /\ CONNECT.headers = <<h1, h2>> /\ CONNECT.body = <<>>
      /\ SUB.headers = <<h3>> /\ SUB.body = <<>>
      /\ SEND.headers = <<h3>> /\ SEND.body = <<t1, t2>>
      /\ DISCONNECT.headers = <<>> /\ DISCONNECT.body = <<>>
  BY DEF CONNECT, SUB, SEND, DISCONNECT, Plain
<1>2. /\ CONNECT.command = Text("CONNECT") /\ SUB.command = Text("SUB")
      /\ SEND.command = Text("SEND") /\ DISCONNECT.command = Text("DISCONNECT")
  BY DEF CONNECT, SUB, SEND, DISCONNECT, Plain
<1>3. \A t : Text(t).kind = "text"
  BY DEF Text
<1>4. /\ h1.kind = "header" /\ h2.kind = "header" /\ h3.kind = "header"
      /\ t1.kind = "text" /\ t2.kind = "text"
  BY <1>3 DEF Header
<1> HIDE DEF h1, h2, h3, t1, t2
<1>5. /\ ToSet(<<h1, h2>>) = {h1, h2} /\ ToSet(<<h3>>) = {h3} /\ ToSet(<<t1, t2>>) = {t1, t2}
      /\ ToSet(<<>>) = {}
  BY OneOfTwo
<1>6. \A h \in ToSet(f.headers) : h.kind = "header"
  BY <1>1, <1>4, <1>5
<1>7. \A c \in ToSet(f.body) : c.kind = "text"
  BY <1>1, <1>4, <1>5
<1>8. f.command.kind = "text"
  BY <1>2, <1>3
<1>9. QED
  BY <1>6, <1>7, <1>8

\* A content length is a number, in a header or in a body.
LEMMA LengthsAreNumbers ==
  ASSUME NEW s \in Alphabet, s.kind = "length"
  PROVE  s.n \in Int
<1>1. PICK f \in Replies \cup {CONNECT, SUB, SEND, DISCONNECT} : s \in Letters(f)
  BY DEF Alphabet
<1>2. NUL.kind = "nul" /\ NL.kind = "nl"
  BY DEF NUL, NL
<1>3. IsFrame(f)
  BY <1>1, RepliesFit, MineFit
<1>4. f.body_length \in Int /\ ContentLength(f.body_length).n = f.body_length
  BY <1>3 DEF IsFrame, ContentLength
<1>5. f.command.kind = "text" /\ \A h \in ToSet(f.headers) : h.kind = "header"
  <2>1. CASE f \in Replies
    BY <2>1, RepliesFit
  <2>2. CASE f \in {CONNECT, SUB, SEND, DISCONNECT}
    BY <2>2, MyLetters
  <2>3. QED
    BY <1>1, <2>1, <2>2
<1>6. \A c \in ToSet(f.body) : c.kind = "length" => c.n \in Int
  <2>1. CASE f \in Replies
    BY <2>1, RepliesFit
  <2>2. CASE f \in {CONNECT, SUB, SEND, DISCONNECT}
    BY <2>2, MyLetters
  <2>3. QED
    BY <1>1, <2>1, <2>2
<1>7. QED
  BY <1>1, <1>2, <1>4, <1>5, <1>6 DEF Letters

\* What recv takes, and what it leaves, are symbols.
LEMMA Drawn ==
  ASSUME Base, NEW n \in Nat, Recv(n)
  PROVE  /\ down' \in Seq(Alphabet) /\ Head(down) \in Alphabet
         /\ Received(n) \in Seq(Alphabet) /\ Len(Received(n)) <= n
<1> DEFINE d == Len(down)
           m == Least(n, d)
<1>1. down \in Seq(Alphabet) /\ down # <<>> /\ down' = SubSeq(down, m + 1, d)
  BY DEF Base, TypeOK, Recv
<1>2. d \in Nat /\ d > 0 /\ Head(down) \in Alphabet
  BY <1>1
<1>3. m \in Nat /\ m <= n /\ m <= Len(down) /\ 0 <= m /\ 0 \in Nat /\ d <= Len(down)
  <2> HIDE DEF d
  <2>1. m \in Nat /\ m <= n /\ m <= d
    BY <1>2 DEF Least
  <2>2. QED
    BY <1>2, <2>1 DEF d
<1>4. Received(n) = SubSeq(down, 0 + 1, m)
  BY DEF Received
<1> HIDE DEF d, m
<1>5. SubSeq(down, m + 1, d) \in Seq(Alphabet)
  BY <1>1, <1>2, <1>3, Part DEF d
<1>6. SubSeq(down, 0 + 1, m) \in Seq(Alphabet) /\ Len(SubSeq(down, 0 + 1, m)) = m - 0
  BY <1>1, <1>3, Part
<1>7. QED
  BY <1>1, <1>2, <1>3, <1>4, <1>5, <1>6

\* A step within stomp_read.
LEMMA BaseGoto ==
  ASSUME Base, at \in Reading \cup {"endline"}, NEW a \in Reading \cup {"endline"},
         NEW l \in Seq(Alphabet), NEW c \in FrameSoFar, Goto(a, l, c), down' \in Seq(Alphabet),
         l # <<>> => a \in {"command", "header"},
         a \in {"command", "header", "length"} => c.body = <<>>,
         a = "tail" => Len(c.body) <= c.len
  PROVE  Base'
<1>1. /\ at' = a /\ line' = l /\ cur' = c /\ step' = step /\ why' = why /\ out' = out /\ up' = up
      /\ got' = got /\ replied' = replied /\ pending' = pending /\ closed' = closed
  BY DEF Goto, broker
<1>2. /\ a \in {"command", "header", "length", "tail", "body", "endline"}
      /\ at \in {"command", "header", "length", "tail", "body", "endline"}
  BY DEF Reading
<1>3. TypeOK'
  <2>1. /\ step \in DOMAIN main /\ out = <<>> /\ why = "" /\ closed \in BOOLEAN
        /\ up \in Seq(Alphabet) /\ pending \in Seq(Alphabet) /\ replied \in Seq(Replies)
        /\ got \in Seq([command : Seq(Alphabet), body : Seq(Alphabet)])
    BY <1>2 DEF Base, TypeOK
  <2>2. c.body \in Seq(Alphabet) /\ c \in [command : Seq(Alphabet), len : Int, body : Seq(Alphabet)]
    BY DEF FrameSoFar
  <2>3. QED
    BY <1>1, <1>2, <2>1, <2>2 DEF TypeOK, Reading, Over
<1>4. WrittenWhole'
  BY <1>1, <1>2, Zenon DEF WrittenWhole, Base, Over
<1>5. Writes'
  BY <1>1, <1>2, Zenon DEF Writes, Base, Reading
<1>6. QED
  BY <1>3, <1>4, <1>5 DEF Base

\* stomp_read returns.
LEMMA BaseReturns ==
  ASSUME Base, at \in Reading \cup {"endline"}, Returns(cur), down' \in Seq(Alphabet)
  PROVE  Base'
<1>1. /\ at' = "call" /\ line' = <<>> /\ cur' = NoFrame /\ step' = step + 1 /\ why' = why
      /\ out' = out /\ up' = up /\ got' = Append(got, [command |-> cur.command, body |-> cur.body])
      /\ replied' = replied /\ pending' = pending /\ closed' = closed
  BY DEF Returns, broker
<1>2. /\ at \in {"command", "header", "length", "tail", "body", "endline"} /\ main[step] = Read
      /\ step \in 1..7
  <2>1. at \in {"command", "header", "length", "tail", "body", "endline"}
    BY DEF Reading
  <2>2. step \in 1..7
    BY MainIs DEF Base, TypeOK
  <2>3. main[step] = Read
    BY DEF Base, Writes
  <2>4. QED
    BY <2>1, <2>2, <2>3
<1>3. step + 1 \in 1..7 /\ (step + 1) - 1 = step
  BY <1>2, MainIs
<1>4. TypeOK'
  <2>1. /\ NoFrame \in [command : Seq(Alphabet), len : Int, body : Seq(Alphabet)]
        /\ NoFrame.body = <<>>
    BY DEF NoFrame
  <2>2. step' \in DOMAIN main
    BY <1>1, <1>3, MainIs
  <2>3. /\ out = <<>> /\ why = "" /\ closed \in BOOLEAN
        /\ up \in Seq(Alphabet) /\ pending \in Seq(Alphabet) /\ replied \in Seq(Replies)
    BY <1>2 DEF Base, TypeOK
  <2>4. got' \in Seq([command : Seq(Alphabet), body : Seq(Alphabet)])
    <3> DEFINE G == [command : Seq(Alphabet), body : Seq(Alphabet)]
               x == [command |-> cur.command, body |-> cur.body]
    <3>1. got \in Seq(G) /\ x \in G
      BY DEF Base, TypeOK
    <3> HIDE DEF G, x
    <3>2. Append(got, x) \in Seq(G)
      BY <3>1
    <3>3. QED
      BY <1>1, <3>2 DEF G, x
  <2>5. <<>> \in Seq(Alphabet)
    OBVIOUS
  <2>6. QED
    BY <1>1, <2>1, <2>2, <2>3, <2>4, <2>5 DEF TypeOK, Reading, Over
<1>5. up = Stream(step)
  BY <1>2, ReadWritesNothing DEF Base, WrittenWhole, Over
<1>6. WrittenWhole'
  <2>1. IsPrefix(Stream(step), Stream(step + 1))
    BY <1>3, StreamPrefix
  <2>2. IsPrefix(up, Stream(step))'
    BY <1>1, <1>5, <2>1
  <2>3. up' = Stream(step' - 1)
    BY <1>1, <1>3, <1>5
  <2>4. at' # "done"
    BY <1>1
  <2>5. QED
    BY <2>2, <2>3, <2>4 DEF WrittenWhole
<1>7. Writes'
  BY <1>1 DEF Writes, Base, Reading
<1>8. QED
  BY <1>4, <1>6, <1>7 DEF Base

\* The session fails.
LEMMA BaseDies ==
  ASSUME Base, NEW r \in {"connect", "send", "recv", "general"}, Dies(r), down' \in Seq(Alphabet)
  PROVE  Base'
<1>1. /\ at' = "dead" /\ line' = <<>> /\ cur' = NoFrame /\ step' = step /\ why' = r
      /\ out' = <<>> /\ up' = up /\ got' = got
      /\ replied' = replied /\ pending' = pending /\ closed' = closed
  BY DEF Dies, broker
<1>2. TypeOK'
  <2>1. /\ NoFrame \in [command : Seq(Alphabet), len : Int, body : Seq(Alphabet)]
        /\ NoFrame.body = <<>> /\ <<>> \in Seq(Alphabet)
    BY DEF NoFrame
  <2>2. QED
    BY <1>1, <2>1 DEF TypeOK, Base, Reading, Over
<1>3. WrittenWhole'
  BY <1>1 DEF WrittenWhole, Base, Over
<1>4. Writes'
  <2>1. <<>> \in Seq(Seq(Alphabet) \ {<<>>})
    OBVIOUS
  <2>2. QED
    BY <1>1, <2>1 DEF Writes, Base, Reading
<1>5. QED
  BY <1>2, <1>3, <1>4 DEF Base

\* A step that leaves the client, what it has read and what it has written alone.
LEMMA BaseSame ==
  ASSUME Base, UNCHANGED <<client, out, up, reading>>, down' \in Seq(Alphabet),
         pending' \in Seq(Alphabet), replied' \in Seq(Replies), closed' \in BOOLEAN
  PROVE  Base'
<1>1. /\ step' = step /\ at' = at /\ why' = why /\ out' = out /\ up' = up
      /\ line' = line /\ cur' = cur /\ got' = got
  BY DEF client, reading
<1>2. TypeOK'
  BY <1>1 DEF Base, TypeOK
<1>3. WrittenWhole' /\ Writes'
  BY <1>1 DEF Base, WrittenWhole, Writes
<1>4. QED
  BY <1>2, <1>3 DEF Base

\* The steps of main and of stomp_write.
LEMMA BaseConnect ==
  ASSUME Base, Connect
  PROVE  Base'
<1>1. at = "connect" /\ down' = down /\ down \in Seq(Alphabet)
  BY DEF Connect, Base, TypeOK
<1>2. CASE at' = "call" /\ UNCHANGED <<step, why, out, up, down, reading, broker>>
  <2>1. TypeOK'
    BY <1>1, <1>2 DEF Base, TypeOK, reading, broker, Reading, Over
  <2>2. WrittenWhole'
    BY <1>1, <1>2 DEF Base, WrittenWhole, Over
  <2>3. Writes'
    BY <1>1, <1>2 DEF Base, Writes, Reading
  <2>4. QED
    BY <2>1, <2>2, <2>3 DEF Base
<1>3. CASE Dies("connect")
  BY <1>1, <1>3, BaseDies
<1>4. QED
  BY <1>2, <1>3 DEF Connect

\* stomp_read begins.
LEMMA BaseReadBegins ==
  ASSUME Base, ReadBegins
  PROVE  Base'
<1>1. /\ at = "call" /\ at' = "command" /\ main[step] = Read
      /\ UNCHANGED <<step, why, out, up, down, reading, broker>>
  BY DEF ReadBegins
<1>2. NoFrame.body = <<>>
  BY DEF NoFrame
<1>3. TypeOK'
  BY <1>1, <1>2 DEF Base, TypeOK, reading, broker, Reading, Over
<1>4. WrittenWhole'
  BY <1>1 DEF Base, WrittenWhole, Over
<1>5. Writes'
  BY <1>1 DEF Base, Writes, Reading
<1>6. QED
  BY <1>3, <1>4, <1>5 DEF Base

\* stomp_write begins: its buffers make up the next part of the stream.
LEMMA BaseWriteBegins ==
  ASSUME Base, WriteBegins
  PROVE  Base'
<1> DEFINE f == main[step].frame
<1>1. /\ at = "call" /\ at' = "write" /\ main[step].op = "write" /\ out' = Buffers(f)
      /\ UNCHANGED <<step, why, up, down, reading, broker>>
  BY DEF WriteBegins
<1>2. step \in 1..7
  BY MainIs DEF Base, TypeOK
<1>3. IsFrame(f) /\ Letters(f) \subseteq Alphabet
  <2>1. f \in {CONNECT, SUB, SEND, DISCONNECT}
    BY <1>1, <1>2, MainIs
  <2> HIDE DEF f
  <2>2. QED
    BY <2>1, MineFit
<1>4. Buffers(f) \in Seq(Seq(Alphabet) \ {<<>>}) /\ Buffers(f) # <<>>
  <2> HIDE DEF f
  <2>1. QED
    BY <1>3, Wire
<1>5. Stream(step) = Stream(step - 1) \o Wrote(step)
  BY <1>2, StreamGrows
<1>6. up = Stream(step - 1) /\ IsPrefix(up, Stream(step))
  BY <1>1 DEF Base, WrittenWhole, Over
<1>7. up \o FlattenSeq(Buffers(f)) = Stream(step)
  BY <1>1, <1>5, <1>6 DEF Wrote, Symbols
<1>8. TypeOK'
  <2> HIDE DEF f
  <2>1. QED
    BY <1>1, <1>4 DEF Base, TypeOK, reading, broker, Reading, Over
<1>9. WrittenWhole'
  BY <1>1, <1>6 DEF WrittenWhole
<1>10. Writes'
  <2> HIDE DEF f
  <2>1. QED
    BY <1>1, <1>4, <1>7 DEF Base, Writes, Reading
<1>11. QED
  BY <1>8, <1>9, <1>10 DEF Base

\* stomp_disconnect, when all of main has been written.
LEMMA BaseDisconnects ==
  ASSUME Base, Disconnects
  PROVE  Base'
<1>1. at = "call" /\ main[step] = Disconnect /\ down' = down /\ down \in Seq(Alphabet)
  BY DEF Disconnects, Base, TypeOK
<1>2. step \in 1..7
  BY MainIs DEF Base, TypeOK
<1>3. CASE at' = "done" /\ UNCHANGED <<step, why, out, up, reading, broker>>
  <2>1. up = Stream(step - 1) /\ IsPrefix(up, Stream(step))
    BY <1>1 DEF Base, WrittenWhole, Over
  <2>2. up = Stream(step)
    BY <1>1, <1>2, <2>1, ReadWritesNothing
  <2>3. TypeOK'
    BY <1>1, <1>3 DEF Base, TypeOK, reading, broker, Reading, Over
  <2>4. WrittenWhole'
    BY <1>3, <2>1, <2>2 DEF WrittenWhole, Over
  <2>5. Writes'
    BY <1>1, <1>3 DEF Base, Writes, Reading
  <2>6. QED
    BY <2>3, <2>4, <2>5 DEF Base
<1>4. CASE Dies("general")
  BY <1>1, <1>4, BaseDies
<1>5. QED
  BY <1>3, <1>4 DEF Disconnects

\* Concatenation is associative.
LEMMA Regroup ==
  ASSUME NEW A, NEW s \in Seq(A), NEW t \in Seq(A), NEW u \in Seq(A)
  PROVE  (s \o t) \o u = s \o (t \o u)
  OBVIOUS

\* What is sent is taken off the buffers.
LEMMA SendMoves ==
  ASSUME NEW A, NEW o \in Seq(Seq(A) \ {<<>>}), o # <<>>, NEW k \in DOMAIN Head(o)
  PROVE  LET b == Head(o)
             r == IF k < Len(b) THEN <<SubSeq(b, k + 1, Len(b))>> \o Tail(o) ELSE Tail(o)
         IN  /\ r \in Seq(Seq(A) \ {<<>>}) /\ FlattenSeq(r) \in Seq(A)
             /\ SubSeq(b, 1, k) \in Seq(A)
             /\ SubSeq(b, 1, k) \o FlattenSeq(r) = FlattenSeq(o)
<1> DEFINE N == Seq(A) \ {<<>>}
           b == Head(o)
           T == Tail(o)
           n == Len(b)
           s == SubSeq(b, 1, k)
           e == SubSeq(b, k + 1, n)
           r == IF k < n THEN <<e>> \o T ELSE T
           F == FlattenSeq(T)
<1>1. b \in N /\ b \in Seq(A) /\ T \in Seq(N) /\ o = <<b>> \o T /\ k \in 1..n
  <2>1. o \in Seq(N)
    OBVIOUS
  <2> HIDE DEF N
  <2>2. b \in N /\ T \in Seq(N) /\ o = <<b>> \o T
    BY <2>1
  <2>3. b \in Seq(A)
    BY <2>2 DEF N
  <2>4. DOMAIN b = 1..n
    <3> HIDE DEF b
    <3>1. QED
      BY <2>3
  <2>5. QED
    BY <2>2, <2>3, <2>4
<1>2. T \in Seq(Seq(A))
  BY <1>1
<1>3. F \in Seq(A)
  <2> HIDE DEF T
  <2>1. QED
    BY <1>2, FlattenType
<1> HIDE DEF b, T
<1>4. FlattenSeq(o) = b \o F
  <2>1. <<b>> \in Seq(Seq(A))
    BY <1>1
  <2> DEFINE u == <<b>>
  <2>2. u \in Seq(Seq(A)) /\ o = u \o T
    BY <1>1, <2>1
  <2>3. FlattenSeq(u) = b
    BY <1>1, FlattenOne
  <2> HIDE DEF u
  <2>4. FlattenSeq(u \o T) = FlattenSeq(u) \o FlattenSeq(T)
    BY <1>2, <2>2, FlattenConcat
  <2>5. QED
    BY <2>2, <2>3, <2>4
<1>5. n \in Nat /\ n = Len(b)
  BY <1>1
<1> HIDE DEF n
<1>6. s \in Seq(A)
  <2> DEFINE z == SubSeq(b, 0 + 1, k)
  <2>1. k \in Nat /\ 0 \in Nat /\ 0 <= k /\ k <= Len(b)
    BY <1>1, <1>5
  <2>2. z \in Seq(A)
    BY <1>1, <2>1, Part
  <2>3. QED
    BY <2>2
<1>7. CASE k < n
  <2>1. e \in Seq(A) /\ Len(e) = n - k
    <3>1. k \in Nat /\ k <= n /\ n <= Len(b)
      BY <1>1, <1>5
    <3>2. QED
      BY <1>1, <1>5, <3>1, Part
  <2>2. e # <<>>
    <3>1. n - k # 0
      BY <1>1, <1>5, <1>7
    <3> HIDE DEF e
    <3>2. QED
      BY <2>1, <3>1
  <2>3. s \o e = b
    <3>1. SubSeq(b, 1, k) \o SubSeq(b, k + 1, n) = SubSeq(b, 1, n)
      <4>1. 1 \in 1..Len(b) + 1 /\ k \in 1 - 1..Len(b) /\ n \in k..Len(b)
        BY <1>1, <1>5
      <4>2. QED
        BY <1>1, <4>1, ConcatAdjacentSubSeq
    <3>2. SubSeq(b, 1, n) = b
      BY <1>1, <1>5, Whole
    <3>3. QED
      BY <3>1, <3>2
  <2> HIDE DEF s, e
  <2> DEFINE v == <<e>>
  <2>4. v \in Seq(N) /\ v \in Seq(Seq(A))
    BY <2>1, <2>2
  <2>5. FlattenSeq(v) = e
    BY <2>1, FlattenOne
  <2>6. r = v \o T
    BY <1>7
  <2> HIDE DEF v, N, r
  <2>7. r \in Seq(N) /\ FlattenSeq(r) = FlattenSeq(v) \o FlattenSeq(T)
    <3>1. v \o T \in Seq(N)
      BY <1>1, <2>4, Joined
    <3>2. FlattenSeq(v \o T) = FlattenSeq(v) \o FlattenSeq(T)
      BY <1>2, <2>4, FlattenConcat
    <3>3. QED
      BY <2>6, <3>1, <3>2
  <2>8. FlattenSeq(r) = e \o F
    BY <2>5, <2>7
  <2> HIDE DEF F
  <2>9. FlattenSeq(r) \in Seq(A)
    BY <1>3, <2>1, <2>8
  <2>10. s \o (e \o F) = (s \o e) \o F
    <3>1. s \in Seq(A) /\ e \in Seq(A) /\ F \in Seq(A)
      BY <1>3, <1>6, <2>1
    <3>2. (s \o e) \o F = s \o (e \o F)
      BY <3>1, Regroup
    <3>3. QED
      BY <3>2
  <2>11. s \o FlattenSeq(r) = FlattenSeq(o)
    BY <1>4, <2>3, <2>8, <2>10
  <2>12. QED
    BY <1>6, <2>7, <2>9, <2>11 DEF s, r, N, e, b, T, n, F
<1>8. CASE ~(k < n)
  <2>1. k = Len(b)
    BY <1>1, <1>5, <1>8
  <2>2. s = b
    BY <1>1, <2>1, Whole
  <2>3. r = T
    BY <1>8
  <2> HIDE DEF s, r, N
  <2>4. r \in Seq(N) /\ FlattenSeq(r) = F
    BY <1>1, <2>3
  <2>5. FlattenSeq(r) \in Seq(A)
    BY <1>3, <2>4
  <2>6. s \o FlattenSeq(r) = FlattenSeq(o)
    BY <1>4, <2>2, <2>4
  <2>7. QED
    BY <1>6, <2>4, <2>5, <2>6 DEF s, r, N, e, b, T, n
<1>9. QED
  BY <1>7, <1>8

\* stomp_write_buffer: symbols move from the buffers to the broker.
LEMMA BaseSend ==
  ASSUME Base, at = "write", NEW k \in DOMAIN Head(out), Send(k)
  PROVE  Base'
<1> DEFINE b == Head(out)
           s == SubSeq(b, 1, k)
           r == IF k < Len(b) THEN <<SubSeq(b, k + 1, Len(b))>> \o Tail(out) ELSE Tail(out)
<1>1. /\ up' = up \o s /\ out' = r
      /\ out' = <<>> => at' = "call" /\ step' = step + 1
      /\ out' # <<>> => UNCHANGED <<step, at>>
      /\ UNCHANGED <<why, down, reading, broker>>
  BY DEF Send
<1>2. /\ out # <<>> /\ out \in Seq(Seq(Alphabet) \ {<<>>}) /\ up \in Seq(Alphabet)
      /\ main[step].op = "write" /\ up \o FlattenSeq(out) = Stream(step) /\ step \in 1..7
  BY MainIs DEF Base, TypeOK, Writes
<1>3. /\ r \in Seq(Seq(Alphabet) \ {<<>>}) /\ FlattenSeq(r) \in Seq(Alphabet) /\ s \in Seq(Alphabet)
      /\ s \o FlattenSeq(r) = FlattenSeq(out)
  BY <1>2, SendMoves
<1> HIDE DEF s, r
<1>4. up' \in Seq(Alphabet) /\ up' \o FlattenSeq(out') = Stream(step)
  <2>1. up \o s \in Seq(Alphabet)
    BY <1>2, <1>3, Joined
  <2> DEFINE F == FlattenSeq(r)
  <2>2. F \in Seq(Alphabet)
    BY <1>3
  <2> HIDE DEF F
  <2>3. (up \o s) \o F = up \o (s \o F)
    <3>1. up \in Seq(Alphabet) /\ s \in Seq(Alphabet) /\ F \in Seq(Alphabet)
      BY <1>2, <1>3, <2>2
    <3>2. QED
      BY <3>1, Regroup
  <2>4. QED
    BY <1>1, <1>2, <1>3, <2>1, <2>3 DEF F
<1>5. out' \in Seq(Seq(Alphabet) \ {<<>>})
  BY <1>1, <1>3
<1>6. CASE out' = <<>>
  <2>1. at' = "call" /\ step' = step + 1 /\ step + 1 \in 1..7 /\ (step + 1) - 1 = step
    BY <1>1, <1>2, <1>6, MainIs
  <2>2. up' = Stream(step)
    <3>1. up' \o FlattenSeq(out') = up'
      <4>1. FlattenSeq(out') = <<>>
        BY <1>6, FlattenEmpty
      <4>2. QED
        BY <1>4, <4>1, ConcatEmptySeq
    <3>2. QED
      BY <1>4, <3>1
  <2>3. TypeOK'
    BY <1>1, <1>4, <1>6, <2>1, MainIs DEF Base, TypeOK, reading, broker, Reading, Over
  <2>4. WrittenWhole'
    <3>1. IsPrefix(Stream(step), Stream(step + 1))
      BY <2>1, StreamPrefix
    <3>2. IsPrefix(up, Stream(step))'
      BY <2>1, <2>2, <3>1
    <3>3. up' = Stream(step' - 1)
      BY <2>1, <2>2
    <3>4. QED
      BY <2>1, <3>2, <3>3 DEF WrittenWhole
  <2>5. Writes'
    BY <1>4, <1>5, <2>1 DEF Writes, Reading
  <2>6. QED
    BY <2>3, <2>4, <2>5 DEF Base
<1>7. CASE out' # <<>>
  <2>1. at' = "write" /\ step' = step
    BY <1>1, <1>7
  <2>2. TypeOK'
    BY <1>1, <1>4, <1>7, <2>1 DEF Base, TypeOK, reading, broker, Reading, Over
  <2>3. WrittenWhole'
    <3> DEFINE u == up'
               F == FlattenSeq(out')
    <3>1. u \in Seq(Alphabet) /\ F \in Seq(Alphabet) /\ u \o F = Stream(step)
      BY <1>1, <1>3, <1>4
    <3> HIDE DEF u, F
    <3>2. IsPrefix(u, Stream(step))
      BY <3>1, Beginning
    <3>3. IsPrefix(up, Stream(step))'
      BY <2>1, <3>2 DEF u
    <3>4. QED
      BY <2>1, <3>3 DEF WrittenWhole
  <2>4. Writes'
    BY <1>2, <1>4, <1>5, <2>1 DEF Writes, Reading
  <2>5. QED
    BY <2>2, <2>3, <2>4 DEF Base
<1>8. QED
  BY <1>6, <1>7

\* The steps of stomp_read.
LEMMA BaseReads ==
  ASSUME Base,
         \/ LineByte \/ CommandRead \/ HeaderRead \/ HeadersRead \/ LengthRead \/ TailRead
         \/ BodyByte \/ EndlineRead \/ EndlineAtEof \/ RecvFails
  PROVE  Base'
<1>1. /\ down \in Seq(Alphabet) /\ line \in Seq(Alphabet) /\ cur \in FrameSoFar
      /\ at \in {"command", "header", "length"} => cur.body = <<>>
  BY DEF Base, TypeOK, FrameSoFar
<1>2. /\ cur.command \in Seq(Alphabet) /\ cur.len \in Int /\ cur.body \in Seq(Alphabet)
      /\ cur = [command |-> cur.command, len |-> cur.len, body |-> cur.body]
      /\ <<>> \in Seq(Alphabet)
  BY <1>1 DEF FrameSoFar
<1>3. /\ 1 \in Nat /\ 2 \in Nat
      /\ {"command", "header", "length", "tail", "body"} = Reading
  BY DEF Reading
<1>4. CASE LineByte
  <2>1. at \in {"command", "header"} /\ Recv(1)
    BY <1>4 DEF LineByte
  <2>2. down' \in Seq(Alphabet) /\ Head(down) \in Alphabet
    BY <1>3, <2>1, Drawn
  <2>3. Append(line, Head(down)) \in Seq(Alphabet)
    BY <1>1, <2>2
  <2>4. CASE Goto(at, Append(line, Head(down)), cur)
    BY <1>1, <1>3, <2>1, <2>2, <2>3, <2>4, BaseGoto
  <2>5. CASE Dies("general")
    BY <2>2, <2>5, BaseDies
  <2>6. QED
    BY <1>4, <2>4, <2>5 DEF LineByte
<1>5. CASE CommandRead
  <2> DEFINE c == [cur EXCEPT !.command = line]
  <2>1. at = "command" /\ Recv(1) /\ Goto("header", <<>>, c)
    BY <1>5 DEF CommandRead
  <2>2. down' \in Seq(Alphabet)
    BY <1>3, <2>1, Drawn
  <2>3. c \in FrameSoFar /\ c.body = <<>>
    BY <1>1, <2>1 DEF FrameSoFar
  <2> HIDE DEF c
  <2>4. QED
    BY <1>2, <1>3, <2>1, <2>2, <2>3, BaseGoto
<1>6. CASE HeaderRead
  <2> DEFINE n == IF line[1].kind = "length" THEN line[1].n ELSE cur.len
             c == [cur EXCEPT !.len = IF line[1].kind = "length" THEN line[1].n ELSE @]
  <2>1. at = "header" /\ line # <<>> /\ Recv(1) /\ (Goto("header", <<>>, c) \/ Dies("general"))
    BY <1>6 DEF HeaderRead
  <2>2. down' \in Seq(Alphabet)
    BY <1>3, <2>1, Drawn
  <2>3. line[1] \in Alphabet
    BY <1>1, <2>1
  <2>4. n \in Int
    BY <1>2, <2>3, LengthsAreNumbers
  <2>5. c = [command |-> cur.command, len |-> n, body |-> cur.body]
    BY <1>2
  <2> HIDE DEF n
  <2>6. c \in FrameSoFar /\ c.body = <<>>
    BY <1>1, <1>2, <2>1, <2>4, <2>5 DEF FrameSoFar
  <2> HIDE DEF c
  <2>7. CASE Goto("header", <<>>, c)
    BY <1>2, <1>3, <2>1, <2>2, <2>6, <2>7, BaseGoto
  <2>8. CASE Dies("general")
    BY <2>2, <2>8, BaseDies
  <2>9. QED
    BY <2>1, <2>7, <2>8
<1>7. CASE HeadersRead
  <2> DEFINE a == IF cur.len >= 0 THEN "length" ELSE "body"
  <2>1. at = "header" /\ Recv(1) /\ Goto(a, <<>>, cur) /\ a \in {"length", "body"}
    BY <1>7 DEF HeadersRead
  <2>2. down' \in Seq(Alphabet)
    BY <1>3, <2>1, Drawn
  <2> HIDE DEF a
  <2>3. QED
    BY <1>1, <1>2, <1>3, <2>1, <2>2, BaseGoto
<1>8. CASE LengthRead
  <2>0. at = "length"
    BY <1>8 DEF LengthRead
  <2>1. CASE cur.len > 0 /\ Recv(cur.len)
             /\ Goto("tail", <<>>, [cur EXCEPT !.body = Received(cur.len)])
    <3> DEFINE c == [cur EXCEPT !.body = Received(cur.len)]
    <3>1. cur.len \in Nat
      BY <1>2, <2>1
    <3>2. down' \in Seq(Alphabet) /\ Received(cur.len) \in Seq(Alphabet)
          /\ Len(Received(cur.len)) <= cur.len
      BY <2>1, <3>1, Drawn
    <3>3. c \in FrameSoFar /\ c.body = Received(cur.len) /\ c.len = cur.len
      BY <1>1, <3>2 DEF FrameSoFar
    <3>4. Goto("tail", <<>>, c)
      BY <2>1
    <3> HIDE DEF c
    <3>5. QED
      BY <1>2, <1>3, <2>0, <3>2, <3>3, <3>4, BaseGoto
  <2>2. CASE cur.len = 0 /\ Goto("tail", <<>>, cur) /\ UNCHANGED down
    <3>1. cur.body = <<>> /\ Len(cur.body) <= cur.len
      BY <1>1, <2>0, <2>2
    <3>2. QED
      BY <1>1, <1>2, <1>3, <2>0, <2>2, <3>1, BaseGoto
  <2>3. CASE Dies("recv") /\ UNCHANGED down
    BY <1>1, <2>3, BaseDies
  <2>4. QED
    BY <1>8, <2>1, <2>2, <2>3 DEF LengthRead
<1>9. CASE TailRead
  <2>1. at = "tail" /\ Recv(2) /\ (Returns(cur) \/ Dies("general"))
    BY <1>9 DEF TailRead
  <2>2. down' \in Seq(Alphabet)
    BY <1>3, <2>1, Drawn
  <2>3. QED
    BY <1>3, <2>1, <2>2, BaseReturns, BaseDies
<1>10. CASE BodyByte
  <2> DEFINE c == [cur EXCEPT !.body = Append(@, Head(down))]
  <2>1. at = "body" /\ Recv(1) /\ (Goto("endline", <<>>, cur) \/ Goto("body", <<>>, c))
    BY <1>10 DEF BodyByte
  <2>2. down' \in Seq(Alphabet) /\ Head(down) \in Alphabet
    BY <1>3, <2>1, Drawn
  <2>3. Append(cur.body, Head(down)) \in Seq(Alphabet)
    BY <1>2, <2>2
  <2>4. c \in FrameSoFar
    BY <1>1, <2>3 DEF FrameSoFar
  <2> HIDE DEF c
  <2>5. CASE Goto("endline", <<>>, cur)
    BY <1>1, <1>2, <1>3, <2>1, <2>2, <2>5, BaseGoto
  <2>6. CASE Goto("body", <<>>, c)
    BY <1>2, <1>3, <2>1, <2>2, <2>4, <2>6, BaseGoto
  <2>7. QED
    BY <2>1, <2>5, <2>6
<1>11. CASE EndlineRead
  <2>1. at = "endline" /\ Recv(1) /\ (Returns(cur) \/ Dies("general"))
    BY <1>11 DEF EndlineRead
  <2>2. down' \in Seq(Alphabet)
    BY <1>3, <2>1, Drawn
  <2>3. QED
    BY <2>1, <2>2, BaseReturns, BaseDies
<1>12. CASE EndlineAtEof
  <2>1. at = "endline" /\ down' = down /\ (Returns(cur) \/ Dies("general"))
    BY <1>12 DEF EndlineAtEof
  <2>2. QED
    BY <1>1, <2>1, BaseReturns, BaseDies
<1>13. CASE RecvFails
  <2>1. down' = down /\ Dies("recv")
    BY <1>13 DEF RecvFails
  <2>2. QED
    BY <1>1, <2>1, BaseDies
<1>14. QED
  BY <1>4, <1>5, <1>6, <1>7, <1>8, <1>9, <1>10, <1>11, <1>12, <1>13

\* Every step.
LEMMA BaseHolds ==
  ASSUME Base, [Next]_vars
  PROVE  Base'
<1>1. /\ down \in Seq(Alphabet) /\ pending \in Seq(Alphabet) /\ replied \in Seq(Replies)
      /\ closed \in BOOLEAN
  BY DEF Base, TypeOK
<1>2. CASE SendFails
  BY <1>1, <1>2, BaseDies DEF SendFails
<1>3. ASSUME NEW f \in Replies, Reply(f)
      PROVE  Base'
  <2>1. /\ replied' = Append(replied, f) /\ pending' = pending \o Symbols(f)
        /\ UNCHANGED <<client, out, up, down, reading, closed>>
    BY <1>3 DEF Reply
  <2>2. Append(replied, f) \in Seq(Replies)
    BY <1>1
  <2>3. pending \o Symbols(f) \in Seq(Alphabet)
    BY <1>1, SymbolsType, Joined
  <2>4. QED
    BY <1>1, <2>1, <2>2, <2>3, BaseSame
<1>4. CASE Arrival
  <2>1. PICK k \in DOMAIN pending : Arrive(k)
    BY <1>4 DEF Arrival
  <2>2. /\ down' = down \o SubSeq(pending, 1, k) /\ pending' = SubSeq(pending, k + 1, Len(pending))
        /\ UNCHANGED <<client, out, up, reading, replied, closed>>
    BY <2>1 DEF Arrive
  <2> DEFINE n == Len(pending)
  <2>3. /\ k \in Nat /\ 0 \in Nat /\ 0 <= k /\ k <= Len(pending) /\ n \in Nat /\ k <= n
        /\ n <= Len(pending)
    BY <1>1
  <2> HIDE DEF n
  <2>4. SubSeq(pending, k + 1, n) \in Seq(Alphabet) /\ SubSeq(pending, 0 + 1, k) \in Seq(Alphabet)
    BY <1>1, <2>3, Part
  <2>5. SubSeq(pending, 1, k) \in Seq(Alphabet)
    BY <2>4
  <2>6. down \o SubSeq(pending, 1, k) \in Seq(Alphabet)
    BY <1>1, <2>5, Joined
  <2>7. QED
    BY <1>1, <2>2, <2>4, <2>6, BaseSame DEF n
<1>5. CASE Close
  <2>1. /\ closed' = TRUE /\ pending' = <<>> /\ down' \in {down, <<>>}
        /\ UNCHANGED <<client, out, up, reading, replied>>
    BY <1>5 DEF Close
  <2>2. <<>> \in Seq(Alphabet)
    OBVIOUS
  <2>3. QED
    BY <1>1, <2>1, <2>2, BaseSame
<1>6. CASE UNCHANGED vars
  <2>1. UNCHANGED <<client, out, up, reading, down, replied, pending, closed>>
    BY <1>6 DEF vars, broker
  <2>2. QED
    BY <1>1, <2>1, BaseSame
<1>7. QED
  BY <1>2, <1>3, <1>4, <1>5, <1>6, BaseConnect, BaseReadBegins, BaseWriteBegins, BaseDisconnects,
     BaseSend, BaseReads DEF Next, Library, Terminated

-----------------------------------------------------------------------------
(* Theorems. *)

\* A stutter.
LEMMA SameKeeps ==
  ASSUME Base, Follows, UNCHANGED vars
  PROVE  Follows'
<1>1. /\ step' = step /\ at' = at /\ why' = why /\ out' = out /\ up' = up /\ down' = down
      /\ line' = line /\ cur' = cur /\ got' = got
      /\ replied' = replied /\ pending' = pending /\ closed' = closed
  BY DEF vars, client, reading, broker
<1>2. Returned' /\ PlainIsNeverRefused'
  BY <1>1 DEF Follows, Returned, PlainIsNeverRefused, Misread
<1>3. InStep'
  BY <1>1, Zenon DEF Follows, InStep, Between, AtPlace, ReadOf, Fed, Said
<1>4. QED
  BY <1>2, <1>3 DEF Follows

\* Every step of the client and of the broker, where no frame so far can have been cut.
LEMMA StepKeeps ==
  ASSUME Base, Follows, Clear, Next
  PROVE  Follows'
<1>1. CASE Connect
  BY <1>1, ConnectKeeps
<1>2. CASE WriteBegins
  BY <1>2, WriteBeginsKeeps
<1>3. CASE SendFails
  BY <1>3, SendFailsKeeps
<1>4. CASE at = "write" /\ \E k \in DOMAIN Head(out) : Send(k)
  BY <1>4, SendKeeps
<1>5. CASE ReadBegins
  BY <1>5, ReadBeginsKeeps
<1>6. CASE LineByte
  BY <1>6, LineByteKeeps
<1>7. CASE CommandRead
  BY <1>7, CommandReadKeeps
<1>8. CASE HeaderRead
  BY <1>8, HeaderReadKeeps
<1>9. CASE HeadersRead
  BY <1>9, HeadersReadKeeps
<1>10. CASE LengthRead
  BY <1>10, LengthReadKeeps
<1>11. CASE TailRead
  BY <1>11, TailReadKeeps
<1>12. CASE BodyByte
  BY <1>12, BodyByteKeeps
<1>13. CASE EndlineRead
  BY <1>13, EndlineReadKeeps
<1>14. CASE EndlineAtEof
  BY <1>14, EndlineAtEofKeeps
<1>15. CASE RecvFails
  BY <1>15, RecvFailsKeeps
<1>16. CASE Disconnects
  BY <1>16, DisconnectsKeeps
<1>17. CASE at \notin Over /\ Arrival
  BY <1>17, ArrivalKeeps
<1>18. CASE at \notin Over /\ Close
  BY <1>18, CloseKeeps
<1>19. CASE at \notin Over /\ \E f \in Replies : Reply(f)
  BY <1>19, ReplyKeeps
<1>20. CASE UNCHANGED vars
  BY <1>20, SameKeeps
<1>21. QED
  BY <1>1, <1>2, <1>3, <1>4, <1>5, <1>6, <1>7, <1>8, <1>9, <1>10, <1>11, <1>12, <1>13, <1>14,
     <1>15, <1>16, <1>17, <1>18, <1>19, <1>20 DEF Next, Library, Terminated

\* The start.
LEMMA InitIInv == Init => IInv
<1> SUFFICES ASSUME Init PROVE IInv
  OBVIOUS
<1> DEFINE e == <<>>
<1>1. /\ step = 1 /\ at = "connect" /\ why = "" /\ out = e /\ up = e /\ replied = e
      /\ pending = e /\ down = e /\ closed = FALSE /\ line = e /\ cur = NoFrame /\ got = e
  BY DEF Init
<1>2. /\ e \in Seq(Replies) /\ e \in Seq(Alphabet) /\ Len(e) = 0
      /\ e \in Seq({Content(f) : f \in Replies}) /\ NoFrame.body = e
      /\ e \in Seq(Seq(Alphabet) \ {<<>>})
  <2>1. NoFrame.body = e
    BY DEF NoFrame
  <2>2. e \in Seq({Content(f) : f \in Replies})
    OBVIOUS
  <2>3. QED
    BY <2>1, <2>2
<1>3. TypeOK
  <2>1. (out # <<>>) = (at = "write") /\ (line # <<>> => at \in {"command", "header"})
    BY <1>1
  <2>2. step \in DOMAIN main
    <3>1. DOMAIN main = 1..7
      BY MainIs
    <3>2. step = 1
      BY <1>1
    <3>3. 1 \in 1..7
      OBVIOUS
    <3>4. QED
      BY <3>1, <3>2, <3>3
  <2>3. /\ cur \in [command : Seq(Alphabet), len : Int, body : Seq(Alphabet)] /\ cur.body = e
        /\ got \in Seq([command : Seq(Alphabet), body : Seq(Alphabet)])
    <3>1. NoFrame \in [command : Seq(Alphabet), len : Int, body : Seq(Alphabet)]
      BY DEF NoFrame
    <3>2. e \in Seq([command : Seq(Alphabet), body : Seq(Alphabet)])
      OBVIOUS
    <3>3. NoFrame.body = e
      BY <1>2
    <3> HIDE DEF e
    <3>4. QED
      BY <1>1, <3>1, <3>2, <3>3
  <2> HIDE DEF e
  <2>4. {up, pending, down, line} \subseteq Seq(Alphabet) /\ replied \in Seq(Replies)
    BY <1>1, <1>2
  <2>5. /\ at = "connect" /\ (why = "") = (at # "dead") /\ closed \in BOOLEAN /\ cur = NoFrame
        /\ why \in {"", "connect", "send", "recv", "general"}
    BY <1>1
  <2>6. QED
    BY <2>1, <2>2, <2>3, <2>4, <2>5 DEF TypeOK, Reading, Over
<1>4. up = Stream(step - 1) /\ IsPrefix(up, Stream(step))
  <2>1. Stream(0) = e
    BY StreamGrows
  <2>2. IsPrefix(Stream(1 - 1), Stream(1)) /\ 1 - 1 = 0
    BY StreamPrefix
  <2> HIDE DEF e
  <2>3. QED
    BY <1>1, <2>1, <2>2
<1> HIDE DEF e
<1>5. WrittenWhole
  BY <1>1, <1>4 DEF WrittenWhole
<1>6. Writes
  BY <1>1, <1>2 DEF Writes, Reading
<1>7. Returned
  <2>1. replied \in Seq(Replies) /\ got \in Seq({Content(f) : f \in Replies})
    BY <1>1, <1>2
  <2>2. Len(got) = 0 /\ Len(replied) = 0
    BY <1>1, <1>2
  <2>3. Len(got) <= Len(replied) /\ 1..Len(got) = {}
    BY <2>2
  <2>4. QED
    BY <2>1, <2>3 DEF Returned
<1>8. PlainIsNeverRefused
  BY <1>1 DEF PlainIsNeverRefused
<1>9. InStep
  <2>2. SaidOf(replied, 0) = e
    <3>1. replied \in Seq(Replies)
      BY <1>1, <1>2
    <3>2. SaidOf(replied, 0) = <<>>
      BY <3>1, SaidGrows
    <3>3. QED
      BY <3>2 DEF e
  <2>3. Said(Len(got)) = e /\ SaidOf(replied, Len(replied)) = e
    BY <1>1, <1>2, <2>2 DEF Said, SaidOf
  <2>4. FedOf(e, e, 0, e, closed)
    <3> DEFINE z == 0
               c == closed
    <3>1. z \in Nat /\ z + Len(e) <= Len(e) /\ \A k \in 1..Len(e) : e[k] = e[z + k]
      BY <1>2
    <3>2. e \in Seq(Alphabet) /\ Len(e) = Len(e) - z - Len(e)
          /\ \A k \in 1..Len(e) : e[k] = e[z + Len(e) + k]
      BY <1>2
    <3> HIDE DEF z, c
    <3>3. FedOf(e, e, z, e, c)
      BY <3>1, <3>2, IsFed
    <3>4. QED
      BY <3>3 DEF z, c
  <2>5. Fed(0)
    <3>1. FedOf(SaidOf(replied, Len(replied)), down, 0, pending, closed)
      BY <1>1, <2>3, <2>4
    <3>2. QED
      BY <3>1, FedIs
  <2>6. Len(Said(Len(got))) = 0
    BY <1>2, <2>3
  <2>7. Between
    BY <1>1 DEF Between, e
  <2>8. QED
    BY <2>5, <2>6, <2>7 DEF InStep
<1>10. QED
  BY <1>3, <1>5, <1>6, <1>7, <1>8, <1>9 DEF IInv, Base, Follows

\* What has been said and returned stays, so that a reader that can be sure now could
\* before.
LEMMA ClearBefore ==
  ASSUME Base, [Next]_vars, Clear'
  PROVE  Clear
<1>1. /\ replied \in Seq(Replies) /\ got \in Seq([command : Seq(Alphabet), body : Seq(Alphabet)])
  BY DEF Base, TypeOK
<1>2. \/ replied' = replied
      \/ \E f \in Replies : replied' = Append(replied, f)
  BY Zenon DEF Next, Library, Terminated, vars, broker, Connect, WriteBegins, Send,
     SendFails, ReadBegins, LineByte, CommandRead, HeaderRead, HeadersRead, LengthRead,
     TailRead, BodyByte, EndlineRead, EndlineAtEof, RecvFails, Disconnects, Dies, Goto, Returns,
     Arrival, Arrive, Close, Reply
<1>3. got' = got \/ \E x : got' = Append(got, x)
  BY Zenon DEF Next, Library, Terminated, vars, reading, Connect, WriteBegins, Send,
     SendFails, ReadBegins, LineByte, CommandRead, HeaderRead, HeadersRead, LengthRead,
     TailRead, BodyByte, EndlineRead, EndlineAtEof, RecvFails, Disconnects, Dies, Goto, Returns,
     Arrival, Arrive, Close, Reply
<1>4. Len(got) \in Nat /\ Len(got') \in Nat /\ Len(got) <= Len(got')
  <2> DEFINE G == [command : Seq(Alphabet), body : Seq(Alphabet)]
  <2>1. got \in Seq(G) /\ got' \in Seq(G)
    BY <1>1, BaseHolds DEF Base, TypeOK
  <2> HIDE DEF G
  <2>2. Len(got) \in Nat /\ Len(got') \in Nat
    BY <2>1
  <2>3. CASE got' = got
    BY <2>2, <2>3
  <2>4. CASE \E x : got' = Append(got, x)
    <3>1. PICK x : got' = Append(got, x)
      BY <2>4
    <3>2. Len(Append(got, x)) = Len(got) + 1
      BY <2>1
    <3>3. QED
      BY <2>2, <3>1, <3>2
  <2>5. QED
    BY <1>3, <2>2, <2>3, <2>4
<1>5. \A i \in DOMAIN replied : i \in Nat /\ i \in DOMAIN replied' /\ replied'[i] = replied[i]
  <2>1. CASE replied' = replied
    BY <1>1, <2>1
  <2>2. CASE \E f \in Replies : replied' = Append(replied, f)
    <3>1. PICK f \in Replies : replied' = Append(replied, f)
      BY <2>2
    <3>2. ASSUME NEW i \in DOMAIN replied
          PROVE  i \in DOMAIN Append(replied, f) /\ Append(replied, f)[i] = replied[i]
      BY <1>1
    <3>3. QED
      BY <1>1, <3>1, <3>2
  <2>3. QED
    BY <1>2, <2>1, <2>2
<1>6. ASSUME NEW i \in DOMAIN replied, i <= Len(got) + 1
      PROVE  ~HoldsEnd(replied[i])
  <2>1. i <= Len(got') + 1
    BY <1>4, <1>5, <1>6
  <2>2. ~HoldsEnd(replied'[i])
    BY <1>5, <2>1 DEF Clear
  <2>3. QED
    BY <1>5, <2>2
<1>7. QED
  BY <1>6 DEF Clear

\* A reader that cannot be sure is at a frame with a content length, or beyond one.
LEMMA UnclearRefuses ==
  ASSUME TypeOK, ~Clear
  PROVE  PlainIsNeverRefused
<1>1. PICK i \in DOMAIN replied : i <= Len(got) + 1 /\ HoldsEnd(replied[i])
  BY DEF Clear
<1>2. i \in Nat /\ Len(got) \in Nat
  <2> DEFINE G == [command : Seq(Alphabet), body : Seq(Alphabet)]
  <2>1. replied \in Seq(Replies) /\ got \in Seq(G)
    BY DEF TypeOK
  <2> HIDE DEF G
  <2>2. QED
    BY <2>1
<1>3. CASE i <= Len(got)
  BY <1>1, <1>3 DEF Misread, PlainIsNeverRefused
<1>4. CASE i = Len(got) + 1
  BY <1>1, <1>4 DEF HoldsEnd, PlainIsNeverRefused
<1>5. QED
  BY <1>1, <1>2, <1>3, <1>4

\* The inductive invariant: the buffers left to send complete what main writes; and up to
\* the first frame that a short recv can cut, what has been returned is what was sent, and
\* the reader is at a place of the next frame that the symbols it has received lead to
\* (stomp.c:104-119, 146-256, 285-439).
THEOREM StompInductive == Spec => []IInv
<1>1. IInv /\ [Next]_vars => IInv'
  <2>1. SUFFICES ASSUME IInv, [Next]_vars
                 PROVE  IInv'
    OBVIOUS
  <2>2. Base /\ Base'
    BY <2>1, BaseHolds DEF IInv
  <2>3. CASE Clear'
    <3>1. Clear /\ Follows
      BY <2>1, <2>2, <2>3, ClearBefore DEF IInv
    <3>2. Follows'
      BY <2>1, <2>2, <3>1, StepKeeps, SameKeeps
    <3>3. QED
      BY <2>2, <3>2 DEF IInv, Follows
  <2>4. CASE ~Clear'
    <3>1. PlainIsNeverRefused'
      BY <2>2, <2>4, UnclearRefuses, PTL DEF Base
    <3>2. QED
      BY <2>2, <2>4, <3>1 DEF IInv
  <2>5. QED
    BY <2>3, <2>4
<1>2. QED
  BY <1>1, InitIInv, PTL DEF Spec

\* The type invariant, for any frames the broker sends, of bodies of any content
\* (stomp.c:146-256).
THEOREM StompTypes == Spec => []TypeOK
<1>1. IInv => TypeOK
  BY DEF IInv, Base
<1>2. QED
  BY <1>1, StompInductive, PTL

\* The broker is sent the frames of main, each byte once and in order, however the sends
\* are cut (stomp.c:104-119, 285-348).
THEOREM StompWritesWhole == Spec => []WrittenWhole
<1>1. IInv => WrittenWhole
  BY DEF IInv, Base
<1>2. QED
  BY <1>1, StompInductive, PTL

\* Only a frame with a content length is ever refused while the connection lives, and what
\* comes after one that a short recv can cut (stomp.c:418, 422; 98-103).
THEOREM StompRefusesNoPlain == Spec => []PlainIsNeverRefused
<1>1. IInv => PlainIsNeverRefused
  BY DEF IInv
<1>2. QED
  BY <1>1, StompInductive, PTL

\* stomp_read implements the channel for replies of any content, cut into pieces of any
\* size: what it returns is what was sent, in order and whole, up to the first frame that a
\* short recv can cut (stomp.c:350-439).
THEOREM StompImplementsChannel == Spec => ChannelSpec
<1> DEFINE sent == [i \in DOMAIN replied |-> Content(replied[i])]
           C == {Content(f) : f \in Replies}
<1>1. Init => Channel!Init
  <2>1. ASSUME Init PROVE sent = <<>> /\ got = <<>>
    <3>1. replied = <<>> /\ got = <<>>
      BY <2>1 DEF Init
    <3>2. DOMAIN replied = {} /\ [i \in {} |-> Content(replied[i])] = <<>>
      BY <3>1
    <3>3. QED
      BY <3>1, <3>2
  <2>2. QED
    BY <2>1 DEF Channel!Init
<1>2. ASSUME IInv, IInv', [Next]_vars
      PROVE  [Channel!Next]_<<sent, got>>
  <2>1. CASE UNCHANGED <<replied, got>>
    BY <2>1
  <2>2. ASSUME NEW f \in Replies, Reply(f)
        PROVE  Channel!Next
    <3>1. replied' = Append(replied, f) /\ got' = got /\ replied \in Seq(Replies)
      BY <1>2, <2>2 DEF IInv, Base, TypeOK, Reply, reading
    <3>2. sent' = Append(sent, Content(f))
      BY <3>1
    <3>3. Content(f) \in C
      OBVIOUS
    <3>4. QED
      BY <3>1, <3>2, <3>3 DEF Channel!Next, Channel!Send
  <2>3. ASSUME Next, Returns(cur), Clear
        PROVE  Channel!Next
    <3> DEFINE n == Len(got)
               x == [command |-> cur.command, body |-> cur.body]
    <3>1. got' = Append(got, x) /\ replied' = replied
      BY <2>3 DEF Returns, broker
    <3>9. Follows /\ Base /\ Follows'
      BY <1>2, <2>3, StepKeeps DEF IInv
    <3>2. got \in Seq(C) /\ n \in Nat /\ replied \in Seq(Replies)
      BY <3>9, Returning
    <3>3. Len(got') <= Len(replied') /\ \A i \in 1..Len(got') : got'[i] = Content(replied'[i])
      BY <3>9 DEF Follows, Returned
    <3>4. Len(got') = n + 1 /\ got'[n + 1] = x
      <4> HIDE DEF x, C
      <4>1. QED
        BY <3>1, <3>2
    <3>5. n < Len(replied) /\ x = Content(replied[n + 1]) /\ n + 1 \in 1..Len(replied)
      <4>1. Len(replied) \in Nat
        BY <3>2
      <4> HIDE DEF n, x
      <4>2. n + 1 \in 1..Len(got')
        BY <3>2, <3>4
      <4>3. QED
        BY <3>1, <3>2, <3>3, <3>4, <4>1, <4>2
    <3>6. Len(sent) = Len(replied) /\ sent[n + 1] = Content(replied[n + 1])
      BY <3>2, <3>5
    <3>7. n < Len(sent) /\ got' = Append(got, sent[n + 1]) /\ sent' = sent
      BY <3>1, <3>5, <3>6
    <3>8. QED
      BY <3>7 DEF Channel!Next, Channel!Receive
  <2>7. ASSUME Returns(cur), ~Clear
        PROVE  Channel!Next
    <3> DEFINE G == [command : Seq(Alphabet), body : Seq(Alphabet)]
               x == [command |-> cur.command, body |-> cur.body]
               A == {Content(f) : f \in {g \in Replies : HoldsEnd(g)}}
    <3>1. got' = Append(got, x) /\ replied' = replied
      BY <2>7 DEF Returns, broker
    <3>2. got \in Seq(G) /\ x \in G /\ replied \in Seq(Replies)
      BY <1>2 DEF IInv, Base, TypeOK
    <3>3. Len(got') = Len(got) + 1 /\ SubSeq(got', 1, Len(got)) = got
      <4> HIDE DEF G, x
      <4>1. /\ Append(got, x) \in Seq(G) /\ Len(Append(got, x)) = Len(got) + 1 /\ Len(got) \in Nat
            /\ \A k \in 1..Len(got) : Append(got, x)[k] = got[k]
        BY <3>2
      <4> DEFINE m == Len(got)
                 t == Append(got, x)
      <4>2. /\ t \in Seq(G) /\ m \in Nat /\ m <= Len(t) /\ 0 \in Nat /\ 0 <= m /\ m = m - 0
            /\ \A k \in 1..m - 0 : got[k] = t[0 + k]
        BY <4>1
      <4> HIDE DEF m, t
      <4>3. Len(got) = m - 0
        BY <4>2 DEF m
      <4>4. got = SubSeq(t, 0 + 1, m)
        BY <3>2, <4>2, <4>3, IsPart
      <4>5. QED
        BY <3>1, <4>1, <4>4 DEF m, t
    <3>4. PICK i \in DOMAIN replied : i <= Len(got) + 1 /\ HoldsEnd(replied[i])
      BY <2>7 DEF Clear
    <3>5. replied[i] \in Replies
      BY <3>2
    <3>6. i \in DOMAIN sent /\ sent[i] \in A
      BY <3>4, <3>5
    <3>7. sent' = sent
      BY <3>1
    <3>8. Channel!Misread
      BY <3>3, <3>4, <3>6, <3>7 DEF Channel!Misread
    <3>9. QED
      BY <3>8 DEF Channel!Next
  <2>4. CASE UNCHANGED vars
    BY <2>1, <2>4 DEF vars, reading, broker
  <2>5. CASE Next
    <3>1. UNCHANGED <<replied, got>> \/ Returns(cur) \/ \E f \in Replies : Reply(f)
      BY <2>5, Zenon DEF Next, Library, Terminated, vars, broker, reading, Connect, WriteBegins, Send,
         SendFails, ReadBegins, LineByte, CommandRead, HeaderRead, HeadersRead, LengthRead,
         TailRead, BodyByte, EndlineRead, EndlineAtEof, RecvFails, Disconnects, Dies, Goto,
         Arrival, Arrive, Close
    <3>2. QED
      BY <2>1, <2>2, <2>3, <2>5, <2>7, <3>1
  <2>6. QED
    BY <1>2, <2>4, <2>5
<1>3. QED
  BY <1>1, <1>2, StompInductive, PTL DEF Spec, ChannelSpec, Channel!Spec
=============================================================================
