---------------------------- MODULE TaskSort_proof ----------------------------
(***************************************************************************)
(* Proofs about TaskSort, for every number of routes, every initial        *)
(* scores and any number of deaths of the script.                          *)
(***************************************************************************)
EXTENDS TaskSort, FiniteSetTheorems, TLAPS

-----------------------------------------------------------------------------
(* The sorted set. *)

\* Scores are positive numbers.
ScoresNat == score \in [Tasks -> Nat \ {0}]

\* The routes have ranks below N, one each, and the one of rank 0 has the least score.
Ranked == /\ \A v \in Tasks : Rank(v) \in 0..N - 1
          /\ \A k \in 0..N - 1 : AtRank(k) \in Tasks /\ Rank(AtRank(k)) = k
          /\ Least \in Nat \ {0}
          /\ \A v \in Tasks : Least <= score[v]
          /\ \E v \in Tasks : score[v] = Least

\* The rank of a route is below N, and grows with the order.
LEMMA RankGrows ==
  ASSUME ScoresNat, NEW v \in Tasks
  PROVE  /\ IsFiniteSet({w \in Tasks : Before(w, v)})
         /\ Rank(v) \in 0..N - 1
         /\ \A u \in Tasks : Before(u, v) => Rank(u) < Rank(v)
<1> DEFINE Below(u) == {w \in Tasks : Before(w, u)}
<1>1. IsFiniteSet(Tasks) /\ Cardinality(Tasks) = N
  BY NIsPositive, FS_Interval DEF Tasks
<1>2. \A u \in Tasks : IsFiniteSet(Below(u)) /\ Cardinality(Below(u)) \in Nat
  BY <1>1, FS_Subset, FS_CardinalityType
<1>3. Cardinality(Below(v)) < N
  <2>1. Below(v) # Tasks
    <3>1. ~Before(v, v)
      BY NIsPositive DEF Before, ScoresNat, Tasks
    <3>2. QED
      BY <3>1
  <2>2. Cardinality(Below(v)) <= N /\ Cardinality(Below(v)) # N
    BY <1>1, <2>1, FS_Subset
  <2>3. QED
    BY <1>2, <2>2, NIsPositive
<1>4. ASSUME NEW u \in Tasks, Before(u, v)
      PROVE  Cardinality(Below(u)) < Cardinality(Below(v))
  <2>1. Below(u) \subseteq Below(v)
    BY <1>4, NIsPositive DEF Before, ScoresNat, Tasks
  <2>2. u \in Below(v) /\ u \notin Below(u)
    BY <1>4, NIsPositive DEF Before, ScoresNat, Tasks
  <2>3. Cardinality(Below(u)) <= Cardinality(Below(v))
        /\ Cardinality(Below(u)) # Cardinality(Below(v))
    BY <1>2, <2>1, <2>2, FS_Subset
  <2>4. QED
    BY <1>2, <2>3
<1>5. QED
  BY <1>2, <1>3, <1>4, NIsPositive DEF Rank

\* Every rank below N is taken: N routes have N different ranks.
LEMMA RanksAreTaken == ScoresNat => Ranked
<1> SUFFICES ASSUME ScoresNat PROVE Ranked
  OBVIOUS
<1> DEFINE f == [v \in Tasks |-> Rank(v)]
<1>1. \A v \in Tasks : Rank(v) \in 0..N - 1
  BY RankGrows
<1>2. f \in Injection(Tasks, 0..N - 1)
  <2>1. ASSUME NEW v \in Tasks, NEW w \in Tasks, v # w
        PROVE  Rank(v) # Rank(w)
    <3>1. Before(v, w) \/ Before(w, v)
      BY <2>1, NIsPositive DEF Before, ScoresNat, Tasks
    <3>2. Rank(v) \in Int /\ Rank(w) \in Int
      BY <1>1, NIsPositive
    <3>3. Before(v, w) => Rank(v) < Rank(w)
      BY RankGrows
    <3>4. Before(w, v) => Rank(w) < Rank(v)
      BY RankGrows
    <3>5. QED
      BY <3>1, <3>2, <3>3, <3>4
  <2>2. f \in [Tasks -> 0..N - 1]
    BY <1>1
  <2>3. QED
    BY <2>1, <2>2 DEF Injection, IsInjective
<1>3. f \in Surjection(Tasks, 0..N - 1)
  <2>1. Cardinality(Tasks) = N
    BY NIsPositive, FS_Interval DEF Tasks
  <2>2. IsFiniteSet(0..N - 1) /\ Cardinality(0..N - 1) = N
    <3>1. N - 1 \in Int /\ 0 \in Int /\ ~(0 > N - 1) /\ (N - 1) - 0 + 1 = N
      BY NIsPositive
    <3>2. QED
      BY <3>1, FS_Interval
  <2>3. QED
    BY <1>2, <2>1, <2>2, FS_Injection
<1>4. \A k \in 0..N - 1 : \E v \in Tasks : Rank(v) = k
  BY <1>3 DEF Surjection
<1>5. \A k \in 0..N - 1 : AtRank(k) \in Tasks /\ Rank(AtRank(k)) = k
  BY <1>4 DEF AtRank
<1>6. \A v \in Tasks : Least <= score[v]
  <2> DEFINE u == AtRank(0)
  <2>1. u \in Tasks /\ Rank(u) = 0
    BY <1>5, NIsPositive
  <2>2. \A v \in Tasks : ~Before(v, u)
    <3>1. ASSUME NEW v \in Tasks, Before(v, u) PROVE FALSE
      <4>1. Rank(v) < Rank(u) /\ Rank(v) \in 0..N - 1
        BY <2>1, <3>1, <1>1, RankGrows
      <4>2. QED
        BY <2>1, <4>1, NIsPositive
    <3>2. QED
      BY <3>1
  <2> HIDE DEF u
  <2>3. \A v \in Tasks : score[u] <= score[v]
    BY <2>1, <2>2 DEF Before, ScoresNat
  <2>4. QED
    BY <2>3 DEF Least, u
<1>7. Least \in Nat \ {0} /\ \E v \in Tasks : score[v] = Least
  BY <1>5, NIsPositive DEF Least, ScoresNat
<1>8. QED
  BY <1>1, <1>5, <1>6, <1>7 DEF Ranked

\* The routes that are due have the least score; they are listed once each.
LEMMA DueIsLeast ==
  ASSUME ScoresNat, NEW s \in DueSeqs
  PROVE  /\ s \in Seq(Tasks) /\ s # <<>> /\ IsInjective(s)
         /\ \A k \in DOMAIN s : score[s[k]] = Least
         /\ Rank(s[Len(s)]) \in 0..N - 1
<1> DEFINE D == {v \in Tasks : score[v] <= Least}
<1>1. Ranked
  BY RanksAreTaken
<1>2. IsFiniteSet(D) /\ Cardinality(D) \in Nat /\ Cardinality(D) # 0
  <2>1. IsFiniteSet(Tasks)
    BY NIsPositive, FS_Interval DEF Tasks
  <2>2. D # {}
    BY <1>1 DEF Ranked
  <2>3. QED
    BY <2>1, <2>2, FS_Subset, FS_CardinalityType, FS_EmptySet
<1> DEFINE n == Cardinality(D)
<1>3. s \in [1..n -> D] /\ \A j, k \in DOMAIN s : j < k => Before(s[j], s[k])
  BY DEF DueSeqs
<1>4. \A v \in D : v \in Tasks /\ score[v] = Least
  BY <1>1 DEF Ranked, ScoresNat
<1> HIDE DEF D, n
<1>5. n \in Nat \ {0}
  BY <1>2 DEF n
<1>6. s \in Seq(Tasks) /\ Len(s) = n /\ DOMAIN s = 1..n
  BY <1>3, <1>4, <1>5
<1>7. s # <<>>
  BY <1>5, <1>6
<1>8. IsInjective(s)
  <2>1. \A v \in Tasks : ~Before(v, v)
    BY DEF Before, ScoresNat, Tasks
  <2>2. ASSUME NEW j \in 1..n, NEW k \in 1..n, j # k PROVE s[j] # s[k]
    <3>1. s[j] \in Tasks /\ s[k] \in Tasks
      BY <1>3, <1>4
    <3>2. j < k \/ k < j
      BY <1>5, <2>2
    <3>3. QED
      BY <1>3, <1>6, <2>1, <3>1, <3>2
  <2>3. QED
    BY <1>6, <2>2 DEF IsInjective
<1>9. Rank(s[Len(s)]) \in 0..N - 1
  <2>1. s[Len(s)] \in Tasks
    BY <1>3, <1>4, <1>5, <1>6
  <2>2. QED
    BY <1>1, <2>1 DEF Ranked
<1>10. QED
  BY <1>3, <1>4, <1>6, <1>7, <1>8, <1>9
-----------------------------------------------------------------------------
(* The invariant. *)

\* It holds when the script is started for the first time.
LEMMA TInvInit ==
  ASSUME Init
  PROVE  TInv
<1>1. ScoresNat /\ Ranked
  <2>1. ScoresNat
    <3>1. \A x \in InitScores : x \in Nat \ {0}
      BY ScoresAreBounded, BoundsAreNat
    <3>2. QED
      BY <3>1 DEF Init, ScoresNat
  <2>2. QED
    BY <2>1, RanksAreTaken
<1>2. TypeOK
  <2>1. score \in [Tasks -> 1..(2 * MaxScore)]
    BY ScoresAreBounded, BoundsAreNat DEF Init
  <2>2. QED
    BY <1>1, <2>1, NIsPositive, BoundsAreNat DEF Init, TypeOK, Ranked
<1>3. Current /\ NeverEarly
  BY DEF Init, Current, NeverEarly
<1>4. Counted /\ NoneFallsBehind
  BY DEF Init, Counted, NoneFallsBehind
<1>5. OnTime
  BY <1>1 DEF Init, OnTime, Ranked
<1>6. QED
  BY <1>2, <1>3, <1>4, <1>5 DEF TInv

\* A step that leaves the scores alone, and what it must still show.
LEMMA QuietStep ==
  ASSUME TInv, Next, score' = score
  PROVE  ScoresNat /\ Ranked /\ Ranked' /\ Least' = Least
<1>1. ScoresNat /\ ScoresNat'
  BY BoundsAreNat DEF TInv, TypeOK, ScoresNat
<1>2. Ranked /\ Ranked'
  BY <1>1, RanksAreTaken, PTL
<1>3. Least' = Least
  BY <1>2 DEF Ranked
<1>4. QED
  BY <1>1, <1>2, <1>3

\* ZADD of the doubled score: the least score never goes down, and no score is
\* beyond its double.
LEMMA RescoreStep ==
  ASSUME TInv, Rescore
  PROVE  TInv'
<1> DEFINE v == due[1]
<1>1. /\ TypeOK /\ Current /\ Counted /\ NoneFallsBehind /\ pc = "rescore"
      /\ min > 0 /\ due # <<>> /\ IsInjective(due) /\ due \in Seq(Tasks)
      /\ \A w \in Tasks : min <= score[w]
      /\ \A k \in DOMAIN due : score[due[k]] = min
  BY DEF TInv, Current, Rescore, TypeOK
<1>2. /\ v \in Tasks /\ score[v] = min /\ min \in 1..MaxScore
      /\ score' = [score EXCEPT ![v] = min * 2] /\ due' = Tail(due)
      /\ pc' = "push" /\ min' = min /\ ran' = ran
      /\ unscored' = [unscored EXCEPT ![v] = 0]
      /\ clock' = clock /\ restarts' = restarts /\ argidx' = argidx
  <2>1. 1 \in DOMAIN due /\ Head(due) = due[1]
    BY <1>1
  <2>2. min \in 1..MaxScore
    BY <1>1, BoundsAreNat DEF TypeOK
  <2>3. QED
    BY <1>1, <2>1, <2>2 DEF Rescore
<1> HIDE DEF v
<1>3. \A w \in Tasks : score'[w] = IF w = v THEN min * 2 ELSE score[w]
  BY <1>1, <1>2 DEF TypeOK
<1>4. TypeOK'
  <2>1. min * 2 \in 1..(2 * MaxScore)
    BY <1>2, BoundsAreNat
  <2>2. Tail(due) \in Seq(Tasks)
    BY <1>1
  <2>3. QED
    BY <1>1, <1>2, <2>1, <2>2 DEF TypeOK
<1>5. \A w \in Tasks : min <= score'[w]
  BY <1>1, <1>2, <1>3 DEF TypeOK
<1>6. Current'
  <2>1. \A k \in DOMAIN Tail(due) : k + 1 \in DOMAIN due /\ Tail(due)[k] = due[k + 1]
                                    /\ k \in Nat \ {0}
    BY <1>1
  <2>2. 1 \in DOMAIN due
    BY <1>1
  <2>3. IsInjective(Tail(due))
    BY <1>1, <2>1 DEF IsInjective
  <2>4. \A k \in DOMAIN Tail(due) : Tail(due)[k] # v /\ Tail(due)[k] \in Tasks
    BY <1>1, <2>1, <2>2 DEF IsInjective, v
  <2>5. \A k \in DOMAIN Tail(due) : score'[Tail(due)[k]] = min
    BY <1>1, <1>3, <2>1, <2>4
  <2>6. QED
    BY <1>1, <1>2, <1>5, <2>3, <2>5 DEF Current
<1>7. Counted'
  BY <1>1, <1>2 DEF Counted, TypeOK, v
<1>8. Ranked /\ Ranked' /\ ScoresNat
  <2>1. ScoresNat /\ ScoresNat'
    <3>1. \A x \in 1..(2 * MaxScore) : x \in Nat \ {0}
      BY BoundsAreNat
    <3>2. QED
      BY <1>1, <1>4, <3>1 DEF TypeOK, ScoresNat
  <2>2. QED
    BY <2>1, RanksAreTaken, PTL
<1>9. NoneFallsBehind'
  <2>1. Least = min
    BY <1>1, <1>2, <1>8, BoundsAreNat DEF Ranked, TypeOK
  <2>2. Least' \in Nat /\ min <= Least'
    BY <1>5, <1>8 DEF Ranked
  <2>3. \A w \in ran : w \in Tasks /\ score[w] <= 2 * min /\ score[w] \in Nat
    BY <1>1, <2>1, BoundsAreNat DEF NoneFallsBehind, TypeOK
  <2>4. \A w \in ran : score'[w] <= 2 * min /\ score'[w] \in Nat
    BY <1>2, <1>3, <2>3
  <2>5. QED
    BY <1>2, <2>2, <2>4 DEF NoneFallsBehind
<1>10. OnTime' /\ NeverEarly'
  BY <1>1, <1>2 DEF TInv, OnTime, NeverEarly
<1>11. QED
  BY <1>4, <1>6, <1>7, <1>9, <1>10 DEF TInv

\* ZRANGE, ZRANGEBYSCORE and ZRANK.
LEMMA PlanStep ==
  ASSUME TInv, Plan
  PROVE  TInv'
<1>1. /\ TypeOK /\ Counted /\ NoneFallsBehind /\ OnTime /\ pc = "plan" /\ Least <= MaxScore
      /\ min' = Least /\ due' \in DueSeqs /\ argidx' = Rank(due'[Len(due')]) + 1 /\ pc' = "push"
      /\ UNCHANGED <<score, clock, restarts, unscored, ran>>
  BY DEF TInv, Plan
<1>2. ScoresNat /\ Ranked /\ Ranked' /\ Least' = Least
  BY <1>1, QuietStep DEF Next, Loop
<1>3. /\ due' \in Seq(Tasks) /\ due' # <<>> /\ IsInjective(due')
      /\ \A k \in DOMAIN due' : score[due'[k]] = Least
      /\ argidx' \in 0..N
  BY <1>1, <1>2, DueIsLeast, NIsPositive
<1>4. Least \in 1..MaxScore /\ \A v \in Tasks : Least <= score[v]
  BY <1>1, <1>2, BoundsAreNat DEF Ranked
<1>5. TypeOK'
  BY <1>1, <1>3, <1>4, BoundsAreNat DEF TypeOK
<1>6. Current'
  BY <1>1, <1>3, <1>4 DEF Current
<1>7. Counted' /\ NoneFallsBehind'
  BY <1>1, <1>2 DEF Counted, NoneFallsBehind
<1>8. OnTime' /\ NeverEarly'
  BY <1>1 DEF OnTime, NeverEarly
<1>9. QED
  BY <1>5, <1>6, <1>7, <1>8 DEF TInv

\* RPUSH: the route handed out is one of those with the least score.
LEMMA PushStep ==
  ASSUME TInv, Push
  PROVE  TInv'
<1> DEFINE v == due[1]
<1>1. /\ TypeOK /\ Current /\ Counted /\ NoneFallsBehind /\ pc = "push"
      /\ due # <<>> /\ due \in Seq(Tasks) /\ v \in Tasks /\ 1 \in DOMAIN due
      /\ unscored' = [unscored EXCEPT ![v] = @ + 1] /\ ran' = ran \cup {v} /\ pc' = "rescore"
      /\ UNCHANGED <<score, min, due, argidx, clock, restarts>>
  BY DEF TInv, Push, TypeOK
<1>2. Ranked /\ Least' = Least
  BY <1>1, QuietStep DEF Next, Loop
<1>3. Current'
  BY <1>1 DEF Current
<1>4. score[v] = min /\ min <= Least /\ min \in Nat /\ Least \in Nat
  BY <1>1, <1>2, BoundsAreNat DEF Current, Ranked, TypeOK
<1> HIDE DEF v
<1>5. NoneFallsBehind'
  <2>1. score[v] <= 2 * Least
    BY <1>4
  <2>2. QED
    BY <1>1, <1>2, <2>1 DEF NoneFallsBehind
<1>6. TypeOK'
  BY <1>1 DEF TypeOK
<1>7. Counted'
  <2>1. \A w \in Tasks : unscored'[w] = IF w = v THEN unscored[w] + 1 ELSE unscored[w]
    BY <1>1 DEF TypeOK
  <2>2. \A w \in Tasks : unscored[w] <= restarts /\ unscored[w] \in Nat /\ restarts \in Nat
    BY <1>1, BoundsAreNat DEF Counted, TypeOK
  <2>3. pc' = "rescore" /\ due'[1] = v /\ restarts' = restarts
    BY <1>1 DEF v
  <2>4. QED
    BY <2>1, <2>2, <2>3 DEF Counted
<1>8. OnTime' /\ NeverEarly'
  BY <1>1 DEF TInv, OnTime, NeverEarly
<1>9. QED
  BY <1>3, <1>5, <1>6, <1>7, <1>8 DEF TInv

\* The sleep ends no earlier than the next route is due: the route of rank argidx has
\* at least the least score.
LEMMA SleepStep ==
  ASSUME TInv, Sleep
  PROVE  TInv'
<1> DEFINE next == score[AtRank(argidx)]
<1>1. /\ TypeOK /\ Current /\ Counted /\ NoneFallsBehind /\ NeverEarly /\ pc = "push"
      /\ argidx < N /\ clock' = clock + (next - min) /\ pc' = "plan"
      /\ UNCHANGED <<score, min, due, argidx, restarts, unscored, ran>>
  BY DEF TInv, Sleep
<1>2. ScoresNat /\ Ranked /\ Least' = Least
  BY <1>1, QuietStep DEF Next, Loop, Sleep
<1>3. AtRank(argidx) \in Tasks
  <2>1. argidx \in 0..N - 1
    BY <1>1, NIsPositive DEF TypeOK
  <2>2. QED
    BY <1>2, <2>1 DEF Ranked
<1>4. next \in Nat /\ min \in Nat /\ min <= next /\ Least <= next /\ clock \in Nat /\ Least \in Nat
  BY <1>1, <1>2, <1>3, BoundsAreNat DEF Current, Ranked, ScoresNat, TypeOK
<1> HIDE DEF next
<1>5. clock' \in Nat /\ (clock >= min => clock' >= Least)
  BY <1>1, <1>4
<1>6. TypeOK'
  BY <1>1, <1>5 DEF TypeOK
<1>7. Current' /\ NeverEarly'
  BY <1>1 DEF Current, NeverEarly
<1>8. Counted' /\ NoneFallsBehind'
  BY <1>1, <1>2 DEF Counted, NoneFallsBehind
<1>9. OnTime'
  BY <1>1, <1>2, <1>5 DEF OnTime, NeverEarly
<1>10. QED
  BY <1>6, <1>7, <1>8, <1>9 DEF TInv

\* Death and restart: one more entry is accounted for.
LEMMA DeathStep ==
  ASSUME TInv, IndexNil \/ Crash \/ Restart
  PROVE  TInv'
<1>1. /\ TypeOK /\ Counted /\ NoneFallsBehind
      /\ UNCHANGED <<score, clock, unscored, ran>> /\ pc' \in {"plan", "dead"}
  BY DEF TInv, IndexNil, Crash, Restart
<1>2. Least' = Least
  BY <1>1, QuietStep DEF Next, Loop
<1>3. TypeOK'
  <2>1. CASE IndexNil \/ Crash
    BY <1>1, <2>1 DEF TypeOK, IndexNil, Crash
  <2>2. CASE Restart
    <3>1. restarts' \in 0..MaxRestarts /\ 0 \in 0..MaxScore /\ 0 \in 0..N
      BY <1>1, <2>2, BoundsAreNat, NIsPositive DEF TypeOK, Restart
    <3>2. <<>> \in Seq(Tasks)
      OBVIOUS
    <3>3. QED
      BY <1>1, <2>2, <3>1, <3>2 DEF TypeOK, Restart
  <2>3. QED
    BY <2>1, <2>2
<1>4. Counted'
  <2>1. \A v \in Tasks : unscored[v] \in Nat /\ restarts \in Nat
    BY <1>1, BoundsAreNat DEF TypeOK
  <2>2. CASE Restart
    BY <1>1, <2>1, <2>2 DEF Counted, Restart
  <2>3. CASE IndexNil \/ Crash
    BY <1>1, <2>1, <2>3 DEF Counted, IndexNil, Crash
  <2>4. QED
    BY <2>2, <2>3
<1>5. NoneFallsBehind' /\ Current' /\ NeverEarly'
  BY <1>1, <1>2 DEF NoneFallsBehind, Current, NeverEarly
<1>6. OnTime'
  <2>1. restarts \in Nat
    BY <1>1, BoundsAreNat DEF TypeOK
  <2>2. QED
    BY <1>1, <2>1 DEF OnTime, IndexNil, Crash, Restart
<1>7. QED
  BY <1>3, <1>4, <1>5, <1>6 DEF TInv

\* Every step keeps the invariant.
LEMMA TInvStep == TInv /\ [Next]_vars => TInv'
<1> SUFFICES ASSUME TInv, [Next]_vars PROVE TInv'
  OBVIOUS
<1>1. CASE UNCHANGED vars
  <2>1. Least' = Least
    BY <1>1 DEF vars, Least, AtRank, Rank, Before
  <2>2. QED
    BY <1>1, <2>1 DEF vars, TInv, TypeOK, Current, Counted, NoneFallsBehind, OnTime, NeverEarly
<1>2. CASE Next
  BY <1>2, PlanStep, PushStep, RescoreStep, SleepStep, DeathStep DEF Next, Loop
<1>3. QED
  BY <1>1, <1>2
-----------------------------------------------------------------------------
(* The theorems. *)

\* The invariant of the scheduler holds in every reachable state.
THEOREM SortInductive == Spec => []TInv
  BY TInvInit, TInvStep, PTL DEF Spec

\* While the script is not restarted no route is handed out before its score is
\* reached, however many routes there are (agent/10.lua:49-76).
THEOREM SortNeverEarly == Spec => []NeverEarly
<1>1. TInv => NeverEarly
  BY DEF TInv
<1>2. QED
  BY <1>1, SortInductive, PTL

\* A route has more entries in loc:queues than expiries only through deaths, one entry
\* for each (agent/10.lua:56-66).
THEOREM SortOneEntryPerExpiry == Spec => []OneEntryPerExpiry
<1>1. TInv => OneEntryPerExpiry
  <2> SUFFICES ASSUME TInv, NEW v \in Tasks
               PROVE  unscored[v] <= restarts + (IF pc \in {"rescore", "dead"} THEN 1 ELSE 0)
    BY DEF OneEntryPerExpiry
  <2>1. unscored[v] \in Nat /\ restarts \in Nat
    BY BoundsAreNat DEF TInv, TypeOK
  <2>2. unscored[v] <= restarts + (IF pc = "dead" \/ (pc = "rescore" /\ v = due[1]) THEN 1 ELSE 0)
    BY DEF TInv, Counted
  <2>3. QED
    BY <2>1, <2>2
<1>2. QED
  BY <1>1, SortInductive, PTL

\* A route that was handed out is never put off beyond twice the soonest expiry, also
\* by doublings that deaths interrupted (agent/10.lua:63).
THEOREM SortNoneFallsBehind == Spec => []NoneFallsBehind
<1>1. TInv => NoneFallsBehind
  BY DEF TInv
<1>2. QED
  BY <1>1, SortInductive, PTL
=============================================================================
