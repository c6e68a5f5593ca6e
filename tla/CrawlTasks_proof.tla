------------------------- MODULE CrawlTasks_proof -------------------------
(***************************************************************************)
(* Theorems about the way of a crawl task: the types, the place of a task,  *)
(* the size of the proxy pool and the scripts main.lua comes to, for any    *)
(* number of processes and tasks.                                           *)
(***************************************************************************)
EXTENDS CrawlTasks, FiniteSetTheorems, SequenceTheorems, TLAPS

\* Removing the entry at the index moves the entries behind it one place to the front.
LEMMA Removed ==
    ASSUME NEW ts \in Seq(Nat), NEW i \in 1..Len(ts)
    PROVE  LET us == RemoveAt(ts, i) IN
           /\ us \in Seq(Nat)
           /\ Len(us) = Len(ts) - 1
           /\ \A j \in i..Len(us) : us[j] = ts[j + 1]
<1> DEFINE a == SubSeq(ts, 1, i - 1)
           b == SubSeq(ts, i + 1, Len(ts))
           us == RemoveAt(ts, i)
<1>1. a \in Seq(Nat) /\ Len(a) = i - 1
  BY SMT
<1>2. /\ b \in Seq(Nat)
      /\ Len(b) = Len(ts) - i
      /\ \A j \in 1..Len(b) : b[j] = ts[i + j]
  BY SMT
<1>3. us = a \o b
  BY DEF RemoveAt
<1>4. /\ us \in Seq(Nat)
      /\ Len(us) = Len(ts) - 1
      /\ \A j \in i..Len(us) : us[j] = b[j - Len(a)]
  <2>1. /\ us \in Seq(Nat)
        /\ Len(us) = Len(a) + Len(b)
        /\ \A j \in 1..Len(a) + Len(b) : us[j] = IF j <= Len(a) THEN a[j] ELSE b[j - Len(a)]
    <3> HIDE DEF a, b
    <3>1. /\ a \o b \in Seq(Nat)
          /\ Len(a \o b) = Len(a) + Len(b)
          /\ \A j \in 1..Len(a) + Len(b) :
                (a \o b)[j] = IF j <= Len(a) THEN a[j] ELSE b[j - Len(a)]
      BY <1>1, <1>2, ConcatProperties, Zenon
    <3>2. QED
      BY <3>1, <1>3
  <2>2. QED
    <3> HIDE DEF a, b, us
    <3>1. QED
      BY <1>1, <1>2, <2>1, SMT
<1>5. ASSUME NEW j \in i..Len(us) PROVE us[j] = ts[j + 1]
  <2>1. j - Len(a) \in 1..Len(b) /\ i + (j - Len(a)) = j + 1
    BY <1>1, <1>2, <1>4, SMT
  <2>2. QED
    BY <2>1, <1>2, <1>4
<1>6. QED
  BY <1>4, <1>5

-----------------------------------------------------------------------------
(* The proxy pool. *)

Busy == {f \in Fillers : filler[f] \in {"buy", "push"}}

LEMMA BusyCounted ==
    ASSUME TypeOK
    PROVE  /\ IsFiniteSet(Busy) /\ Cardinality(Busy) \in Nat
           /\ Cardinality(Busy) <= Cardinality(Fillers)
           /\ Cardinality(Fillers) \in Nat
           /\ IsFiniteSet(Busy') /\ Cardinality(Busy') \in Nat
           /\ Cardinality(Busy') <= Cardinality(Fillers)
<1>1. Busy \in SUBSET Fillers /\ Busy' \in SUBSET Fillers
  BY DEF Busy
<1>2. QED
  BY <1>1, FillersAreFinite, FS_Subset, FS_CardinalityType

LEMMA PoolStep == TypeOK /\ PoolOK /\ [Next]_vars => PoolOK'
<1> SUFFICES ASSUME TypeOK, PoolOK, [Next]_vars PROVE PoolOK'
  OBVIOUS
<1> USE BusyCounted
<1>0. pool + Cardinality(Busy) <= PoolSize + Cardinality(Fillers) - 1 /\ pool \in Nat
  BY DEF PoolOK, Busy, TypeOK
<1>1. ASSUME filler' = filler, pool' = pool \/ pool' = pool - 1
      PROVE  PoolOK'
  <2>1. Busy' = Busy
    BY <1>1 DEF Busy
  <2>2. pool' + Cardinality(Busy') <= PoolSize + Cardinality(Fillers) - 1
    BY <2>1, <1>0, <1>1 DEF PoolSize
  <2>3. QED
    BY <2>2 DEF PoolOK, Busy
<1>2. ASSUME NEW f \in Fillers, Fill(f) \/ FillerDies(f) PROVE PoolOK'
  <2>1. ASSUME Llen(f) PROVE PoolOK'
    BY <2>1, <1>0 DEF Llen, PoolOK, Busy, PoolSize
  <2>2. ASSUME Buy(f) PROVE PoolOK'
    <3>1. Busy' = Busy
      BY <2>2 DEF Buy, Busy, TypeOK
    <3>2. QED
      BY <2>2, <3>1, <1>0 DEF Buy, PoolOK, Busy
  <2>3. ASSUME f \in Busy, BuyNothing(f) \/ BuyUnread(f) \/ Rpush(f) \/ FillerDies(f)
        PROVE  PoolOK'
    <3>1. Busy' = Busy \ {f}
      BY <2>3 DEF BuyNothing, BuyUnread, Rpush, FillerDies, Busy, TypeOK
    <3>2. Cardinality(Busy') = Cardinality(Busy) - 1
      BY <2>3, <3>1, FS_RemoveElement
    <3>3. pool' = pool \/ pool' = pool + 1
      BY <2>3 DEF BuyNothing, BuyUnread, Rpush, FillerDies
    <3>4. pool' + Cardinality(Busy') <= PoolSize + Cardinality(Fillers) - 1
      BY <3>2, <3>3, <1>0 DEF PoolSize
    <3>5. QED
      BY <3>4 DEF PoolOK, Busy
  <2>4. ASSUME BuyNothing(f) \/ BuyUnread(f) \/ Rpush(f) PROVE f \in Busy
    BY <2>4 DEF BuyNothing, BuyUnread, Rpush, Busy
  <2>5. ASSUME f \notin Busy, FillerDies(f) PROVE PoolOK'
    <3>1. Busy' = Busy /\ pool' = pool
      BY <2>5 DEF FillerDies, Busy, TypeOK
    <3>2. QED
      BY <3>1, <1>0 DEF PoolOK, Busy
  <2>6. QED
    BY <1>2, <2>1, <2>2, <2>3, <2>4, <2>5 DEF Fill
<1>3. CASE Next
  <2>1. ASSUME NEW c \in Callers, TakeProxy(c) \/ AgentEnds(c) \/ AgentDies(c) \/ Distribute(c)
        PROVE  PoolOK'
    BY <2>1, <1>1 DEF TakeProxy, AgentEnds, AgentDies, Distribute
  <2>2. ASSUME NEW t \in Tasks, Schedule(t) \/ Miss(t) PROVE PoolOK'
    BY <2>2, <1>1 DEF Schedule, Miss
  <2>3. ASSUME NEW c \in Clients,
               Blpop(c) \/ TimesOut(c) \/ GhostPop(c) \/ GhostGone(c) \/ NoAnswer(c)
        PROVE  PoolOK'
    BY <2>3, <1>1 DEF Blpop, TimesOut, GhostPop, GhostGone, NoAnswer
  <2>4. ASSUME NEW x \in Crawlers, AskMany(x) \/ AnswerMany(x) PROVE PoolOK'
    BY <2>4, <1>1 DEF AskMany, AnswerMany
  <2>5. ASSUME NEW c \in Callers,
               Fetch(c) \/ Answer(c) \/ Push(c) \/ Dies(c) \/ Launch(c) \/ NextThread(c)
        PROVE  PoolOK'
    BY <2>5, <1>1 DEF Fetch, Answer, Push, Dies, Launch, NextThread
  <2>6. QED
    BY <1>2, <1>3, <2>1, <2>2, <2>3, <2>4, <2>5 DEF Next, Serve, Work
<1>4. CASE UNCHANGED vars
  BY <1>1, <1>4 DEF vars
<1>5. QED
  BY <1>3, <1>4
-----------------------------------------------------------------------------
(* The launcher's list of coroutines. *)

BootsOK == \A c \in Callers : BootOK(c) /\ boot[c].resumed = {2 * k - 1 : k \in 1..boot[c].i}

\* A step that leaves the lists alone and starts or ends no launcher.
LEMMA BootKept ==
    ASSUME TypeOK, BootsOK, boot' = boot, \A d \in Callers : main'[d] = "off" <=> main[d] = "off"
    PROVE  BootsOK'
  BY DEF BootsOK, BootOK

LEMMA LaunchBoots ==
    ASSUME TypeOK, BootsOK, NEW c \in Callers, Launch(c)
    PROVE  BootsOK'
<1> DEFINE n == (pool + 1) \div 2
           ts == [k \in 1..n |-> k]
<1>1. n \in Nat /\ n > 0
  BY DEF Launch, TypeOK
<1>2. ts \in Seq(Nat) /\ Len(ts) = n /\ ts[1] = 1
  BY <1>1
<1>3. /\ boot' = [boot EXCEPT ![c] = Runs(c, ts, 1)]
      /\ main' = [main EXCEPT ![c] = "fetch"]
      /\ boot[c] = NoBoot
  BY DEF Launch
<1>4. /\ boot'[c].threads = ts
      /\ boot'[c].i = 1
      /\ boot'[c].resumed = {1}
      /\ main'[c] = "fetch"
  BY <1>2, <1>3 DEF Runs, NoBoot, TypeOK
<1>5. {2 * k - 1 : k \in 1..1} = {1}
  OBVIOUS
<1>6. BootOK(c)' /\ boot'[c].resumed = {2 * k - 1 : k \in 1..boot'[c].i}
  <2>1. \A j \in 1..Len(ts) : ts[j] = j + 1 - 1
    BY <1>1, <1>2
  <2>2. 1 \in 1..Len(ts)
    BY <1>1, <1>2
  <2> HIDE DEF ts
  <2>3. QED
    BY <1>4, <1>5, <2>1, <2>2 DEF BootOK
<1>7. ASSUME NEW d \in Callers, d # c
      PROVE  BootOK(d)' /\ boot'[d].resumed = {2 * k - 1 : k \in 1..boot'[d].i}
  <2>1. boot'[d] = boot[d] /\ main'[d] = main[d]
    BY <1>3, <1>7 DEF TypeOK
  <2>2. QED
    BY <2>1 DEF BootsOK, BootOK
<1>8. QED
  BY <1>6, <1>7 DEF BootsOK

LEMMA NextThreadBoots ==
    ASSUME TypeOK, BootsOK, NEW c \in Callers, NextThread(c)
    PROVE  BootsOK'
<1> DEFINE old == boot[c].threads
           i   == boot[c].i
           ts  == RemoveAt(old, i)
<1>1. /\ old \in Seq(Nat) /\ i \in 1..Len(old)
      /\ \A j \in i..Len(old) : old[j] = j + i - 1
      /\ boot[c].resumed = {2 * k - 1 : k \in 1..i}
  BY DEF NextThread, BootsOK, BootOK, TypeOK
<1>2. /\ ts \in Seq(Nat)
      /\ Len(ts) = Len(old) - 1
      /\ \A j \in i..Len(ts) : ts[j] = old[j + 1]
  <2> HIDE DEF old, i
  <2>1. QED
    BY <1>1, Removed
<1>3. ASSUME NEW d \in Callers, d # c
      PROVE  BootOK(d)' /\ boot'[d].resumed = {2 * k - 1 : k \in 1..boot'[d].i}
  <2>1. boot'[d] = boot[d] /\ main'[d] = main[d]
    BY <1>3 DEF TypeOK, NextThread
  <2>2. QED
    BY <2>1 DEF BootsOK, BootOK
<1>4. CASE i + 1 <= Len(ts)
  <2>1. /\ boot'[c].threads = ts
        /\ boot'[c].i = i + 1
        /\ boot'[c].resumed = boot[c].resumed \cup {ts[i + 1]}
        /\ main'[c] = "fetch"
    BY <1>4 DEF NextThread, Runs, TypeOK
  <2>2. \A j \in (i + 1)..Len(ts) : ts[j] = j + (i + 1) - 1
    <3> HIDE DEF ts, old, i
    <3>1. SUFFICES ASSUME NEW j \in (i + 1)..Len(ts) PROVE ts[j] = j + (i + 1) - 1
      OBVIOUS
    <3>2. i \in Nat /\ Len(old) \in Nat /\ Len(ts) \in Nat
      BY <1>1, <1>2
    <3>3. j \in i..Len(ts) /\ j + 1 \in i..Len(old)
      BY <1>2, <3>2, SMT
    <3>4. ts[j] = old[j + 1] /\ old[j + 1] = (j + 1) + i - 1
      BY <1>1, <1>2, <3>3
    <3>5. QED
      BY <3>2, <3>4, SMT
  <2>3. {2 * k - 1 : k \in 1..i} \cup {ts[i + 1]} = {2 * k - 1 : k \in 1..(i + 1)}
    <3> HIDE DEF ts, old, i
    <3>1. i \in Nat /\ i + 1 \in (i + 1)..Len(ts)
      BY <1>1, <1>2, <1>4
    <3>2. ts[i + 1] = 2 * (i + 1) - 1
      BY <3>1, <2>2, SMT
    <3>3. 1..(i + 1) = (1..i) \cup {i + 1}
      BY <3>1
    <3>4. QED
      BY <3>2, <3>3
  <2>4. i + 1 \in 1..Len(ts)
    BY <1>1, <1>2, <1>4
  <2>5. boot'[c].resumed = {2 * k - 1 : k \in 1..boot'[c].i}
    BY <1>1, <2>1, <2>3
  <2>6. BootOK(c)'
    <3> HIDE DEF ts, i
    <3>1. QED
      BY <2>1, <2>2, <2>4 DEF BootOK
  <2>7. QED
    BY <1>3, <2>5, <2>6 DEF BootsOK
<1>5. CASE ~(i + 1 <= Len(ts))
  <2>1. boot'[c] = NoBoot /\ main'[c] = "off"
    BY <1>5 DEF NextThread, TypeOK
  <2>2. {2 * k - 1 : k \in 1..0} = {}
    OBVIOUS
  <2>3. BootOK(c)' /\ boot'[c].resumed = {2 * k - 1 : k \in 1..boot'[c].i}
    BY <2>1, <2>2 DEF BootOK, NoBoot
  <2>4. QED
    BY <1>3, <2>3 DEF BootsOK
<1>6. QED
  BY <1>4, <1>5

LEMMA BootStep == TypeOK /\ BootsOK /\ [Next]_vars => BootsOK'
<1> SUFFICES ASSUME TypeOK, BootsOK, [Next]_vars PROVE BootsOK'
  OBVIOUS
<1>1. CASE Next
  <2>1. ASSUME NEW c \in Callers, TakeProxy(c) \/ AgentEnds(c) \/ AgentDies(c) \/ Distribute(c)
        PROVE  BootsOK'
    <3>1. boot' = boot /\ \A d \in Callers : main'[d] = "off" <=> main[d] = "off"
      BY <2>1 DEF TakeProxy, AgentEnds, AgentDies, Distribute, Goto, TypeOK
    <3>2. QED
      BY <3>1, BootKept
  <2>2. ASSUME NEW t \in Tasks, Schedule(t) \/ Miss(t) PROVE BootsOK'
    BY <2>2, BootKept DEF Schedule, Miss
  <2>3. ASSUME NEW c \in Clients, Blpop(c) \/ TimesOut(c) \/ GhostPop(c) \/ GhostGone(c)
        PROVE  BootsOK'
    BY <2>3, BootKept DEF Blpop, TimesOut, GhostPop, GhostGone
  <2>4. ASSUME NEW c \in Clients, NoAnswer(c) PROVE BootsOK'
    BY <2>4, BootKept DEF NoAnswer
  <2>5. ASSUME NEW x \in Crawlers, AskMany(x) \/ AnswerMany(x) PROVE BootsOK'
    BY <2>5, BootKept DEF AskMany, AnswerMany
  <2>6. ASSUME NEW c \in Callers, Fetch(c) \/ Push(c) PROVE BootsOK'
    <3>1. boot' = boot /\ \A d \in Callers : main'[d] = "off" <=> main[d] = "off"
      BY <2>6 DEF Fetch, Push, TypeOK
    <3>2. QED
      BY <3>1, BootKept
  <2>7. ASSUME NEW c \in Callers, Answer(c) \/ Dies(c) PROVE BootsOK'
    <3>1. boot' = boot /\ \A d \in Callers : main'[d] = "off" <=> main[d] = "off"
      BY <2>7 DEF Answer, AfterAnswer, Dies, Gone, TypeOK
    <3>2. QED
      BY <3>1, BootKept
  <2>8. ASSUME NEW f \in Fillers, Fill(f) \/ FillerDies(f) PROVE BootsOK'
    BY <2>8, BootKept DEF Fill, Llen, Buy, BuyNothing, BuyUnread, Rpush, FillerDies, taskVars
  <2>9. QED
    BY <1>1, <2>1, <2>2, <2>3, <2>4, <2>5, <2>6, <2>7, <2>8, LaunchBoots, NextThreadBoots
    DEF Next, Serve, Work
<1>2. CASE UNCHANGED vars
  BY <1>2, BootKept DEF vars, taskVars
<1>3. QED
  BY <1>1, <1>2
-----------------------------------------------------------------------------
(* Types, and what a maincall.lua has in hand. *)

ReqsOK == /\ \A c \in Clients : req[c].step = "none" => req[c].got = <<>>
          /\ \A c \in Callers : CallerOK(c)

\* The head of the list is a task, and the rest a list of tasks.
LEMMA HeadTail ==
    ASSUME TypeOK, queue # <<>>
    PROVE  /\ Head(queue) \in Tasks
           /\ Tail(queue) \in Seq(Tasks)
           /\ Len(queue) \in Nat \ {0}
           /\ Head(queue) = queue[1]
           /\ Len(Tail(queue)) = Len(queue) - 1
           /\ \A k \in 1..Len(Tail(queue)) : Tail(queue)[k] = queue[k + 1]
<1>1. queue \in Seq(Tasks)
  BY DEF TypeOK
<1>2. QED
  BY <1>1, HeadTailProperties, EmptySeq

\* A task popped is behind those of the answer so far.
LEMMA GotGrows ==
    ASSUME TypeOK, NEW c \in Clients, NEW t \in Tasks
    PROVE  /\ req[c].got \in Seq(Tasks)
           /\ Len(req[c].got) \in Nat
           /\ Append(req[c].got, t) \in Seq(Tasks)
           /\ Len(Append(req[c].got, t)) = Len(req[c].got) + 1
           /\ \A k \in 1..Len(req[c].got) : Append(req[c].got, t)[k] = req[c].got[k]
           /\ Append(req[c].got, t)[Len(req[c].got) + 1] = t
<1>1. req[c].got \in Seq(Tasks)
  BY DEF TypeOK
<1>2. QED
  BY <1>1, AppendProperties, LenProperties

\* What an answer holds are tasks.
LEMMA GotTasks ==
    ASSUME TypeOK, NEW c \in Clients
    PROVE  /\ Len(req[c].got) \in Nat
           /\ DOMAIN req[c].got = 1..Len(req[c].got)
           /\ \A k \in DOMAIN req[c].got : req[c].got[k] \in Tasks
           /\ req[c].got # <<>> => 1 \in DOMAIN req[c].got
<1>1. req[c].got \in Seq(Tasks)
  BY DEF TypeOK
<1>2. Len(req[c].got) \in Nat /\ req[c].got \in [1..Len(req[c].got) -> Tasks]
  BY <1>1, LenProperties
<1>3. req[c].got # <<>> => Len(req[c].got) \in Nat \ {0}
  BY <1>1, EmptySeq
<1>4. QED
  BY <1>2, <1>3

LEMMA TypeStep == TypeOK /\ ReqsOK /\ BootsOK /\ [Next]_vars => TypeOK'
<1> SUFFICES ASSUME TypeOK, ReqsOK, BootsOK, [Next]_vars PROVE TypeOK'
  OBVIOUS
<1> USE MaxNumIsPositive, MissedAreTasks
<1>1. ASSUME NEW t \in Tasks, Schedule(t) PROVE TypeOK'
  <2>1. Append(queue, t) \in Seq(Tasks)
    BY AppendProperties DEF TypeOK
  <2>2. QED
    BY <1>1, <2>1 DEF Schedule, TypeOK
<1>2. ASSUME NEW t \in Tasks, Miss(t) PROVE TypeOK'
  <2>1. <<t>> \o queue \in Seq(Tasks)
    BY ConcatProperties DEF TypeOK
  <2>2. QED
    BY <1>2, <2>1 DEF Miss, TypeOK
<1>3. ASSUME NEW c \in Clients, Blpop(c) PROVE TypeOK'
  <2>1. Head(queue) \in Tasks /\ Tail(queue) \in Seq(Tasks)
    BY <1>3, HeadTail DEF Blpop
  <2>2. Append(req[c].got, Head(queue)) \in Seq(Tasks)
    BY <2>1, GotGrows
  <2>3. QED
    BY <1>3, <2>1, <2>2 DEF Blpop, TypeOK
<1>4. ASSUME NEW c \in Clients, TimesOut(c) PROVE TypeOK'
  BY <1>4 DEF TimesOut, TypeOK
<1>5. ASSUME NEW c \in Clients, GhostPop(c) PROVE TypeOK'
  <2>1. Head(queue) \in Tasks /\ Tail(queue) \in Seq(Tasks)
    BY <1>5, HeadTail DEF GhostPop
  <2>2. QED
    BY <1>5, <2>1 DEF GhostPop, TypeOK
<1>6. ASSUME NEW c \in Clients, GhostGone(c) PROVE TypeOK'
  BY <1>6 DEF GhostGone, TypeOK
<1>7. NoReq \in [step : {"none", "blpop", "reply"}, got : Seq(Tasks), num : 1..MaxNum]
  BY EmptySeq DEF NoReq
<1>8. ASSUME NEW c \in Clients, NoAnswer(c) PROVE TypeOK'
  <2>1. {req[c].got[k] : k \in DOMAIN req[c].got} \subseteq Tasks
    BY GotTasks
  <2>2. QED
    BY <1>7, <1>8, <2>1 DEF NoAnswer, TypeOK
<1>9. ASSUME NEW x \in Crawlers, AnswerMany(x) PROVE TypeOK'
  <2>1. {req[x].got[k] : k \in DOMAIN req[x].got} \subseteq Tasks
    BY GotTasks DEF Clients
  <2>2. QED
    BY <1>7, <1>9, <2>1 DEF AnswerMany, TypeOK, Clients
<1>10. ASSUME NEW c \in Clients, NEW n \in 1..MaxNum
       PROVE  [NoReq EXCEPT !.step = "blpop", !.num = n]
                 \in [step : {"none", "blpop", "reply"}, got : Seq(Tasks), num : 1..MaxNum]
  BY <1>7 DEF NoReq
<1>11. ASSUME NEW x \in Crawlers, AskMany(x) PROVE TypeOK'
  <2>1. x \in Clients /\ MaxNum \in 1..MaxNum
    BY DEF Clients
  <2>2. QED
    BY <1>10, <1>11, <2>1 DEF AskMany, Ask, TypeOK
<1>12. ASSUME NEW c \in Callers, Fetch(c) PROVE TypeOK'
  <2>1. c \in Clients /\ 1 \in 1..MaxNum
    BY DEF Clients
  <2>2. QED
    BY <1>10, <1>12, <2>1 DEF Fetch, Ask, TypeOK
<1>13. ASSUME NEW c \in Callers, Answer(c) PROVE TypeOK'
  <2>1. c \in Clients
    BY DEF Clients
  <2>2. req[c].got # <<>> => req[c].got[1] \in Tasks
    BY <2>1, GotTasks
  <2>3. QED
    BY <1>7, <1>13, <2>1, <2>2 DEF Answer, AfterAnswer, TypeOK
<1>14. ASSUME NEW c \in Callers, TakeProxy(c) \/ AgentEnds(c) \/ AgentDies(c) \/ Distribute(c)
       PROVE  TypeOK'
  <2>1. pool' \in Nat
    BY <1>14 DEF TakeProxy, AgentEnds, AgentDies, Distribute, TypeOK
  <2>2. main' \in [Callers -> {"fetch", "wait", "proxy", "crawl", "push", "dist", "dead", "off"}]
    BY <1>14 DEF TakeProxy, AgentEnds, AgentDies, Distribute, Goto, TypeOK
  <2>3. UNCHANGED <<queue, pushed, req, ghosts, boot, arg, comb, taken, lost, filler>>
    BY <1>14 DEF TakeProxy, AgentEnds, AgentDies, Distribute, Goto
  <2>4. QED
    BY <2>1, <2>2, <2>3 DEF TypeOK
<1>15. ASSUME NEW c \in Callers, Push(c) PROVE TypeOK'
  BY <1>15 DEF Push, TypeOK, ReqsOK, CallerOK
<1>16. ASSUME NEW c \in Callers, Dies(c) PROVE TypeOK'
  BY <1>16 DEF Dies, TypeOK
<1>17. NoBoot \in [threads : Seq(Nat), i : Nat, resumed : SUBSET Nat]
  BY EmptySeq DEF NoBoot
<1>18. ASSUME NEW c \in Callers, NEW ts \in Seq(Nat), NEW i \in 1..Len(ts)
       PROVE  Runs(c, ts, i) \in [threads : Seq(Nat), i : Nat, resumed : SUBSET Nat]
  <2>1. ts[i] \in Nat
    BY ElementOfSeq
  <2>2. QED
    BY <2>1 DEF Runs, TypeOK
<1>19. ASSUME NEW c \in Callers, Launch(c) PROVE TypeOK'
  <2> DEFINE n == (pool + 1) \div 2
             ts == [k \in 1..n |-> k]
  <2>1. n \in Nat /\ n > 0
    BY <1>19 DEF Launch, TypeOK
  <2>2. ts \in Seq(Nat) /\ 1 \in 1..Len(ts)
    BY <2>1
  <2>3. boot' = [boot EXCEPT ![c] = Runs(c, ts, 1)]
    BY <1>19 DEF Launch
  <2> HIDE DEF ts
  <2>4. boot' \in [Callers -> [threads : Seq(Nat), i : Nat, resumed : SUBSET Nat]]
    BY <1>18, <2>2, <2>3 DEF TypeOK
  <2>5. QED
    BY <1>19, <2>4 DEF Launch, TypeOK
<1>20. ASSUME NEW c \in Callers, NextThread(c) PROVE TypeOK'
  <2> DEFINE ts == RemoveAt(boot[c].threads, boot[c].i)
  <2>1. boot[c].threads \in Seq(Nat) /\ boot[c].i \in 1..Len(boot[c].threads)
    BY <1>20 DEF NextThread, BootsOK, BootOK, TypeOK
  <2>2. ts \in Seq(Nat) /\ Len(ts) \in Nat
    BY <2>1, Removed, LenProperties
  <2>3. boot[c].i + 1 <= Len(ts) => boot[c].i + 1 \in 1..Len(ts)
    BY <2>1, <2>2
  <2>4. \/ boot[c].i + 1 <= Len(ts) /\ boot' = [boot EXCEPT ![c] = Runs(c, ts, boot[c].i + 1)]
        \/ boot' = [boot EXCEPT ![c] = NoBoot]
    BY <1>20 DEF NextThread
  <2> HIDE DEF ts
  <2>5. boot' \in [Callers -> [threads : Seq(Nat), i : Nat, resumed : SUBSET Nat]]
    <3>1. ASSUME NEW b \in [threads : Seq(Nat), i : Nat, resumed : SUBSET Nat],
                 boot' = [boot EXCEPT ![c] = b]
          PROVE  boot' \in [Callers -> [threads : Seq(Nat), i : Nat, resumed : SUBSET Nat]]
      BY <3>1 DEF TypeOK
    <3>2. CASE boot' = [boot EXCEPT ![c] = NoBoot]
      BY <1>17, <3>1, <3>2
    <3>3. CASE boot[c].i + 1 <= Len(ts) /\ boot' = [boot EXCEPT ![c] = Runs(c, ts, boot[c].i + 1)]
      BY <1>18, <2>2, <2>3, <3>1, <3>3
    <3>4. QED
      BY <2>4, <3>2, <3>3
  <2>6. main' \in [Callers -> {"fetch", "wait", "proxy", "crawl", "push", "dist", "dead", "off"}]
    BY <1>20 DEF NextThread, TypeOK
  <2>7. QED
    BY <1>20, <2>5, <2>6 DEF NextThread, TypeOK
<1>21. ASSUME NEW f \in Fillers, Fill(f) \/ FillerDies(f) PROVE TypeOK'
  <2>1. pool' \in Nat /\ filler' \in [Fillers -> {"llen", "buy", "push", "off"}]
    <3>1. CASE Llen(f)
      BY <3>1 DEF Llen, TypeOK
    <3>2. CASE Buy(f)
      BY <3>2 DEF Buy, TypeOK
    <3>3. CASE BuyNothing(f) \/ BuyUnread(f)
      BY <3>3 DEF BuyNothing, BuyUnread, TypeOK
    <3>4. CASE Rpush(f)
      BY <3>4 DEF Rpush, TypeOK
    <3>5. CASE FillerDies(f)
      BY <3>5 DEF FillerDies, TypeOK
    <3>6. QED
      BY <1>21, <3>1, <3>2, <3>3, <3>4, <3>5 DEF Fill
  <2>2. UNCHANGED taskVars
    BY <1>21 DEF Fill, Llen, Buy, BuyNothing, BuyUnread, Rpush, FillerDies
  <2>3. QED
    BY <2>1, <2>2 DEF taskVars, TypeOK
<1>22. CASE UNCHANGED vars
  BY <1>22 DEF vars, taskVars, TypeOK
<1>23. QED
  BY <1>1, <1>2, <1>3, <1>4, <1>5, <1>6, <1>8, <1>9, <1>11, <1>12, <1>13, <1>14, <1>15, <1>16,
     <1>19, <1>20, <1>21, <1>22 DEF Next, Serve, Work

\* A step after which a maincall.lua has the same request, task and step.
LEMMA CallerKept ==
    ASSUME NEW d \in Callers, CallerOK(d),
           main'[d] = main[d], arg'[d] = arg[d], req'[d] = req[d]
    PROVE  CallerOK(d)'
  BY DEF CallerOK

\* The next step of a maincall.lua has a task if this one has.
LEMMA CallerGoes ==
    ASSUME TypeOK, ReqsOK, NEW c \in Callers,
           TakeProxy(c) \/ AgentEnds(c) \/ AgentDies(c) \/ Distribute(c)
    PROVE  ReqsOK'
<1>1. req' = req /\ arg' = arg
  BY DEF TakeProxy, AgentEnds, AgentDies, Distribute, Goto
<1>2. \A d \in Callers : d # c => main'[d] = main[d]
  BY DEF TakeProxy, AgentEnds, AgentDies, Distribute, Goto, TypeOK
<1>3. \/ main[c] \in {"proxy", "crawl"} /\ main'[c] \in {"crawl", "push"}
      \/ main[c] = "dist" /\ main'[c] = "fetch"
  BY DEF TakeProxy, AgentEnds, AgentDies, Distribute, Goto, TypeOK
<1>4. CallerOK(c)'
  BY <1>1, <1>3 DEF ReqsOK, CallerOK
<1>5. ASSUME NEW d \in Callers, d # c PROVE CallerOK(d)'
  BY <1>1, <1>2, <1>5, CallerKept DEF ReqsOK
<1>6. QED
  BY <1>1, <1>4, <1>5 DEF ReqsOK

LEMMA ReqsStep == TypeOK /\ ReqsOK /\ BootsOK /\ [Next]_vars => ReqsOK'
<1> SUFFICES ASSUME TypeOK, ReqsOK, BootsOK, [Next]_vars PROVE ReqsOK'
  OBVIOUS
<1> USE ClientsAreDistinct DEF Clients
<1>1. ASSUME UNCHANGED <<main, arg, req>> PROVE ReqsOK'
  BY <1>1 DEF ReqsOK, CallerOK
<1>2. ASSUME NEW c \in Clients, Blpop(c) PROVE ReqsOK'
  <2>1. main' = main /\ arg' = arg /\ \A d \in Clients : d # c => req'[d] = req[d]
    BY <1>2 DEF Blpop, TypeOK
  <2>2. /\ req[c].step = "blpop"
        /\ req'[c].got = Append(req[c].got, Head(queue))
        /\ req'[c].step \in {"blpop", "reply"}
        /\ Len(req'[c].got) = req[c].num => req'[c].step = "reply"
        /\ req'[c].num = req[c].num
    BY <1>2 DEF Blpop, TypeOK
  <2>3. Len(req'[c].got) = Len(req[c].got) + 1 /\ Len(req[c].got) \in Nat
    BY <1>2, <2>2, HeadTail, GotGrows DEF Blpop
  <2>4. c \in Callers => CallerOK(c)'
    BY <2>1, <2>2, <2>3 DEF ReqsOK, CallerOK
  <2>5. \A d \in Callers : d # c => CallerOK(d)'
    BY <2>1, CallerKept DEF ReqsOK
  <2>6. QED
    BY <2>1, <2>2, <2>4, <2>5 DEF ReqsOK
<1>3. ASSUME NEW c \in Clients, TimesOut(c) PROVE ReqsOK'
  <2>1. main' = main /\ arg' = arg /\ \A d \in Clients : d # c => req'[d] = req[d]
    BY <1>3 DEF TimesOut, TypeOK
  <2>2. /\ req[c].step = "blpop"
        /\ req'[c].got = req[c].got
        /\ req'[c].step = "reply"
        /\ req'[c].num = req[c].num
    BY <1>3 DEF TimesOut, TypeOK
  <2>3. Len(req[c].got) \in Nat
    BY GotTasks
  <2>4. c \in Callers => CallerOK(c)'
    BY <2>1, <2>2, <2>3 DEF ReqsOK, CallerOK
  <2>5. \A d \in Callers : d # c => CallerOK(d)'
    BY <2>1, CallerKept DEF ReqsOK
  <2>6. QED
    BY <2>1, <2>2, <2>4, <2>5 DEF ReqsOK
<1>4. Len(<<>>) = 0
  OBVIOUS
<1>5. ASSUME NEW c \in Clients, NoAnswer(c) PROVE ReqsOK'
  <2>1. arg' = arg /\ \A d \in Clients : d # c => req'[d] = req[d]
    BY <1>5 DEF NoAnswer, TypeOK
  <2>2. req'[c] = NoReq
    BY <1>5 DEF NoAnswer, TypeOK
  <2>3. ASSUME c \in Callers PROVE CallerOK(c)'
    <3>1. main'[c] = IF main[c] = "wait" THEN "fetch" ELSE main[c]
      BY <1>5, <2>3 DEF NoAnswer
    <3>2. QED
      BY <1>4, <2>1, <2>2, <2>3, <3>1 DEF NoReq, ReqsOK, CallerOK
  <2>4. ASSUME NEW d \in Callers, d # c PROVE CallerOK(d)'
    <3>1. main'[d] = main[d]
      BY <1>5, <2>4 DEF NoAnswer
    <3>2. QED
      BY <2>1, <2>4, <3>1, CallerKept DEF ReqsOK
  <2>5. QED
    BY <2>1, <2>2, <2>3, <2>4 DEF ReqsOK, NoReq
<1>6. ASSUME NEW x \in Crawlers, AskMany(x) \/ AnswerMany(x) PROVE ReqsOK'
  <2>1. /\ main' = main /\ arg' = arg
        /\ \A d \in Clients : d # x => req'[d] = req[d]
        /\ req'[x].step = "none" => req'[x].got = <<>>
    <3>1. CASE AskMany(x)
      BY <3>1 DEF AskMany, Ask, NoReq, TypeOK
    <3>2. CASE AnswerMany(x)
      BY <3>2 DEF AnswerMany, NoReq, TypeOK
    <3>3. QED
      BY <1>6, <3>1, <3>2
  <2>2. \A d \in Callers : CallerOK(d)'
    BY <2>1, CallerKept DEF ReqsOK
  <2>3. QED
    BY <2>1, <2>2 DEF ReqsOK
<1>7. ASSUME NEW c \in Callers, Fetch(c) \/ Answer(c) PROVE ReqsOK'
  <2>1. \A d \in Clients : d # c => req'[d] = req[d]
    BY <1>7 DEF Fetch, Answer, Ask, TypeOK
  <2>2. \A d \in Callers : d # c => main'[d] = main[d] /\ arg'[d] = arg[d]
    BY <1>7 DEF Fetch, Answer, TypeOK
  <2>3. CASE Fetch(c)
    <3>1. main[c] = "fetch" /\ main'[c] = "wait" /\ arg'[c] = arg[c]
      BY <2>3 DEF Fetch, TypeOK
    <3>2. req'[c].got = <<>> /\ req'[c].num = 1 /\ req'[c].step = "blpop"
      BY <2>3 DEF Fetch, Ask, NoReq, TypeOK
    <3>3. CallerOK(c)'
      BY <1>4, <3>1, <3>2 DEF ReqsOK, CallerOK
    <3>4. QED
      BY <2>1, <2>2, <3>2, <3>3, CallerKept DEF ReqsOK
  <2>4. CASE Answer(c)
    <3>1. req'[c] = NoReq
      BY <2>4 DEF Answer, TypeOK
    <3>2. main'[c] = IF req[c].got = <<>> THEN "dead" ELSE "proxy"
      BY <2>4 DEF Answer, AfterAnswer, TypeOK
    <3>3. arg'[c] = IF req[c].got = <<>> THEN None ELSE req[c].got[1]
      BY <2>4 DEF Answer, TypeOK
    <3>4. CallerOK(c)'
      BY <1>4, <3>1, <3>2, <3>3, GotTasks DEF CallerOK, NoReq
    <3>5. QED
      BY <2>1, <2>2, <3>1, <3>4, CallerKept DEF ReqsOK, NoReq
  <2>5. QED
    BY <1>7, <2>3, <2>4
<1>8. ASSUME NEW c \in Callers, Push(c) \/ Dies(c) PROVE ReqsOK'
  <2>1. req' = req
    BY <1>8 DEF Push, Dies
  <2>2. \A d \in Callers : d # c => main'[d] = main[d] /\ arg'[d] = arg[d]
    BY <1>8 DEF Push, Dies, TypeOK
  <2>3. /\ (main[c] = "push" /\ main'[c] = "dist") \/ main'[c] = "dead"
        /\ arg'[c] = None
    BY <1>8 DEF Push, Dies, TypeOK
  <2>4. CallerOK(c)'
    BY <2>1, <2>3 DEF ReqsOK, CallerOK
  <2>5. QED
    BY <2>1, <2>2, <2>4, CallerKept DEF ReqsOK
<1>9. ASSUME NEW c \in Callers, Launch(c) \/ NextThread(c) PROVE ReqsOK'
  <2>1. req' = req /\ arg' = arg
    BY <1>9 DEF Launch, NextThread
  <2>2. \A d \in Callers : d # c => main'[d] = main[d]
    BY <1>9 DEF Launch, NextThread, TypeOK
  <2>3. req[c] = NoReq /\ main'[c] \in {"fetch", "off"}
    BY <1>9 DEF Launch, NextThread, TypeOK
  <2>4. main[c] \in {"off", "dead"}
    <3>1. CASE NextThread(c)
      BY <3>1 DEF NextThread
    <3>2. CASE Launch(c)
      <4>1. boot[c].i = 0
        BY <3>2 DEF Launch, NoBoot
      <4>2. QED
        BY <4>1 DEF BootsOK, BootOK
    <3>3. QED
      BY <1>9, <3>1, <3>2
  <2>5. CallerOK(c)'
    BY <2>1, <2>3, <2>4 DEF ReqsOK, CallerOK, NoReq
  <2>6. QED
    BY <2>1, <2>2, <2>5, CallerKept DEF ReqsOK
<1>10. ASSUME NEW t \in Tasks, Schedule(t) \/ Miss(t) PROVE ReqsOK'
  BY <1>1, <1>10 DEF Schedule, Miss
<1>11. ASSUME NEW c \in Clients, GhostPop(c) \/ GhostGone(c) PROVE ReqsOK'
  BY <1>1, <1>11 DEF GhostPop, GhostGone
<1>12. ASSUME NEW f \in Fillers, Fill(f) \/ FillerDies(f) PROVE ReqsOK'
  BY <1>1, <1>12 DEF Fill, Llen, Buy, BuyNothing, BuyUnread, Rpush, FillerDies, taskVars
<1>13. CASE UNCHANGED vars
  BY <1>1, <1>13 DEF vars, taskVars
<1>14. QED
  BY <1>2, <1>3, <1>5, <1>6, <1>7, <1>8, <1>9, <1>10, <1>11, <1>12, <1>13, CallerGoes
  DEF Next, Serve, Work
-----------------------------------------------------------------------------
(* The place of a task. *)

InQueue(p, t) == \E k \in DOMAIN queue : queue[k] = t /\ p = <<"queue", k>>
InAnswer(p, t) == \E c \in Clients : \E k \in DOMAIN req[c].got :
                     req[c].got[k] = t /\ p = <<c, k>>
InHand(p, t) == \E c \in Callers : arg[c] = t /\ p = <<c, 0>>
AtEnd(p, t) == \/ t \in comb /\ p = <<"end", 1>>
               \/ t \in taken /\ p = <<"end", 2>>
               \/ t \in lost /\ p = <<"end", 3>>

\* What Places collects, place by place.
LEMMA PlacesAre ==
    ASSUME NEW t, NEW p
    PROVE  /\ p \in Places(t) <=>
                InQueue(p, t) \/ InAnswer(p, t) \/ InHand(p, t) \/ AtEnd(p, t)
           /\ p \in Places(t)' <=>
                InQueue(p, t)' \/ InAnswer(p, t)' \/ InHand(p, t)' \/ AtEnd(p, t)'
<1>1. \A co, ta, lo : {<<"end", n>> : n \in {m \in 1..3 : t \in <<co, ta, lo>>[m]}}
         = {q \in {<<"end", 1>>, <<"end", 2>>, <<"end", 3>>} :
               \/ t \in co /\ q = <<"end", 1>>
               \/ t \in ta /\ q = <<"end", 2>>
               \/ t \in lo /\ q = <<"end", 3>>}
  <2> SUFFICES ASSUME NEW co, NEW ta, NEW lo
               PROVE  {<<"end", n>> : n \in {m \in 1..3 : t \in <<co, ta, lo>>[m]}}
         = {q \in {<<"end", 1>>, <<"end", 2>>, <<"end", 3>>} :
               \/ t \in co /\ q = <<"end", 1>>
               \/ t \in ta /\ q = <<"end", 2>>
               \/ t \in lo /\ q = <<"end", 3>>}
    OBVIOUS
  <2>1. 1..3 = {1, 2, 3}
    OBVIOUS
  <2>2. <<co, ta, lo>>[1] = co /\ <<co, ta, lo>>[2] = ta /\ <<co, ta, lo>>[3] = lo
    OBVIOUS
  <2>3. QED
    BY <2>1, <2>2
<1>2. p \in {<<"end", n>> : n \in {m \in 1..3 : t \in <<comb, taken, lost>>[m]}} <=> AtEnd(p, t)
  BY <1>1 DEF AtEnd
<1>3. p \in {<<"end", n>> : n \in {m \in 1..3 : t \in <<comb', taken', lost'>>[m]}}
         <=> AtEnd(p, t)'
  BY <1>1 DEF AtEnd
<1>4. p \in {<<"queue", k>> : k \in {n \in DOMAIN queue : queue[n] = t}} <=> InQueue(p, t)
  BY DEF InQueue
<1>5. p \in {<<"queue", k>> : k \in {n \in DOMAIN queue' : queue'[n] = t}} <=> InQueue(p, t)'
  BY DEF InQueue
<1>6. p \in UNION {{<<c, k>> : k \in {n \in DOMAIN req[c].got : req[c].got[n] = t}} :
                      c \in Clients} <=> InAnswer(p, t)
  BY DEF InAnswer
<1>7. p \in UNION {{<<c, k>> : k \in {n \in DOMAIN req'[c].got : req'[c].got[n] = t}} :
                      c \in Clients} <=> InAnswer(p, t)'
  BY DEF InAnswer
<1>8. p \in {<<c, 0>> : c \in {d \in Callers : arg[d] = t}} <=> InHand(p, t)
  BY DEF InHand
<1>9. p \in {<<c, 0>> : c \in {d \in Callers : arg'[d] = t}} <=> InHand(p, t)'
  BY DEF InHand
<1>10. \A A, B, C, D : p \in A \cup B \cup C \cup D <=> p \in A \/ p \in B \/ p \in C \/ p \in D
  OBVIOUS
<1>11. p \in Places(t) <=> InQueue(p, t) \/ InAnswer(p, t) \/ InHand(p, t) \/ AtEnd(p, t)
  <2> DEFINE A == {<<"queue", k>> : k \in {n \in DOMAIN queue : queue[n] = t}}
             B == UNION {{<<c, k>> : k \in {n \in DOMAIN req[c].got : req[c].got[n] = t}} :
                            c \in Clients}
             C == {<<c, 0>> : c \in {d \in Callers : arg[d] = t}}
             D == {<<"end", n>> : n \in {m \in 1..3 : t \in <<comb, taken, lost>>[m]}}
  <2>1. Places(t) = A \cup B \cup C \cup D
    BY Zenon DEF Places
  <2>2. /\ p \in A <=> InQueue(p, t)
        /\ p \in B <=> InAnswer(p, t)
        /\ p \in C <=> InHand(p, t)
        /\ p \in D <=> AtEnd(p, t)
    BY <1>2, <1>4, <1>6, <1>8, Zenon
  <2> HIDE DEF A, B, C, D
  <2>3. QED
    BY <1>10, <2>1, <2>2, Zenon
<1>12. p \in Places(t)' <=> InQueue(p, t)' \/ InAnswer(p, t)' \/ InHand(p, t)' \/ AtEnd(p, t)'
  <2> DEFINE A == {<<"queue", k>> : k \in {n \in DOMAIN queue' : queue'[n] = t}}
             B == UNION {{<<c, k>> : k \in {n \in DOMAIN req'[c].got : req'[c].got[n] = t}} :
                            c \in Clients}
             C == {<<c, 0>> : c \in {d \in Callers : arg'[d] = t}}
             D == {<<"end", n>> : n \in {m \in 1..3 : t \in <<comb', taken', lost'>>[m]}}
  <2>1. Places(t)' = A \cup B \cup C \cup D
    BY Zenon DEF Places
  <2>2. /\ p \in A <=> InQueue(p, t)'
        /\ p \in B <=> InAnswer(p, t)'
        /\ p \in C <=> InHand(p, t)'
        /\ p \in D <=> AtEnd(p, t)'
    BY <1>3, <1>5, <1>7, <1>9, Zenon
  <2> HIDE DEF A, B, C, D
  <2>3. QED
    BY <1>10, <2>1, <2>2, Zenon
<1>13. QED
  BY <1>11, <1>12

\* The kind of a place shows in its first part.
LEMMA Kinds ==
    ASSUME NEW p, NEW t
    PROVE  /\ InQueue(p, t) => p[1] = "queue" /\ p[1] \notin Clients
           /\ InAnswer(p, t) => p[1] \in Clients /\ p[1] # "queue" /\ p[1] # "end"
           /\ InHand(p, t) => p[1] \in Clients /\ p[1] # "queue" /\ p[1] # "end" /\ p[2] = 0
           /\ AtEnd(p, t) => p[1] = "end" /\ p[1] # "queue" /\ p[1] \notin Clients
  BY ClientsAreNames DEF InQueue, InAnswer, InHand, AtEnd, Clients

PlacedOnce == \A t \in Tasks : OnePlace(t)

\* A step that moves no task.
LEMMA NoneMoves ==
    ASSUME PlacedOnce, pushed' = pushed, queue' = queue, arg' = arg,
           comb' = comb, taken' = taken, lost' = lost,
           \A c \in Clients : req'[c].got = req[c].got
    PROVE  PlacedOnce'
<1>1. ASSUME NEW t \in Tasks PROVE Places(t)' = Places(t)
  <2>1. \A p : /\ InQueue(p, t)' <=> InQueue(p, t)
               /\ InAnswer(p, t)' <=> InAnswer(p, t)
               /\ InHand(p, t)' <=> InHand(p, t)
               /\ AtEnd(p, t)' <=> AtEnd(p, t)
    BY DEF InQueue, InAnswer, InHand, AtEnd
  <2>2. \A p : p \in Places(t)' <=> p \in Places(t)
    BY <2>1, PlacesAre
  <2>3. QED
    BY <2>2 DEF Places
<1>2. QED
  BY <1>1 DEF PlacedOnce, OnePlace

\* A task that is popped or answered to somebody goes from the one place it has to another.
LEMMA BlpopPlaces ==
    ASSUME TypeOK, PlacedOnce, NEW c \in Clients, Blpop(c)
    PROVE  PlacedOnce'
<1> SUFFICES ASSUME NEW t \in Tasks PROVE OnePlace(t)'
  BY DEF PlacedOnce
<1>0. PICK n \in Nat : n = Len(req[c].got)
  BY GotTasks
<1> DEFINE h == Head(queue)
           phi(p) == IF p[1] # "queue" THEN p
                     ELSE IF p[2] = 1 THEN <<c, n + 1>> ELSE <<"queue", p[2] - 1>>
<1>1. /\ queue # <<>> /\ queue' = Tail(queue)
      /\ req'[c].got = Append(req[c].got, h)
      /\ \A d \in Clients : d # c => req'[d] = req[d]
      /\ UNCHANGED <<pushed, arg, comb, taken, lost>>
  BY DEF Blpop, TypeOK
<1>2. /\ h = queue[1] /\ h \in Tasks
      /\ Len(queue) \in Nat \ {0} /\ DOMAIN queue = 1..Len(queue)
      /\ DOMAIN queue' = 1..(Len(queue) - 1)
      /\ \A k \in 1..(Len(queue) - 1) : queue'[k] = queue[k + 1]
  <2>1. queue \in Seq(Tasks) /\ queue' \in Seq(Tasks)
    BY <1>1, HeadTail DEF TypeOK
  <2>2. QED
    BY <1>1, <2>1, HeadTail, LenProperties
<1>3. /\ n \in Nat /\ DOMAIN req[c].got = 1..n
      /\ DOMAIN req'[c].got = 1..(n + 1)
      /\ \A k \in 1..n : req'[c].got[k] = req[c].got[k]
      /\ req'[c].got[n + 1] = h
  <2>1. req[c].got \in Seq(Tasks) /\ req'[c].got \in Seq(Tasks)
    BY <1>1, <1>2, GotGrows
  <2>2. QED
    BY <1>0, <1>1, <1>2, <2>1, GotGrows, LenProperties
<1> HIDE DEF h
<1>4. ASSUME NEW p \in Places(t) PROVE phi(p) \in Places(t)'
  <2>1. CASE InQueue(p, t)
    <3>1. PICK k \in DOMAIN queue : queue[k] = t /\ p = <<"queue", k>>
      BY <2>1 DEF InQueue
    <3>2. CASE k = 1
      <4>1. phi(p) = <<c, n + 1>> /\ n + 1 \in DOMAIN req'[c].got /\ req'[c].got[n + 1] = t
        BY <1>2, <1>3, <3>1, <3>2
      <4>2. InAnswer(phi(p), t)'
        BY <4>1 DEF InAnswer
      <4>3. QED
        BY <4>2, PlacesAre
    <3>3. CASE k # 1
      <4>1. k - 1 \in DOMAIN queue' /\ queue'[k - 1] = t
        BY <1>2, <3>1, <3>3
      <4>2. phi(p) = <<"queue", k - 1>>
        BY <3>1, <3>3
      <4>3. InQueue(phi(p), t)'
        BY <4>1, <4>2 DEF InQueue
      <4>4. QED
        BY <4>3, PlacesAre
    <3>4. QED
      BY <3>2, <3>3
  <2>2. CASE InAnswer(p, t)
    <3>1. phi(p) = p
      BY <2>2, Kinds
    <3>2. ASSUME NEW d \in Clients, NEW k \in DOMAIN req[d].got
          PROVE  k \in DOMAIN req'[d].got /\ req'[d].got[k] = req[d].got[k]
      <4>1. CASE d = c
        BY <1>3, <4>1
      <4>2. CASE d # c
        BY <1>1, <4>2
      <4>3. QED
        BY <4>1, <4>2
    <3>3. InAnswer(p, t)'
      BY <2>2, <3>2 DEF InAnswer
    <3>4. QED
      BY <3>1, <3>3, PlacesAre
  <2>3. CASE InHand(p, t) \/ AtEnd(p, t)
    <3>1. phi(p) = p
      BY <2>3, Kinds
    <3>2. InHand(p, t)' \/ AtEnd(p, t)'
      BY <1>1, <2>3 DEF InHand, AtEnd
    <3>3. QED
      BY <3>1, <3>2, PlacesAre
  <2>4. QED
    BY <2>1, <2>2, <2>3, PlacesAre
<1>5. ASSUME NEW q \in Places(t)' PROVE \E p \in Places(t) : q = phi(p)
  <2>1. CASE InQueue(q, t)'
    <3>1. PICK k \in DOMAIN queue' : queue'[k] = t /\ q = <<"queue", k>>
      BY <2>1 DEF InQueue
    <3>2. k + 1 \in DOMAIN queue /\ queue[k + 1] = t
      BY <1>2, <3>1
    <3>3. <<"queue", k + 1>> \in Places(t)
      <4>1. InQueue(<<"queue", k + 1>>, t)
        BY <3>2 DEF InQueue
      <4>2. QED
        BY <4>1, PlacesAre
    <3>4. phi(<<"queue", k + 1>>) = <<"queue", k>>
      BY <1>2, <3>1
    <3>5. QED
      BY <3>1, <3>3, <3>4
  <2>2. CASE InAnswer(q, t)'
    <3>0. PICK d \in Clients : \E k \in DOMAIN req'[d].got : req'[d].got[k] = t /\ q = <<d, k>>
      BY <2>2 DEF InAnswer
    <3>1. PICK k \in DOMAIN req'[d].got : req'[d].got[k] = t /\ q = <<d, k>>
      BY <3>0
    <3>2. CASE d = c /\ k = n + 1
      <4>1. InQueue(<<"queue", 1>>, t)
        BY <1>2, <1>3, <3>1, <3>2 DEF InQueue
      <4>2. phi(<<"queue", 1>>) = q
        BY <3>1, <3>2
      <4>3. QED
        BY <4>1, <4>2, PlacesAre
    <3>3. CASE ~(d = c /\ k = n + 1)
      <4>1. k \in DOMAIN req[d].got /\ req[d].got[k] = t
        <5>1. CASE d = c
          BY <1>3, <3>1, <3>3, <5>1
        <5>2. CASE d # c
          BY <1>1, <3>1, <5>2
        <5>3. QED
          BY <5>1, <5>2
      <4>2. InAnswer(q, t)
        BY <3>1, <4>1 DEF InAnswer
      <4>3. phi(q) = q
        BY <4>2, Kinds
      <4>4. QED
        BY <4>2, <4>3, PlacesAre
    <3>4. QED
      BY <3>2, <3>3
  <2>3. CASE InHand(q, t)' \/ AtEnd(q, t)'
    <3>1. InHand(q, t) \/ AtEnd(q, t)
      BY <1>1, <2>3 DEF InHand, AtEnd
    <3>2. phi(q) = q
      BY <3>1, Kinds
    <3>3. QED
      BY <3>1, <3>2, PlacesAre
  <2>4. QED
    BY <2>1, <2>2, <2>3, PlacesAre
<1> HIDE DEF phi
<1>6. OnePlace(t)
  BY DEF PlacedOnce
<1>7. QED
  BY <1>1, <1>4, <1>5, <1>6 DEF OnePlace

LEMMA GhostPopPlaces ==
    ASSUME TypeOK, PlacedOnce, NEW c \in Clients, GhostPop(c)
    PROVE  PlacedOnce'
<1> SUFFICES ASSUME NEW t \in Tasks PROVE OnePlace(t)'
  BY DEF PlacedOnce
<1> DEFINE phi(p) == IF p[1] # "queue" THEN p
                     ELSE IF p[2] = 1 THEN <<"end", 3>> ELSE <<"queue", p[2] - 1>>
<1>1. /\ queue # <<>> /\ queue' = Tail(queue) /\ lost' = lost \cup {Head(queue)}
      /\ UNCHANGED <<pushed, req, arg, comb, taken>>
  BY DEF GhostPop
<1>2. /\ Head(queue) = queue[1]
      /\ Len(queue) \in Nat \ {0} /\ DOMAIN queue = 1..Len(queue)
      /\ DOMAIN queue' = 1..(Len(queue) - 1)
      /\ \A k \in 1..(Len(queue) - 1) : queue'[k] = queue[k + 1]
  <2>1. queue \in Seq(Tasks) /\ queue' \in Seq(Tasks)
    BY <1>1, HeadTail DEF TypeOK
  <2>2. QED
    BY <1>1, <2>1, HeadTail, LenProperties
<1>3. \A q : InAnswer(q, t)' <=> InAnswer(q, t)
  BY <1>1 DEF InAnswer
<1>4. \A q : InHand(q, t)' <=> InHand(q, t)
  BY <1>1 DEF InHand
<1>5. \A q : AtEnd(q, t)' <=> AtEnd(q, t) \/ (q = <<"end", 3>> /\ t = queue[1])
  BY <1>1, <1>2 DEF AtEnd
<1>6. ASSUME NEW p \in Places(t) PROVE phi(p) \in Places(t)'
  <2>1. CASE InQueue(p, t)
    <3>1. PICK k \in DOMAIN queue : queue[k] = t /\ p = <<"queue", k>>
      BY <2>1 DEF InQueue
    <3>2. CASE k = 1
      <4>1. phi(p) = <<"end", 3>>
        BY <3>1, <3>2
      <4>2. AtEnd(<<"end", 3>>, t)'
        BY <1>5, <3>1, <3>2
      <4>3. QED
        BY <4>1, <4>2, PlacesAre
    <3>3. CASE k # 1
      <4>1. k - 1 \in DOMAIN queue' /\ queue'[k - 1] = t
        BY <1>2, <3>1, <3>3
      <4>2. phi(p) = <<"queue", k - 1>>
        BY <3>1, <3>3
      <4>3. InQueue(phi(p), t)'
        BY <4>1, <4>2 DEF InQueue
      <4>4. QED
        BY <4>3, PlacesAre
    <3>4. QED
      BY <3>2, <3>3
  <2>2. CASE InAnswer(p, t) \/ InHand(p, t) \/ AtEnd(p, t)
    <3>1. phi(p) = p
      BY <2>2, Kinds
    <3>2. QED
      BY <1>3, <1>4, <1>5, <2>2, <3>1, PlacesAre
  <2>3. QED
    BY <2>1, <2>2, PlacesAre
<1>7. ASSUME NEW q \in Places(t)' PROVE \E p \in Places(t) : q = phi(p)
  <2>1. CASE InQueue(q, t)'
    <3>1. PICK k \in DOMAIN queue' : queue'[k] = t /\ q = <<"queue", k>>
      BY <2>1 DEF InQueue
    <3>2. k + 1 \in DOMAIN queue /\ queue[k + 1] = t
      BY <1>2, <3>1
    <3>3. InQueue(<<"queue", k + 1>>, t)
      BY <3>2 DEF InQueue
    <3>4. phi(<<"queue", k + 1>>) = <<"queue", k>>
      BY <1>2, <3>1
    <3>5. QED
      BY <3>1, <3>3, <3>4, PlacesAre
  <2>2. CASE q = <<"end", 3>> /\ t = queue[1]
    <3>1. InQueue(<<"queue", 1>>, t)
      BY <1>2, <2>2 DEF InQueue
    <3>2. phi(<<"queue", 1>>) = q
      BY <2>2
    <3>3. QED
      BY <3>1, <3>2, PlacesAre
  <2>3. CASE InAnswer(q, t) \/ InHand(q, t) \/ AtEnd(q, t)
    <3>1. phi(q) = q
      BY <2>3, Kinds
    <3>2. QED
      BY <2>3, <3>1, PlacesAre
  <2>4. QED
    BY <1>3, <1>4, <1>5, <2>1, <2>2, <2>3, PlacesAre
<1> HIDE DEF phi
<1>8. QED
  BY <1>1, <1>6, <1>7 DEF OnePlace, PlacedOnce

\* All that a request has popped goes to one place in hand or at an end, and nothing
\* else comes to these places or leaves them.
AllGoTo(c, dest) ==
    \A t \in Tasks : \A p :
       InHand(p, t)' \/ AtEnd(p, t)' <=>
          \/ InHand(p, t) \/ AtEnd(p, t)
          \/ p = dest /\ \E k \in DOMAIN req[c].got : req[c].got[k] = t

\* The end of a request.
LEMMA RequestEnds ==
    ASSUME TypeOK, PlacedOnce, NEW c \in Clients, NEW dest,
           pushed' = pushed, queue' = queue, req'[c].got = <<>>,
           \A d \in Clients : d # c => req'[d] = req[d],
           AllGoTo(c, dest)
    PROVE  PlacedOnce'
<1>0. \A t \in Tasks : \A p :
         InHand(p, t)' \/ AtEnd(p, t)' <=>
            \/ InHand(p, t) \/ AtEnd(p, t)
            \/ p = dest /\ \E k \in DOMAIN req[c].got : req[c].got[k] = t
  BY DEF AllGoTo
<1> USE <1>0
<1> SUFFICES ASSUME NEW t \in Tasks PROVE OnePlace(t)'
  BY DEF PlacedOnce
<1> DEFINE phi(p) == IF p[1] = c /\ p[2] # 0 THEN dest ELSE p
<1>1. \A p : InQueue(p, t)' <=> InQueue(p, t)
  BY DEF InQueue
<1>2. \A p : InQueue(p, t) \/ InHand(p, t) \/ AtEnd(p, t) => phi(p) = p
  BY Kinds
<1>3. DOMAIN req[c].got = 1..Len(req[c].got) /\ Len(req[c].got) \in Nat
  BY GotTasks
<1>4. DOMAIN req'[c].got = {}
  OBVIOUS
<1>5. ASSUME NEW p \in Places(t) PROVE phi(p) \in Places(t)'
  <2>1. CASE InAnswer(p, t)
    <3>1. PICK d \in Clients : \E k \in DOMAIN req[d].got : req[d].got[k] = t /\ p = <<d, k>>
      BY <2>1 DEF InAnswer
    <3>2. PICK k \in DOMAIN req[d].got : req[d].got[k] = t /\ p = <<d, k>>
      BY <3>1
    <3>3. CASE d = c
      <4>1. phi(p) = dest
        BY <1>3, <3>2, <3>3
      <4>2. InHand(dest, t)' \/ AtEnd(dest, t)'
        BY <3>2, <3>3
      <4>3. QED
        BY <4>1, <4>2, PlacesAre
    <3>4. CASE d # c
      <4>1. phi(p) = p
        BY <3>2, <3>4
      <4>2. InAnswer(p, t)'
        BY <3>2, <3>4 DEF InAnswer
      <4>3. QED
        BY <4>1, <4>2, PlacesAre
    <3>5. QED
      BY <3>3, <3>4
  <2>2. CASE InQueue(p, t) \/ InHand(p, t) \/ AtEnd(p, t)
    <3>1. InQueue(p, t)' \/ InHand(p, t)' \/ AtEnd(p, t)'
      BY <1>1, <2>2
    <3>2. QED
      BY <1>2, <2>2, <3>1, PlacesAre
  <2>3. QED
    BY <2>1, <2>2, PlacesAre
<1>6. ASSUME NEW q \in Places(t)' PROVE \E p \in Places(t) : q = phi(p)
  <2>1. CASE InAnswer(q, t)'
    <3>1. PICK d \in Clients : \E k \in DOMAIN req'[d].got : req'[d].got[k] = t /\ q = <<d, k>>
      BY <2>1 DEF InAnswer
    <3>2. d # c
      BY <1>4, <3>1
    <3>3. InAnswer(q, t) /\ phi(q) = q
      BY <3>1, <3>2 DEF InAnswer
    <3>4. QED
      BY <3>3, PlacesAre
  <2>2. CASE q = dest /\ \E k \in DOMAIN req[c].got : req[c].got[k] = t
    <3>1. PICK k \in DOMAIN req[c].got : req[c].got[k] = t
      BY <2>2
    <3>2. InAnswer(<<c, k>>, t)
      BY <3>1 DEF InAnswer
    <3>3. phi(<<c, k>>) = q
      BY <1>3, <2>2, <3>1
    <3>4. QED
      BY <3>2, <3>3, PlacesAre
  <2>3. CASE InQueue(q, t) \/ InHand(q, t) \/ AtEnd(q, t)
    BY <1>2, <2>3, PlacesAre
  <2>4. QED
    BY <1>1, <2>1, <2>2, <2>3, PlacesAre
<1> HIDE DEF phi
<1>7. QED
  BY <1>5, <1>6 DEF OnePlace, PlacedOnce

\* The task in hand goes to one of the ends.
LEMMA HandEnds ==
    ASSUME TypeOK, PlacedOnce, NEW c \in Callers, NEW n,
           UNCHANGED <<pushed, queue, req>>, arg' = [arg EXCEPT ![c] = None],
           \A t \in Tasks : \A p :
              AtEnd(p, t)' <=> AtEnd(p, t) \/ (p = <<"end", n>> /\ arg[c] = t)
    PROVE  PlacedOnce'
<1> SUFFICES ASSUME NEW t \in Tasks PROVE OnePlace(t)'
  BY DEF PlacedOnce
<1> DEFINE phi(p) == IF p[1] = c /\ p[2] = 0 THEN <<"end", n>> ELSE p
<1>1. \A p : InQueue(p, t)' <=> InQueue(p, t)
  BY DEF InQueue
<1>2. \A p : InAnswer(p, t)' <=> InAnswer(p, t)
  BY DEF InAnswer
<1>3. \A p : InHand(p, t)' => InHand(p, t) /\ p[1] # c
  BY NoneIsNoTask DEF InHand, TypeOK
<1>4. \A p : InHand(p, t) => InHand(p, t)' \/ (p = <<c, 0>> /\ arg[c] = t)
  BY DEF InHand, TypeOK
<1>5. c \in Clients
  BY DEF Clients
<1>6. \A p : InAnswer(p, t) => p[2] # 0
  BY GotTasks DEF InAnswer
<1>7. \A p : InQueue(p, t) \/ InAnswer(p, t) \/ AtEnd(p, t) => phi(p) = p
  BY <1>5, <1>6, Kinds
<1>8. ASSUME NEW p \in Places(t) PROVE phi(p) \in Places(t)'
  <2>1. CASE p = <<c, 0>> /\ arg[c] = t
    <3>1. phi(p) = <<"end", n>> /\ AtEnd(<<"end", n>>, t)'
      BY <2>1
    <3>2. QED
      BY <3>1, PlacesAre
  <2>2. CASE InHand(p, t) /\ ~(p = <<c, 0>> /\ arg[c] = t)
    <3>1. InHand(p, t)' /\ p[1] # c
      BY <1>3, <1>4, <2>2
    <3>2. QED
      BY <3>1, PlacesAre
  <2>3. CASE InQueue(p, t) \/ InAnswer(p, t) \/ AtEnd(p, t)
    <3>1. InQueue(p, t)' \/ InAnswer(p, t)' \/ AtEnd(p, t)'
      BY <1>1, <1>2, <2>3
    <3>2. QED
      BY <1>7, <2>3, <3>1, PlacesAre
  <2>4. QED
    BY <2>1, <2>2, <2>3, PlacesAre
<1>9. ASSUME NEW q \in Places(t)' PROVE \E p \in Places(t) : q = phi(p)
  <2>1. CASE InHand(q, t)'
    <3>1. InHand(q, t) /\ phi(q) = q
      BY <1>3, <2>1
    <3>2. QED
      BY <3>1, PlacesAre
  <2>2. CASE q = <<"end", n>> /\ arg[c] = t
    <3>1. InHand(<<c, 0>>, t) /\ phi(<<c, 0>>) = q
      BY <2>2 DEF InHand
    <3>2. QED
      BY <3>1, PlacesAre
  <2>3. CASE InQueue(q, t) \/ InAnswer(q, t) \/ AtEnd(q, t)
    BY <1>7, <2>3, PlacesAre
  <2>4. QED
    BY <1>1, <1>2, <2>1, <2>2, <2>3, PlacesAre
<1> HIDE DEF phi
<1>10. QED
  BY <1>8, <1>9 DEF OnePlace, PlacedOnce

\* A task that is pushed had no place before; at the head it moves the others on.
LEMMA PushPlaces ==
    ASSUME TypeOK, PlacedOnce, NEW u \in Tasks, Schedule(u) \/ Miss(u)
    PROVE  PlacedOnce'
<1> SUFFICES ASSUME NEW t \in Tasks PROVE OnePlace(t)'
  BY DEF PlacedOnce
<1>0. PICK n \in Nat : n = Len(queue) /\ DOMAIN queue = 1..n
  BY LenProperties DEF TypeOK
<1>1. u \notin pushed /\ pushed' = pushed \cup {u}
  BY DEF Schedule, Miss
<1>2. \A p : p \notin Places(u)
  BY <1>1 DEF PlacedOnce, OnePlace
<1>3. /\ \A q : InAnswer(q, t)' <=> InAnswer(q, t)
      /\ \A q : InHand(q, t)' <=> InHand(q, t)
      /\ \A q : AtEnd(q, t)' <=> AtEnd(q, t)
  BY DEF Schedule, Miss, InAnswer, InHand, AtEnd
<1>4. PICK at \in {1, n + 1}, o \in {0, 1} :
         /\ DOMAIN queue' = 1..(n + 1)
         /\ queue'[at] = u
         /\ at = 1 <=> (o = 1 \/ n = 0)
         /\ at = n + 1 <=> (o = 0 \/ n = 0)
         /\ \A k \in 1..n : queue'[k + o] = queue[k]
  <2>1. CASE Schedule(u)
    <3>1. /\ DOMAIN queue' = 1..(n + 1)
          /\ queue'[n + 1] = u
          /\ \A k \in 1..n : queue'[k] = queue[k]
      <4>1. queue \in Seq(Tasks) /\ queue' = Append(queue, u)
        BY <2>1 DEF Schedule, TypeOK
      <4>2. QED
        BY <1>0, <4>1, AppendProperties, LenProperties
    <3>2. \A k \in 1..n : k + 0 = k
      OBVIOUS
    <3>3. QED
      BY <3>1, <3>2
  <2>2. CASE Miss(u)
    <3>1. /\ DOMAIN queue' = 1..(n + 1)
          /\ queue'[1] = u
          /\ \A k \in 1..n : queue'[k + 1] = queue[k]
      <4>1. queue \in Seq(Tasks) /\ queue' = <<u>> \o queue
        BY <2>2 DEF Miss, TypeOK
      <4>2. /\ <<u>> \in Seq(Tasks) /\ Len(<<u>>) = 1 /\ <<u>>[1] = u
        OBVIOUS
      <4>3. /\ queue' \in Seq(Tasks) /\ Len(queue') = 1 + n
            /\ \A k \in 1..(1 + n) : queue'[k] = IF k <= 1 THEN u ELSE queue[k - 1]
        BY <1>0, <4>1, <4>2, ConcatProperties
      <4>4. \A k \in 1..n : k + 1 \in 1..(1 + n) /\ ~(k + 1 <= 1) /\ (k + 1) - 1 = k
        OBVIOUS
      <4>5. 1 \in 1..(1 + n)
        OBVIOUS
      <4>6. QED
        BY <4>3, <4>4, <4>5, LenProperties
    <3>2. QED
      BY <3>1
  <2>3. QED
    BY <2>1, <2>2
<1>5. \A k \in 1..(n + 1) : k = at \/ k - o \in 1..n
  BY <1>4
<1>6. CASE t # u
  <2> DEFINE phi(p) == IF p[1] = "queue" THEN <<"queue", p[2] + o>> ELSE p
  <2>1. ASSUME NEW p \in Places(t) PROVE phi(p) \in Places(t)'
    <3>1. CASE InQueue(p, t)
      <4>1. PICK k \in DOMAIN queue : queue[k] = t /\ p = <<"queue", k>>
        BY <3>1 DEF InQueue
      <4>2. k + o \in DOMAIN queue' /\ queue'[k + o] = t
        BY <1>0, <1>4, <4>1
      <4>3. InQueue(phi(p), t)'
        BY <4>1, <4>2 DEF InQueue
      <4>4. QED
        BY <4>3, PlacesAre
    <3>2. CASE InAnswer(p, t) \/ InHand(p, t) \/ AtEnd(p, t)
      BY <1>3, <3>2, Kinds, PlacesAre
    <3>3. QED
      BY <3>1, <3>2, PlacesAre
  <2>2. ASSUME NEW q \in Places(t)' PROVE \E p \in Places(t) : q = phi(p)
    <3>1. CASE InQueue(q, t)'
      <4>1. PICK k \in DOMAIN queue' : queue'[k] = t /\ q = <<"queue", k>>
        BY <3>1 DEF InQueue
      <4>2. k - o \in 1..n /\ (k - o) + o = k
        BY <1>4, <1>5, <1>6, <4>1
      <4>3. queue[k - o] = t
        BY <1>4, <4>1, <4>2
      <4>4. InQueue(<<"queue", k - o>>, t) /\ phi(<<"queue", k - o>>) = q
        BY <1>0, <4>1, <4>2, <4>3 DEF InQueue
      <4>5. QED
        BY <4>4, PlacesAre
    <3>2. CASE InAnswer(q, t) \/ InHand(q, t) \/ AtEnd(q, t)
      <4>1. phi(q) = q
        BY <3>2, Kinds
      <4>2. QED
        BY <3>2, <4>1, PlacesAre
    <3>3. QED
      BY <1>3, <3>1, <3>2, PlacesAre
  <2> HIDE DEF phi
  <2>3. t \in pushed' <=> t \in pushed
    BY <1>1, <1>6
  <2>4. QED
    BY <2>1, <2>2, <2>3 DEF OnePlace, PlacedOnce
<1>7. CASE t = u
  <2>1. \A q : ~InQueue(q, t) /\ ~InAnswer(q, t) /\ ~InHand(q, t) /\ ~AtEnd(q, t)
    BY <1>2, <1>7, PlacesAre
  <2>2. ASSUME NEW k \in DOMAIN queue', queue'[k] = t PROVE k = at
    <3>1. SUFFICES ASSUME k - o \in 1..n PROVE FALSE
      BY <1>4, <1>5
    <3>2. (k - o) + o = k
      BY <1>4
    <3>3. queue[k - o] = t
      BY <1>4, <2>2, <3>1, <3>2
    <3>4. InQueue(<<"queue", k - o>>, t)
      BY <1>0, <3>1, <3>3 DEF InQueue
    <3>5. QED
      BY <2>1, <3>4
  <2>3. at \in DOMAIN queue' /\ queue'[at] = t
    BY <1>4, <1>7
  <2>4. \A q : InQueue(q, t)' <=> q = <<"queue", at>>
    BY <2>2, <2>3 DEF InQueue
  <2>5. \A q : q \in Places(t)' <=> q = <<"queue", at>>
    BY <1>3, <2>1, <2>4, PlacesAre
  <2>6. t \in pushed'
    BY <1>1, <1>7
  <2>7. QED
    <3>1. Places(t)' = {<<"queue", at>>}
      BY <2>5, Zenon
    <3>2. QED
      BY <2>6, <3>1 DEF OnePlace
<1>8. QED
  BY <1>6, <1>7

LEMMA PlaceStep == TypeOK /\ ReqsOK /\ PlacedOnce /\ [Next]_vars => PlacedOnce'
<1> SUFFICES ASSUME TypeOK, ReqsOK, PlacedOnce, [Next]_vars PROVE PlacedOnce'
  OBVIOUS
<1>1. ASSUME NEW c \in Callers, Answer(c) PROVE PlacedOnce'
  <2>1. c \in Clients /\ arg[c] = None /\ Len(req[c].got) <= 1
    BY <1>1 DEF Answer, Clients, ReqsOK, CallerOK
  <2>2. /\ DOMAIN req[c].got = 1..Len(req[c].got) /\ Len(req[c].got) \in Nat
        /\ req[c].got # <<>> <=> 1 \in DOMAIN req[c].got
    BY <2>1, GotTasks
  <2>3. \A k \in DOMAIN req[c].got : k = 1
    BY <2>1, <2>2
  <2>4. req'[c].got = <<>> /\ \A d \in Clients : d # c => req'[d] = req[d]
    BY <1>1, <2>1 DEF Answer, NoReq, TypeOK
  <2>5. ASSUME NEW t \in Tasks, NEW p
        PROVE  InHand(p, t)' <=> \/ InHand(p, t)
                                 \/ p = <<c, 0>> /\ \E k \in DOMAIN req[c].got : req[c].got[k] = t
    <3>1. arg'[c] = IF req[c].got = <<>> THEN None ELSE req[c].got[1]
      BY <1>1 DEF Answer, TypeOK
    <3>2. \A d \in Callers : d # c => arg'[d] = arg[d]
      BY <1>1 DEF Answer, TypeOK
    <3>3. arg'[c] = t <=> \E k \in DOMAIN req[c].got : req[c].got[k] = t
      BY <2>2, <2>3, <3>1, NoneIsNoTask
    <3>4. arg[c] # t
      BY <2>1, NoneIsNoTask
    <3>5. QED
      BY <3>2, <3>3, <3>4 DEF InHand
  <2>6. \A t, p : AtEnd(p, t)' <=> AtEnd(p, t)
    BY <1>1 DEF Answer, AtEnd
  <2>7. pushed' = pushed /\ queue' = queue
    BY <1>1 DEF Answer
  <2>8. \A t \in Tasks : \A p :
           InHand(p, t)' \/ AtEnd(p, t)' <=>
              \/ InHand(p, t) \/ AtEnd(p, t)
              \/ p = <<c, 0>> /\ \E k \in DOMAIN req[c].got : req[c].got[k] = t
    BY <2>5, <2>6
  <2>9. AllGoTo(c, <<c, 0>>)
    BY <2>8 DEF AllGoTo
  <2>10. QED
    BY <2>1, <2>4, <2>7, <2>9, RequestEnds
<1>2. ASSUME NEW x \in Crawlers, AnswerMany(x) PROVE PlacedOnce'
  <2>1. x \in Clients /\ req'[x].got = <<>> /\ \A d \in Clients : d # x => req'[d] = req[d]
    BY <1>2 DEF AnswerMany, NoReq, TypeOK, Clients
  <2>2. \A t, p : InHand(p, t)' <=> InHand(p, t)
    BY <1>2 DEF AnswerMany, InHand
  <2>3. \A t, p : AtEnd(p, t)' <=> \/ AtEnd(p, t)
                                   \/ /\ p = <<"end", 2>>
                                      /\ \E k \in DOMAIN req[x].got : req[x].got[k] = t
    BY <1>2 DEF AnswerMany, AtEnd
  <2>4. pushed' = pushed /\ queue' = queue
    BY <1>2 DEF AnswerMany
  <2>5. AllGoTo(x, <<"end", 2>>)
    BY <2>2, <2>3 DEF AllGoTo
  <2>6. QED
    BY <2>1, <2>4, <2>5, RequestEnds
<1>3. ASSUME NEW c \in Clients, NoAnswer(c) PROVE PlacedOnce'
  <2>1. req'[c].got = <<>> /\ \A d \in Clients : d # c => req'[d] = req[d]
    BY <1>3 DEF NoAnswer, NoReq, TypeOK
  <2>2. \A t, p : InHand(p, t)' <=> InHand(p, t)
    BY <1>3 DEF NoAnswer, InHand
  <2>3. \A t, p : AtEnd(p, t)' <=> \/ AtEnd(p, t)
                                   \/ /\ p = <<"end", 3>>
                                      /\ \E k \in DOMAIN req[c].got : req[c].got[k] = t
    BY <1>3 DEF NoAnswer, AtEnd
  <2>4. pushed' = pushed /\ queue' = queue
    BY <1>3 DEF NoAnswer
  <2>5. AllGoTo(c, <<"end", 3>>)
    BY <2>2, <2>3 DEF AllGoTo
  <2>6. QED
    BY <2>1, <2>4, <2>5, RequestEnds
<1>4. ASSUME NEW c \in Callers, Push(c) PROVE PlacedOnce'
  <2>1. \A t, p : AtEnd(p, t)' <=> AtEnd(p, t) \/ (p = <<"end", 1>> /\ arg[c] = t)
    BY <1>4 DEF Push, AtEnd
  <2>2. UNCHANGED <<pushed, queue, req>> /\ arg' = [arg EXCEPT ![c] = None]
    BY <1>4 DEF Push
  <2>3. QED
    BY <2>1, <2>2, HandEnds
<1>5. ASSUME NEW c \in Callers, Dies(c) PROVE PlacedOnce'
  <2>1. \A t \in Tasks : \A p : AtEnd(p, t)' <=> AtEnd(p, t) \/ (p = <<"end", 3>> /\ arg[c] = t)
    BY <1>5, NoneIsNoTask DEF Dies, AtEnd
  <2>2. UNCHANGED <<pushed, queue, req>> /\ arg' = [arg EXCEPT ![c] = None]
    BY <1>5 DEF Dies
  <2>3. QED
    BY <2>1, <2>2, HandEnds
<1>6. ASSUME NEW x \in Clients, (x \in Crawlers /\ AskMany(x)) \/ (x \in Callers /\ Fetch(x))
      PROVE  PlacedOnce'
  <2>1. req[x].got = <<>>
    BY <1>6 DEF AskMany, Fetch, ReqsOK, CallerOK
  <2>2. req'[x].got = <<>> /\ \A d \in Clients : d # x => req'[d] = req[d]
    BY <1>6 DEF AskMany, Fetch, Ask, NoReq, TypeOK
  <2>3. UNCHANGED <<pushed, queue, arg, comb, taken, lost>>
    BY <1>6 DEF AskMany, Fetch
  <2>4. QED
    BY <2>1, <2>2, <2>3, NoneMoves
<1>7. ASSUME NEW c \in Clients, TimesOut(c) \/ GhostGone(c) PROVE PlacedOnce'
  <2>1. \A d \in Clients : req'[d].got = req[d].got
    <3>1. CASE TimesOut(c)
      BY <3>1 DEF TimesOut, TypeOK
    <3>2. CASE GhostGone(c)
      BY <3>2 DEF GhostGone
    <3>3. QED
      BY <1>7, <3>1, <3>2
  <2>2. UNCHANGED <<pushed, queue, arg, comb, taken, lost>>
    BY <1>7 DEF TimesOut, GhostGone
  <2>3. QED
    BY <2>1, <2>2, NoneMoves
<1>8. ASSUME NEW c \in Callers,
             \/ TakeProxy(c) \/ AgentEnds(c) \/ AgentDies(c) \/ Distribute(c)
             \/ Launch(c) \/ NextThread(c)
      PROVE  PlacedOnce'
  <2>1. UNCHANGED <<pushed, queue, req, arg, comb, taken, lost>>
    BY <1>8 DEF TakeProxy, AgentEnds, AgentDies, Distribute, Launch, NextThread, Goto
  <2>2. QED
    BY <2>1, NoneMoves
<1>9. ASSUME NEW f \in Fillers, Fill(f) \/ FillerDies(f) PROVE PlacedOnce'
  <2>1. UNCHANGED taskVars
    BY <1>9 DEF Fill, Llen, Buy, BuyNothing, BuyUnread, Rpush, FillerDies
  <2>2. QED
    BY <2>1, NoneMoves DEF taskVars
<1>10. CASE UNCHANGED vars
  BY <1>10, NoneMoves DEF vars, taskVars
<1>11. CASE Next
  <2>1. \A c : c \in Callers \/ c \in Crawlers => c \in Clients
    BY DEF Clients
  <2>2. ASSUME NEW c \in Clients, Serve(c) \/ GhostPop(c) \/ GhostGone(c) \/ NoAnswer(c)
        PROVE  PlacedOnce'
    BY <1>3, <1>7, <2>2, BlpopPlaces, GhostPopPlaces DEF Serve
  <2>3. ASSUME NEW x \in Crawlers, AskMany(x) \/ AnswerMany(x) PROVE PlacedOnce'
    <3>1. x \in Clients
      BY <2>1
    <3>2. QED
      BY <1>2, <1>6, <2>3, <3>1
  <2>4. ASSUME NEW c \in Callers,
               Work(c) \/ AgentDies(c) \/ Dies(c) \/ Launch(c) \/ NextThread(c)
        PROVE  PlacedOnce'
    BY <1>1, <1>4, <1>5, <1>6, <1>8, <2>1, <2>4 DEF Work
  <2>5. QED
    BY <1>9, <1>11, <2>2, <2>3, <2>4, PushPlaces DEF Next
<1>12. QED
  BY <1>10, <1>11
-----------------------------------------------------------------------------
(* The theorems. *)

LEMMA CInvParts == CInv <=> TypeOK /\ ReqsOK /\ BootsOK /\ PlacedOnce /\ PoolOK
  BY DEF CInv, ReqsOK, BootsOK, PlacedOnce, EverySecondScript

LEMMA CInvInit == Init => CInv
<1> SUFFICES ASSUME Init PROVE CInv
  OBVIOUS
<1> USE MaxNumIsPositive DEF Init
<1>1. /\ NoReq \in [step : {"none", "blpop", "reply"}, got : Seq(Tasks), num : 1..MaxNum]
      /\ NoBoot \in [threads : Seq(Nat), i : Nat, resumed : SUBSET Nat]
  BY EmptySeq DEF NoReq, NoBoot
<1>2. TypeOK
  BY <1>1, EmptySeq DEF TypeOK
<1>3. ReqsOK
  <2>1. Len(<<>>) = 0
    OBVIOUS
  <2>2. QED
    BY <2>1 DEF ReqsOK, CallerOK, NoReq, Clients
<1>4. BootsOK
  <2>1. {2 * k - 1 : k \in 1..0} = {}
    OBVIOUS
  <2>2. QED
    BY <2>1 DEF BootsOK, BootOK, NoBoot
<1>5. PlacedOnce
  <2>1. ASSUME NEW t \in Tasks, NEW p PROVE p \notin Places(t)
    <3>1. ~InQueue(p, t) /\ ~InAnswer(p, t) /\ ~AtEnd(p, t)
      BY DEF InQueue, InAnswer, AtEnd, NoReq
    <3>2. ~InHand(p, t)
      BY NoneIsNoTask DEF InHand
    <3>3. QED
      BY <3>1, <3>2, PlacesAre
  <2>2. QED
    BY <2>1 DEF PlacedOnce, OnePlace
<1>6. PoolOK
  <2>1. {f \in Fillers : filler[f] \in {"buy", "push"}} = {}
    OBVIOUS
  <2>2. Cardinality({}) = 0 /\ Cardinality(Fillers) \in Nat
    BY FillersAreFinite, FS_EmptySet, FS_CardinalityType
  <2>3. pool = 0
    OBVIOUS
  <2> HIDE DEF Init
  <2>4. QED
    BY <2>1, <2>2, <2>3 DEF PoolOK, PoolSize
<1>7. QED
  BY <1>2, <1>3, <1>4, <1>5, <1>6, CInvParts

LEMMA CInvStep == CInv /\ [Next]_vars => CInv'
<1> SUFFICES ASSUME CInv, [Next]_vars PROVE CInv'
  OBVIOUS
<1>1. TypeOK /\ ReqsOK /\ BootsOK /\ PlacedOnce /\ PoolOK
  BY CInvParts
<1>2. TypeOK' /\ ReqsOK' /\ BootsOK' /\ PlacedOnce' /\ PoolOK'
  BY <1>1, TypeStep, ReqsStep, BootStep, PlaceStep, PoolStep
<1>3. QED
  BY <1>2 DEF CInv, ReqsOK, BootsOK, PlacedOnce, EverySecondScript

\* The types, what a maincall.lua has in hand, the one place of a task, the list of
\* main.lua and the proxies are invariant together (20.lua, maincall.lua, main.lua,
\* proxyqueues.lua).
THEOREM TasksInductive == Spec => []CInv
  BY CInvInit, CInvStep, PTL DEF Spec

\* A task pushed is in exactly one place, for any number of processes and requests, and
\* whatever fails (20.lua:42-61, maincall.lua:41-70).
THEOREM TaskInOnePlace == Spec => []EachTaskOnce
<1>1. CInv => EachTaskOnce
  <2> SUFFICES ASSUME CInv, NEW t \in pushed PROVE Cardinality(Places(t)) = 1
    BY DEF EachTaskOnce
  <2>1. t \in Tasks /\ OnePlace(t)
    BY DEF CInv, TypeOK
  <2>2. PICK p : Places(t) = {p}
    BY <2>1 DEF OnePlace
  <2>3. QED
    BY <2>2, FS_Singleton
<1>2. QED
  BY <1>1, TasksInductive, PTL

\* The pool overshoots by one proxy for each process that fills it, but one
\* (proxyqueues.lua:41-66).
THEOREM PoolOvershoot == Spec => []PoolBounded
<1>1. CInv => PoolBounded
  <2> SUFFICES ASSUME CInv PROVE pool <= PoolSize + Cardinality(Fillers) - 1
    BY DEF PoolBounded
  <2>1. PoolOK /\ TypeOK
    BY DEF CInv
  <2>2. QED
    BY <2>1, BusyCounted DEF PoolOK, Busy, TypeOK, PoolSize
<1>2. QED
  BY <1>1, TasksInductive, PTL

\* main.lua starts every second of its scripts, however many it has (main.lua:67-83).
THEOREM SkipsEverySecond == Spec => []EverySecondScript
<1>1. CInv => EverySecondScript
  BY DEF CInv
<1>2. QED
  BY <1>1, TasksInductive, PTL
=============================================================================
