----------------------------- MODULE CrawlTasks -----------------------------
(***************************************************************************)
(* The way of a crawl task, redis list loc:queues.  agent/10.lua appends   *)
(* the routes that are due; prigw.lua and rt/pridoifl.lua put a search     *)
(* that found no fares in front of them.  agent/20.lua (GET                *)
(* task-queues/<num>) takes up to num tasks with BLPOPs that give up after *)
(* a second.  The clients of 20.lua are the http/maincall.lua processes,   *)
(* which take one task, run elongsrvagent.lua on it, append it to          *)
(* price:comb and ask for the next, and other crawlers.  http/main.lua     *)
(* runs maincall.lua, once for each coroutine it comes to.  The agent      *)
(* takes a proxy out of proxy:work and never brings it back;               *)
(* http/proxyqueues.lua refills the list.                                  *)
(*                                                                         *)
(* Not modelled: the fares the agent stores (HDEL and HSET of elong:...).  *)
(***************************************************************************)
EXTENDS Naturals, FiniteSets, Sequences, SequencesExt

CONSTANTS Callers,   \* main.lua processes, each with the maincall.lua it runs
          Crawlers,  \* other clients of 20.lua
          MaxNum,    \* the number of tasks they ask for
          Tasks,     \* tasks, each pushed once: 10.lua's are "bjs/lax/20130823/"
          Missed,    \* those of prigw.lua and pridoifl.lua: "1/bjs/lax/20130823/"
          Fillers,   \* proxyqueues.lua processes, those that do not run included
          Faults,    \* may a process die, a request fail, redis be slow?
          None

ASSUME MissedAreTasks == Missed \subseteq Tasks
ASSUME MaxNumIsPositive == MaxNum \in Nat \ {0}
ASSUME FaultsIsBoolean == Faults \in BOOLEAN
ASSUME ClientsAreDistinct == Callers \cap Crawlers = {}
ASSUME ClientsAreNames == {"queue", "end"} \cap (Callers \cup Crawlers) = {}
ASSUME FillersAreFinite == IsFiniteSet(Fillers)
ASSUME NoneIsNoTask == None \notin Tasks

VARIABLES queue,   \* loc:queues
          pushed,  \* history: the tasks ever put there
          req,     \* the request of 20.lua that serves a client
          ghosts,  \* clients with an abandoned BLPOP that redis still knows of
          boot,    \* what a main.lua has left to run
          main,    \* what its maincall.lua does next
          arg,     \* its task
          comb,    \* tasks appended to price:comb
          taken,   \* tasks the other crawlers have
          lost,    \* history: tasks taken out of redis that reached nobody
          pool,    \* length of proxy:work
          filler   \* what a proxyqueues.lua does next

taskVars == <<queue, pushed, req, ghosts, boot, main, arg, comb, taken, lost>>
vars == <<taskVars, pool, filler>>

Clients == Callers \cup Crawlers
NoBoot == [threads |-> <<>>, i |-> 0, resumed |-> {}]
NoReq == [step |-> "none", got |-> <<>>, num |-> 1]

TypeOK == /\ queue \in Seq(Tasks)
          /\ req \in [Clients -> [step : {"none", "blpop", "reply"}, got : Seq(Tasks),
                                  num : 1..MaxNum]]
          /\ ghosts \subseteq Clients
          /\ boot \in [Callers -> [threads : Seq(Nat), i : Nat, resumed : SUBSET Nat]]
          /\ main \in [Callers -> {"fetch", "wait", "proxy", "crawl", "push", "dist", "dead",
                                  "off"}]
          /\ arg \in [Callers -> Tasks \cup {None}]
          /\ pushed \cup comb \cup taken \cup lost \subseteq Tasks
          /\ pool \in Nat
          /\ filler \in [Fillers -> {"llen", "buy", "push", "off"}]

Init == /\ queue = <<>> /\ pushed = {} /\ comb = {} /\ taken = {} /\ lost = {}
        /\ req = [c \in Clients |-> NoReq]
        /\ ghosts = {}
        /\ boot = [c \in Callers |-> NoBoot]
        /\ main = [c \in Callers |-> "off"]
        /\ arg = [c \in Callers |-> None]
        /\ pool = 0
        /\ filler \in [Fillers -> {"llen", "off"}]
-----------------------------------------------------------------------------
(* loc:queues *)

\* 10.lua: RPUSH of a route that is due.
Schedule(t) == /\ t \in Tasks \ (Missed \cup pushed)
               /\ queue' = Append(queue, t)
               /\ pushed' = pushed \cup {t}
               /\ UNCHANGED <<req, ghosts, boot, main, arg, comb, taken, lost, pool, filler>>

\* prigw.lua, pridoifl.lua: LPUSH of a search without fares.
Miss(t) == /\ t \in Missed \ pushed
           /\ queue' = <<t>> \o queue
           /\ pushed' = pushed \cup {t}
           /\ UNCHANGED <<req, ghosts, boot, main, arg, comb, taken, lost, pool, filler>>

Ask(c, n) == req' = [req EXCEPT ![c] = [NoReq EXCEPT !.step = "blpop", !.num = n]]

Fetch(c) == /\ main[c] = "fetch"
            /\ Ask(c, 1)
            /\ main' = [main EXCEPT ![c] = "wait"]
            /\ UNCHANGED <<queue, pushed, ghosts, boot, arg, comb, taken, lost, pool, filler>>

AskMany(x) == /\ req[x].step = "none"
              /\ Ask(x, MaxNum)
              /\ UNCHANGED <<queue, pushed, ghosts, boot, main, arg, comb, taken, lost, pool, filler>>

\* Mutant: BLPOP leaves the task in the list.
BlpopPeeks(c) == LET got == Append(req[c].got, Head(queue)) IN
    /\ req[c].step = "blpop"
    /\ queue # <<>>
    /\ req' = [req EXCEPT ![c].got = got,
                          ![c].step = IF Len(got) = req[c].num THEN "reply" ELSE "blpop"]
    /\ UNCHANGED <<queue, pushed, ghosts, boot, main, arg, comb, taken, lost, pool, filler>>

\* A BLPOP of the loop is served.
Blpop(c) == LET got == Append(req[c].got, Head(queue)) IN
    /\ req[c].step = "blpop"
    /\ queue # <<>>
    /\ queue' = Tail(queue)
    /\ req' = [req EXCEPT ![c].got = got,
                          ![c].step = IF Len(got) = req[c].num THEN "reply" ELSE "blpop"]
    /\ UNCHANGED <<pushed, ghosts, boot, main, arg, comb, taken, lost, pool, filler>>

\* The socket times out after a second without a task: the loop ends.  Redis
\* learns of it when it reads the end of the connection.
TimesOut(c) == /\ req[c].step = "blpop"
               /\ queue = <<>> \/ Faults
               /\ req' = [req EXCEPT ![c].step = "reply"]
               /\ ghosts' = ghosts \cup {c}
               /\ UNCHANGED <<queue, pushed, boot, main, arg, comb, taken, lost, pool, filler>>

\* Until then a task pushed may be sent to nobody.
GhostPop(c) == /\ c \in ghosts
               /\ queue # <<>>
               /\ lost' = lost \cup {Head(queue)}
               /\ queue' = Tail(queue)
               /\ ghosts' = ghosts \ {c}
               /\ UNCHANGED <<pushed, req, boot, main, arg, comb, taken, pool, filler>>

GhostGone(c) == /\ c \in ghosts
                /\ ghosts' = ghosts \ {c}
                /\ UNCHANGED <<queue, pushed, req, boot, main, arg, comb, taken, lost, pool, filler>>
-----------------------------------------------------------------------------
(* maincall.lua *)

\* Where an answer with status 200 leads.  error002, the answer without a task, has
\* that status too, and no taskQueues: indexing it raises, and the script is gone.
AfterAnswer(c) == IF req[c].got = <<>> THEN "dead" ELSE "proxy"

Answer(c) == /\ req[c].step = "reply"
             /\ main[c] = "wait"
             /\ main' = [main EXCEPT ![c] = AfterAnswer(c)]
             /\ arg' = [arg EXCEPT ![c] = IF req[c].got = <<>> THEN None ELSE req[c].got[1]]
             /\ req' = [req EXCEPT ![c] = NoReq]
             /\ UNCHANGED <<queue, pushed, ghosts, boot, comb, taken, lost, pool, filler>>

\* The other crawlers get all there is.
AnswerMany(x) == /\ req[x].step = "reply"
                 /\ taken' = taken \cup {req[x].got[k] : k \in DOMAIN req[x].got}
                 /\ req' = [req EXCEPT ![x] = NoReq]
                 /\ UNCHANGED <<queue, pushed, ghosts, boot, main, arg, comb, lost, pool, filler>>

Gone(c) == main[c] \in {"dead", "off"}

\* No status 200 reaches the client, or there is no client any more.  A
\* maincall.lua that lives sleeps ten seconds and asks again.
NoAnswer(c) == /\ req[c].step # "none"
               /\ Faults \/ (c \in Callers /\ Gone(c))
               /\ lost' = lost \cup {req[c].got[k] : k \in DOMAIN req[c].got}
               /\ req' = [req EXCEPT ![c] = NoReq]
               /\ ghosts' = IF req[c].step = "blpop" THEN ghosts \cup {c} ELSE ghosts
               /\ main' = [d \in Callers |-> IF d = c /\ main[d] = "wait" THEN "fetch"
                                             ELSE main[d]]
               /\ UNCHANGED <<queue, pushed, boot, arg, comb, taken, pool, filler>>

Goto(c, s) == /\ main' = [main EXCEPT ![c] = s]
              /\ UNCHANGED <<queue, pushed, req, ghosts, boot, arg, taken, lost>>

\* The agent takes a proxy, and waits for one for ever.
TakeProxy(c) == /\ main[c] = "proxy"
                /\ arg[c] \notin Missed
                /\ pool > 0
                /\ pool' = pool - 1
                /\ Goto(c, "crawl")
                /\ UNCHANGED <<comb, filler>>

\* Mutant: a task whose cities are in no table keeps the agent waiting.
AgentEndsKnown(c) == /\ main[c] = "crawl"
                     /\ Goto(c, "push")
                     /\ UNCHANGED <<comb, pool, filler>>

\* The agent is done, whatever it got from the site; and it always dies of a task
\* that begins with "1/", whose cities are in no table.
AgentEnds(c) == /\ main[c] = "crawl" \/ (main[c] = "proxy" /\ arg[c] \in Missed)
                /\ Goto(c, "push")
                /\ UNCHANGED <<comb, pool, filler>>

\* It dies before it has a proxy: of a data base or a redis that is out of reach.
AgentDies(c) == /\ Faults
                /\ main[c] = "proxy"
                /\ Goto(c, "push")
                /\ UNCHANGED <<comb, pool, filler>>

\* RPUSH price:comb
Push(c) == /\ main[c] = "push"
           /\ comb' = comb \cup {arg[c]}
           /\ main' = [main EXCEPT ![c] = "dist"]
           /\ arg' = [arg EXCEPT ![c] = None]
           /\ UNCHANGED <<queue, pushed, req, ghosts, boot, taken, lost, pool, filler>>

\* The distribution is asked for, and fails or not.
Distribute(c) == /\ main[c] = "dist"
                 /\ Goto(c, "fetch")
                 /\ UNCHANGED <<comb, pool, filler>>

\* The process dies, its task with it.
Dies(c) == /\ Faults
           /\ ~Gone(c)
           /\ lost' = lost \cup ({arg[c]} \ {None})
           /\ arg' = [arg EXCEPT ![c] = None]
           /\ main' = [main EXCEPT ![c] = "dead"]
           /\ UNCHANGED <<queue, pushed, req, ghosts, boot, comb, taken, pool, filler>>

-----------------------------------------------------------------------------
(* main.lua: a coroutine runs one maincall.lua, and returns when that ends.  *)

Runs(c, ts, i) == [threads |-> ts, i |-> i, resumed |-> boot[c].resumed \cup {ts[i]}]

\* Started by hand: LLEN proxy:work, half as many coroutines, rounded up, and the first
\* is resumed.
Launch(c) == LET n == (pool + 1) \div 2 IN
    /\ boot[c] = NoBoot
    /\ req[c] = NoReq
    /\ n > 0
    /\ boot' = [boot EXCEPT ![c] = Runs(c, [k \in 1..n |-> k], 1)]
    /\ main' = [main EXCEPT ![c] = "fetch"]
    /\ UNCHANGED <<queue, pushed, req, ghosts, arg, comb, taken, lost, pool, filler>>

\* Mutant: the coroutine that is over stays in the list.
NextKept(c) == LET ts == boot[c].threads
                   i  == boot[c].i + 1 IN
    /\ main[c] = "dead"
    /\ req[c] = NoReq
    /\ IF i <= Len(ts)
       THEN /\ boot' = [boot EXCEPT ![c] = Runs(c, ts, i)]
            /\ main' = [main EXCEPT ![c] = "fetch"]
       ELSE /\ boot' = [boot EXCEPT ![c] = NoBoot]
            /\ main' = [main EXCEPT ![c] = "off"]
    /\ UNCHANGED <<queue, pushed, req, ghosts, arg, comb, taken, lost, pool, filler>>

\* The coroutine has returned nothing: it is removed from the list, and the next index
\* is looked at.  With no coroutine there, resume raises, or the loop is over.
NextThread(c) == LET ts == RemoveAt(boot[c].threads, boot[c].i)
                     i  == boot[c].i + 1 IN
    /\ main[c] = "dead"
    /\ req[c] = NoReq
    /\ IF i <= Len(ts)
       THEN /\ boot' = [boot EXCEPT ![c] = Runs(c, ts, i)]
            /\ main' = [main EXCEPT ![c] = "fetch"]
       ELSE /\ boot' = [boot EXCEPT ![c] = NoBoot]
            /\ main' = [main EXCEPT ![c] = "off"]
    /\ UNCHANGED <<queue, pushed, req, ghosts, arg, comb, taken, lost, pool, filler>>
-----------------------------------------------------------------------------
(* proxyqueues.lua *)

PoolSize == 3

\* Mutant: the comparison includes the size.
LlenOrEqual(f) == /\ filler[f] = "llen"
                  /\ pool <= PoolSize
                  /\ filler' = [filler EXCEPT ![f] = "buy"]
                  /\ UNCHANGED <<taskVars, pool>>

\* LLEN proxy:work; a full pool is looked at again after a sleep.
Llen(f) == /\ filler[f] = "llen"
           /\ pool < PoolSize
           /\ filler' = [filler EXCEPT ![f] = "buy"]
           /\ UNCHANGED <<taskVars, pool>>

\* The proxy sold works.
Buy(f) == /\ filler[f] = "buy"
          /\ filler' = [filler EXCEPT ![f] = "push"]
          /\ UNCHANGED <<taskVars, pool>>

\* It does not, or the seller answers with another status than 200: back to LLEN.
BuyNothing(f) == /\ filler[f] = "buy"
                 /\ filler' = [filler EXCEPT ![f] = "llen"]
                 /\ UNCHANGED <<taskVars, pool>>

\* A status of 200 without a colon, as when nothing was sold: string.find gives nil,
\* the next line raises, and nothing starts the script again.
BuyUnread(f) == /\ filler[f] = "buy"
                /\ filler' = [filler EXCEPT ![f] = "off"]
                /\ UNCHANGED <<taskVars, pool>>

\* RPUSH proxy:work
Rpush(f) == /\ filler[f] = "push"
            /\ pool' = pool + 1
            /\ filler' = [filler EXCEPT ![f] = "llen"]
            /\ UNCHANGED taskVars

\* The process dies, of an error of redis or otherwise; its RPUSH may have been done.
FillerDies(f) == /\ Faults
                 /\ filler[f] # "off"
                 /\ filler' = [filler EXCEPT ![f] = "off"]
                 /\ pool' = pool \/ (filler[f] = "push" /\ pool' = pool + 1)
                 /\ UNCHANGED taskVars
-----------------------------------------------------------------------------
Serve(c) == Blpop(c) \/ TimesOut(c)
Work(c) == Fetch(c) \/ Answer(c) \/ TakeProxy(c) \/ AgentEnds(c) \/ Push(c) \/ Distribute(c)
Fill(f) == Llen(f) \/ Buy(f) \/ BuyNothing(f) \/ BuyUnread(f) \/ Rpush(f)

Next == \/ \E t \in Tasks : Schedule(t) \/ Miss(t)
        \/ \E c \in Clients : Serve(c) \/ GhostPop(c) \/ GhostGone(c) \/ NoAnswer(c)
        \/ \E x \in Crawlers : AskMany(x) \/ AnswerMany(x)
        \/ \E c \in Callers : Work(c) \/ AgentDies(c) \/ Dies(c) \/ Launch(c) \/ NextThread(c)
        \/ \E f \in Fillers : Fill(f) \/ FillerDies(f)

Spec == Init /\ [][Next]_vars

\* Processes go on while they live, the requests of a maincall.lua do not fail for ever,
\* and to a script that buys again and again a proxy that works is sold in the end.
ClientFairness ==
    /\ \A c \in Clients : WF_vars(Serve(c))
    /\ \A x \in Crawlers : WF_vars(AnswerMany(x))
    /\ \A c \in Callers :
          WF_vars(Work(c)) /\ SF_vars(Blpop(c)) /\ SF_vars(Answer(c)) /\ SF_vars(TakeProxy(c))
FillerFairness(f) == WF_vars(Fill(f)) /\ SF_vars(Buy(f))

FairSpec == Spec /\ ClientFairness /\ \A f \in Fillers : FillerFairness(f)
-----------------------------------------------------------------------------
(* Properties. *)

\* A task pushed is always in exactly one place: in the list, in one answer, with one
\* process, done with, or lost on the way.  None is worked on twice, and one popped
\* before a time-out of the same request is not dropped (20.lua:42-61,
\* maincall.lua:41-70).
Places(t) == {<<"queue", k>> : k \in {n \in DOMAIN queue : queue[n] = t}}
             \cup (UNION {{<<c, k>> : k \in {n \in DOMAIN req[c].got : req[c].got[n] = t}} :
                             c \in Clients})
             \cup {<<c, 0>> : c \in {d \in Callers : arg[d] = t}}
             \cup {<<"end", n>> : n \in {m \in 1..3 : t \in <<comb, taken, lost>>[m]}}
EachTaskOnce == \A t \in pushed : Cardinality(Places(t)) = 1

\* The processes that fill the pool look at its length and push in two commands, and
\* agents take from it between: each process but one may overshoot by one
\* (proxyqueues.lua:41-66).
PoolBounded == pool <= PoolSize + Cardinality(Fillers) - 1

\* Of the scripts main.lua has coroutines for only every second is ever started, one
\* after the other: the list is walked and shortened at once (main.lua:67-83).
EverySecondScript ==
    \A c \in Callers : boot[c].resumed = {2 * k - 1 : k \in 1..boot[c].i}

\* The pool is empty for good: every proxyqueues.lua has ended.
Drained == pool = 0 /\ \A f \in Fillers : filler[f] = "off"

\* A task in the list is crawled, taken by another crawler or lost, unless every
\* maincall.lua has ended or waits with its agent for a proxy that nobody will buy:
\* searches put in front of the task, proxies that run out and time-outs delay it but do
\* not hold it up for ever (20.lua:42-61, maincall.lua:41-70, elongsrvagent.lua:91,
\* proxyqueues.lua:40-68).
TasksGoThrough ==
    \A t \in Tasks :
        t \in pushed ~> \/ t \in comb \cup taken \cup lost
                        \/ \A c \in Callers : Gone(c) \/ (Drained /\ main[c] = "proxy")

\* "if get no mission sleep 10" (maincall.lua:65): a maincall.lua that gets no task
\* sleeps and asks again; nothing but a failure ends it.
CallersOutliveIdleness == \A c \in Callers : main[c] # "dead"
-----------------------------------------------------------------------------
(* The inductive invariant behind the safety properties. *)

\* A maincall.lua has a task from the answer to the append, and a request only while
\* it waits for the answer, or left behind by its death.
CallerOK(c) ==
    /\ IF main[c] \in {"proxy", "crawl", "push"} THEN arg[c] \in Tasks ELSE arg[c] = None
    /\ main[c] \notin {"wait", "dead"} => req[c].step = "none"
    /\ req[c].num = 1
    /\ Len(req[c].got) <= IF req[c].step = "reply" THEN 1 ELSE 0

\* The coroutines that are left follow the index in their order.
BootOK(c) == LET ts == boot[c].threads
                 i  == boot[c].i IN
    IF main[c] = "off" THEN boot[c] = NoBoot
    ELSE i \in 1..Len(ts) /\ \A j \in i..Len(ts) : ts[j] = j + i - 1

\* A task has one place from the time it is pushed, and none before.
OnePlace(t) == IF t \in pushed THEN \E p \in Places(t) : Places(t) = {p} ELSE Places(t) = {}

\* The proxies in the pool and those on their way to it.
PoolOK == pool + Cardinality({f \in Fillers : filler[f] \in {"buy", "push"}})
              <= PoolSize + Cardinality(Fillers) - 1

CInv == /\ TypeOK
        /\ \A c \in Clients : req[c].step = "none" => req[c].got = <<>>
        /\ \A c \in Callers : CallerOK(c) /\ BootOK(c)
        /\ \A t \in Tasks : OnePlace(t)
        /\ EverySecondScript
        /\ PoolOK
=============================================================================
