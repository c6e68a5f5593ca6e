------------------------------- MODULE TaskSort -------------------------------
(***************************************************************************)
(* The crawl scheduler agent/10.lua.  Redis sorted set task:sort gives each *)
(* route a score, the age in seconds at which its fares expire.  The script *)
(* loops: it hands the routes of the lowest score to the crawlers (RPUSH on *)
(* loc:queues), doubles their score, and sleeps for the distance to the     *)
(* score it then finds behind them.                                         *)
(*                                                                         *)
(* Nothing else writes task:sort while it runs (the ZADD loop of            *)
(* agent/00.lua is commented out), so the three reads at the top of the     *)
(* loop are one action.  The script may die between any two commands, and   *)
(* is started again by hand.                                                *)
(***************************************************************************)
EXTENDS Integers, FiniteSets, Sequences, SequencesExt

CONSTANTS N,          \* number of routes; route names sort like 1..N
          InitScores, \* scores the routes may start with
          MaxScore,   \* bound on a score the loop starts from
          MaxRestarts \* bound on restarts of the script

ASSUME NIsPositive == N \in Nat \ {0}
ASSUME BoundsAreNat == MaxScore \in Nat /\ MaxRestarts \in Nat
\* The scores are positive.  agent/00.lua:84 can compute others; the loop that would
\* store them is commented out.
ASSUME ScoresAreBounded == InitScores \subseteq 1..(2 * MaxScore)

Tasks == 1..N

VARIABLES score,    \* task:sort
          pc,       \* what the script does next
          min,      \* argscore[1][2]
          due,      \* args, without those already handled
          argidx,   \* rank behind the last due route
          clock,    \* time, on the scale of the scores
          restarts, \* how often the script was started again
          unscored, \* history: entries of a route pushed since its last ZADD
          ran       \* history: routes pushed so far

vars == <<score, pc, min, due, argidx, clock, restarts, unscored, ran>>

\* The order of a sorted set: by score, then by member.
Before(v, w) == score[v] < score[w] \/ (score[v] = score[w] /\ v < w)
Rank(v) == Cardinality({w \in Tasks : Before(w, v)})
AtRank(k) == CHOOSE v \in Tasks : Rank(v) = k
Least == score[AtRank(0)]

TypeOK == /\ score \in [Tasks -> 1..(2 * MaxScore)]
          /\ pc \in {"plan", "push", "rescore", "dead"}
          /\ min \in 0..MaxScore
          /\ due \in Seq(Tasks)
          /\ argidx \in 0..N
          /\ clock \in Nat
          /\ restarts \in 0..MaxRestarts
          /\ unscored \in [Tasks -> Nat]
          /\ ran \subseteq Tasks

\* The script is started when the first route is due.
Init == /\ score \in [Tasks -> InitScores]
        /\ pc = "plan"
        /\ min = 0
        /\ due = <<>>
        /\ argidx = 0
        /\ clock = Least
        /\ restarts = 0
        /\ unscored = [v \in Tasks |-> 0]
        /\ ran = {}
-----------------------------------------------------------------------------
\* The routes that are due, in the order of the sorted set.
DueSeqs == LET D == {v \in Tasks : score[v] <= Least} IN
    {s \in [1..Cardinality(D) -> D] : \A j, k \in DOMAIN s : j < k => Before(s[j], s[k])}

\* ZRANGE 0 0, ZRANGEBYSCORE -inf min, ZRANK of the last due route.
Plan == /\ pc = "plan"
        /\ Least <= MaxScore
        /\ min' = Least
        /\ due' \in DueSeqs
        /\ argidx' = Rank(due'[Len(due')]) + 1
        /\ pc' = "push"
        /\ UNCHANGED <<score, clock, restarts, unscored, ran>>

\* RPUSH loc:queues v
Push == /\ pc = "push"
        /\ due # <<>>
        /\ unscored' = [unscored EXCEPT ![Head(due)] = @ + 1]
        /\ ran' = ran \cup {Head(due)}
        /\ pc' = "rescore"
        /\ UNCHANGED <<score, min, due, argidx, clock, restarts>>

\* Mutant: the last due route is not rescored.
RescoreAllButLast ==
    /\ pc = "rescore"
    /\ IF Len(due) > 1
       THEN /\ score' = [score EXCEPT ![Head(due)] = min * 2]
            /\ unscored' = [unscored EXCEPT ![Head(due)] = 0]
       ELSE UNCHANGED <<score, unscored>>
    /\ due' = Tail(due)
    /\ pc' = "push"
    /\ UNCHANGED <<min, argidx, clock, restarts, ran>>

\* Mutant: one ZADD for all due routes follows the first RPUSH.
RescoreBatch ==
    /\ pc = "rescore"
    /\ score' = [v \in Tasks |-> IF Contains(due, v) THEN min * 2 ELSE score[v]]
    /\ unscored' = [unscored EXCEPT ![Head(due)] = 0]
    /\ due' = <<>>
    /\ pc' = "push"
    /\ UNCHANGED <<min, argidx, clock, restarts, ran>>

\* Mutant: the score is tripled, beyond its type.
RescoreTriples == /\ pc = "rescore"
                  /\ score' = [score EXCEPT ![Head(due)] = min * 3]
                  /\ unscored' = [unscored EXCEPT ![Head(due)] = 0]
                  /\ due' = Tail(due)
                  /\ pc' = "push"
                  /\ UNCHANGED <<min, argidx, clock, restarts, ran>>

\* ZADD task:sort min*2 v
Rescore == /\ pc = "rescore"
           /\ score' = [score EXCEPT ![Head(due)] = min * 2]
           /\ unscored' = [unscored EXCEPT ![Head(due)] = 0]
           /\ due' = Tail(due)
           /\ pc' = "push"
           /\ UNCHANGED <<min, argidx, clock, restarts, ran>>

\* Mutant: the sleep is counted from the doubled score.
SleepFromDoubled == /\ pc = "push"
                    /\ due = <<>>
                    /\ argidx < N
                    /\ clock' = clock + (score[AtRank(argidx)] - min * 2)
                    /\ pc' = "plan"
                    /\ UNCHANGED <<score, min, due, argidx, restarts, unscored, ran>>

\* ZRANGE argidx argidx on the rescored set, and the sleep.
Sleep == /\ pc = "push"
         /\ due = <<>>
         /\ argidx < N
         /\ clock' = clock + (score[AtRank(argidx)] - min)
         /\ pc' = "plan"
         /\ UNCHANGED <<score, min, due, argidx, restarts, unscored, ran>>

\* Every route was due: the ZRANGE is empty and line 70 indexes nil.
IndexNil == /\ pc = "push"
            /\ due = <<>>
            /\ argidx >= N
            /\ pc' = "dead"
            /\ UNCHANGED <<score, min, due, argidx, clock, restarts, unscored, ran>>

\* The process is killed, or redis-lua raises a connection error.
Crash == /\ pc # "dead"
         /\ restarts < MaxRestarts
         /\ pc' = "dead"
         /\ UNCHANGED <<score, min, due, argidx, clock, restarts, unscored, ran>>

Restart == /\ pc = "dead"
           /\ restarts < MaxRestarts
           /\ restarts' = restarts + 1
           /\ pc' = "plan"
           /\ min' = 0
           /\ due' = <<>>
           /\ argidx' = 0
           /\ UNCHANGED <<score, clock, unscored, ran>>
-----------------------------------------------------------------------------
Loop == Plan \/ Push \/ Rescore \/ Sleep \/ IndexNil
Next == Loop \/ Crash \/ Restart

Spec == Init /\ [][Next]_vars

\* The script keeps running: it is one process that only waits for redis and in
\* its own sleep.
FairSpec == Spec /\ WF_vars(Loop)
-----------------------------------------------------------------------------
(* Properties. *)

\* While the script is not restarted, no route is handed out before its score is
\* reached: the rank is read before the scores are doubled and used after (lines
\* 49, 69), but the route it then finds is never nearer than the next one due.
NeverEarly == restarts = 0 /\ pc \in {"push", "rescore"} => clock >= min

\* A route has more entries in loc:queues than expiries only through a death
\* between its RPUSH and its ZADD, one entry for each.
OneEntryPerExpiry ==
    \A v \in Tasks :
        unscored[v] <= restarts + (IF pc \in {"rescore", "dead"} THEN 1 ELSE 0)

\* The rotation is fair: a route that was handed out is never put off beyond twice
\* the soonest expiry, also by doublings that a death interrupted, so no route falls
\* behind for more than one turn of the others.
NoneFallsBehind == \A v \in ran : score[v] <= 2 * Least

\* Doubling the score of the routes that ran lets every other route have its turn,
\* unless the script is dead for good.
EveryRouteRuns == \A v \in Tasks : <>(v \in ran) \/ <>[](pc = "dead")
-----------------------------------------------------------------------------
(* The inductive invariant behind the safety properties. *)

\* While routes are handed out min is the lowest score, and that of all routes still
\* to be handed out.
Current == pc \in {"push", "rescore"} =>
    /\ min > 0
    /\ \A v \in Tasks : min <= score[v]
    /\ IsInjective(due)
    /\ \A k \in DOMAIN due : score[due[k]] = min
    /\ pc = "rescore" => due # <<>>

\* The one entry that is not accounted for by a restart is of the route in hand.
Counted == \A v \in Tasks :
    unscored[v] <= restarts + (IF pc = "dead" \/ (pc = "rescore" /\ v = due[1]) THEN 1 ELSE 0)

\* The sleep ends when the next route is due, or after.
OnTime == restarts = 0 /\ pc = "plan" => clock >= Least

TInv == TypeOK /\ Current /\ Counted /\ NoneFallsBehind /\ OnTime /\ NeverEarly
=============================================================================
