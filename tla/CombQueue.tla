------------------------------ MODULE CombQueue ------------------------------
(***************************************************************************)
(* The queue of route searches to combine, redis list price:comb.          *)
(* callback.lua (POST) files a search in it: LEVEL 0 at the tail, LEVEL 1  *)
(* at the head, a search already filed only once.  It does so with two or  *)
(* three redis commands that are not a transaction, and nginx interleaves  *)
(* requests at every one of them.  http/maincall.lua appends the routes    *)
(* its agent has crawled, without asking whether they are filed already.   *)
(* http/combinate.lua pops the head and asks the gateway to refresh and    *)
(* combine its prices.                                                     *)
(*                                                                         *)
(* Not modelled: malformed bodies (400), other methods (403) and a failed  *)
(* connect, which touch no key.                                            *)
(***************************************************************************)
EXTENDS Redis, Integers, FiniteSets, Sequences, SequencesExt

CONSTANTS Handlers,  \* concurrent POSTs of callback.lua
          Args,      \* searches, e.g. "ext-price/bjs/lax/ow/20130823/"
          Levels,    \* values of LEVEL a client sends; the code knows 0 and 1
          MaxLeaks,  \* bound on requests that leave the copy they inserted
          RawArgs,   \* routes maincall.lua appends, e.g. "bjs/lax/20130823/"
          MaxRaw     \* bound on their entries in the list

ASSUME LevelsAreNat == Levels \subseteq Nat
ASSUME HandlersAreFinite == IsFiniteSet(Handlers)
ASSUME BoundsAreNat == MaxLeaks \in Nat /\ MaxRaw \in Nat
ASSUME RawIsNoSearch == RawArgs \cap Args = {}
ASSUME NoneIsNew == None \notin Args \cup RawArgs /\ None \notin Int

VARIABLES queue,    \* price:comb
          req,      \* the requests of callback.lua
          cpc,      \* what combinate.lua does next
          carg,     \* the search it has popped
          leaks,    \* history: copies left behind by LINSERT
          due       \* history: accepted searches, neither popped nor disturbed since

combVars == <<queue, req, cpc, carg, leaks, due>>

\* fresh: since the request began its search was not popped, no other request
\* for the same search was active and no command failed.  noList: LINSERT answered 0.
NoPost == [pc |-> "idle", arg |-> None, level |-> 0, fresh |-> FALSE, noList |-> FALSE]
Request == [pc : {"linsert", "rpush", "lpush", "lrem1", "lrem0"}, arg : Args,
            level : Levels, fresh : BOOLEAN, noList : BOOLEAN]

CombTypeOK ==
    /\ queue \in Seq(Args \cup RawArgs)
    /\ req \in [Handlers -> Request \cup {NoPost}]
    /\ cpc \in {"blpop", "capi", "api"}
    /\ carg \in Args \cup RawArgs \cup {None}
    /\ leaks \in 0..MaxLeaks
    /\ due \subseteq Args

CombInit ==
    /\ queue = <<>>
    /\ req = [h \in Handlers |-> NoPost]
    /\ cpc = "blpop"
    /\ carg = None
    /\ leaks = 0
    /\ due = {}
-----------------------------------------------------------------------------
(* The redis commands on the list. *)

Filed(a) == Contains(queue, a)

\* LINSERT price:comb before a a: -1 without pivot, 0 without list.
LinsertReply(a) == IF queue = <<>> THEN 0 ELSE IF Filed(a) THEN Len(queue) + 1 ELSE -1

\* LREM price:comb 0 a: the entries that stay keep their order.
Without(q, a) == LET kept == {i \in DOMAIN q : q[i] # a}
                     nth(k) == CHOOSE i \in kept : Cardinality({j \in kept : j <= i}) = k
                 IN  [k \in 1..Cardinality(kept) |-> q[nth(k)]]

\* Mutant: a filed search is found, but not inserted again before its LREM.
LinsertedNothing(a) == queue

Linserted(a) == IF Filed(a) THEN InsertAt(queue, SelectInSeq(queue, LAMBDA x : x = a), a)
                            ELSE queue

\* Mutant: LEVEL 0 is pushed at the head.
AppliedLpush(h) == LET a == req[h].arg IN
    CASE req[h].pc = "linsert" -> Linserted(a)
      [] req[h].pc \in {"rpush", "lpush"} -> <<a>> \o queue
      [] req[h].pc = "lrem1"   -> RemoveFirst(queue, a)
      [] req[h].pc = "lrem0"   -> Without(queue, a)

\* Mutant: LREM removes nothing.
AppliedNoLrem(h) == LET a == req[h].arg IN
    CASE req[h].pc = "linsert" -> Linserted(a)
      [] req[h].pc = "rpush"   -> Append(queue, a)
      [] req[h].pc = "lpush"   -> <<a>> \o queue
      [] req[h].pc \in {"lrem1", "lrem0"} -> queue

\* The command a request is about to send, as it changes the list.
Applied(h) == LET a == req[h].arg IN
    CASE req[h].pc = "linsert" -> Linserted(a)
      [] req[h].pc = "rpush"   -> Append(queue, a)
      [] req[h].pc = "lpush"   -> <<a>> \o queue
      [] req[h].pc = "lrem1"   -> RemoveFirst(queue, a)
      [] req[h].pc = "lrem0"   -> Without(queue, a)
-----------------------------------------------------------------------------
(* callback.lua *)

Active(a) == {h \in Handlers : req[h].arg = a}

\* A well-formed POST; other requests for the same search now overlap it.
Post(h, a, v) ==
    /\ req[h] = NoPost
    /\ req' = [g \in Handlers |->
                 IF g = h THEN [pc |-> "linsert", arg |-> a, level |-> v,
                                fresh |-> Active(a) = {}, noList |-> FALSE]
                 ELSE [req[g] EXCEPT !.fresh = @ /\ req[g].arg # a]]
    /\ due' = IF Active(a) = {} THEN due ELSE due \ {a}
    /\ UNCHANGED <<queue, cpc, carg, leaks>>

\* Lines 62-81: where the reply to LINSERT sends the request; an unknown LEVEL
\* ends it, with the inserted copy in the list.
AfterLinsert(h, reply) ==
    LET next == CASE req[h].level = 0 -> IF reply = -1 THEN "rpush" ELSE "lrem1"
                  [] req[h].level = 1 -> IF reply = -1 THEN "lpush" ELSE "lrem0"
                  [] OTHER            -> "done"
    IN  req' = [req EXCEPT ![h] = IF next = "done" THEN NoPost
                                  ELSE [req[h] EXCEPT !.pc = next, !.noList = (reply = 0),
                                                 !.fresh = req[h].fresh /\ reply # None]]

\* History: a request for a that fails gives up what was accepted before it.
Disturb(a) == due' = due \ {a}

Leak(h) == /\ leaks < MaxLeaks
           /\ leaks' = leaks + 1

Linsert(h) == LET a == req[h].arg IN
    /\ req[h].pc = "linsert"
    /\ queue' = Applied(h)
    /\ AfterLinsert(h, LinsertReply(a))
    /\ IF Filed(a) /\ req[h].level \notin {0, 1} THEN Leak(h) ELSE UNCHANGED leaks
    /\ UNCHANGED <<cpc, carg, due>>

\* HTTP_OK: the search is accepted.  When LINSERT found no list at all it answered 0,
\* which the code takes for "filed": LREM 1 finds nothing, and nothing is filed.
Accept(h) == LET a == req[h].arg IN
    /\ req' = [req EXCEPT ![h] = NoPost]
    /\ due' = IF req[h].fresh /\ ~req[h].noList THEN due \cup {a} ELSE due

\* RPUSH, LPUSH and LREM 1 are the last command of a request.
FinalCommand(h) == /\ req[h].pc \in {"rpush", "lpush", "lrem1"}
                   /\ queue' = Applied(h)
                   /\ Accept(h)
                   /\ UNCHANGED <<cpc, carg, leaks>>

\* LREM 0, then LPUSH.
LremAll(h) == /\ req[h].pc = "lrem0"
              /\ queue' = Applied(h)
              /\ req' = [req EXCEPT ![h].pc = "lpush"]
              /\ UNCHANGED <<cpc, carg, leaks, due>>

\* LINSERT answers nil: the code takes it for "filed" and goes on to LREM.
LinsertFails(h, applied) ==
    /\ Faults
    /\ req[h].pc = "linsert"
    /\ queue' = IF applied THEN Applied(h) ELSE queue
    /\ AfterLinsert(h, None)
    /\ IF applied /\ Filed(req[h].arg) /\ req[h].level \notin {0, 1}
       THEN Leak(h) ELSE UNCHANGED leaks
    /\ Disturb(req[h].arg)
    /\ UNCHANGED <<cpc, carg>>

\* Another command answers nil, applied or not (HTTP_SERVICE_UNAVAILABLE), or the
\* worker dies.
CommandFails(h, applied) ==
    /\ Faults
    /\ req[h].pc \in {"rpush", "lpush", "lrem1", "lrem0"}
    /\ queue' = IF applied THEN Applied(h) ELSE queue
    /\ req' = [req EXCEPT ![h] = NoPost]
    /\ IF ~applied /\ req[h].pc \in {"lrem1", "lrem0"} THEN Leak(h) ELSE UNCHANGED leaks
    /\ Disturb(req[h].arg)
    /\ UNCHANGED <<cpc, carg>>
-----------------------------------------------------------------------------
(* maincall.lua and combinate.lua *)

\* RPUSH price:comb arg, repeated until redis takes it.
MaincallPush(a) == /\ Cardinality({i \in DOMAIN queue : queue[i] \in RawArgs}) < MaxRaw
                   /\ queue' = Append(queue, a)
                   /\ UNCHANGED <<req, cpc, carg, leaks, due>>

\* BLPOP price:comb 1
Pop == LET a == Head(queue) IN
    /\ cpc = "blpop"
    /\ queue # <<>>
    /\ queue' = Tail(queue)
    /\ carg' = a
    /\ cpc' = "capi"
    /\ req' = [h \in Handlers |-> [req[h] EXCEPT !.fresh = @ /\ req[h].arg # a]]
    /\ due' = due \ {a}
    /\ UNCHANGED leaks

\* capi/...: anything but 200 drops the search.
Capi == /\ cpc = "capi"
        /\ \/ cpc' = "api" /\ UNCHANGED carg
           \/ cpc' = "blpop" /\ carg' = None
        /\ UNCHANGED <<queue, req, leaks, due>>

\* The combination itself; whatever its answer the loop goes on.
Api == /\ cpc = "api"
       /\ cpc' = "blpop"
       /\ carg' = None
       /\ UNCHANGED <<queue, req, leaks, due>>

\* The process dies and is started again: the popped search is gone.
Restart == /\ Faults
           /\ cpc # "blpop"
           /\ cpc' = "blpop"
           /\ carg' = None
           /\ UNCHANGED <<queue, req, leaks, due>>
-----------------------------------------------------------------------------
Command(h) == Linsert(h) \/ FinalCommand(h) \/ LremAll(h)
Combinate == Pop \/ Capi \/ Api

CombNext ==
    \/ \E h \in Handlers : \/ \E a \in Args, v \in Levels : Post(h, a, v)
                           \/ Command(h)
                           \/ \E b \in BOOLEAN : LinsertFails(h, b) \/ CommandFails(h, b)
    \/ \E a \in RawArgs : MaincallPush(a)
    \/ Combinate \/ Restart

CombSpec == CombInit /\ [][CombNext]_combVars

\* Redis answers, nginx resumes the request, and combinate.lua's loop goes on:
\* its HTTP calls return or time out.
CombFairSpec ==
    /\ CombSpec
    /\ WF_combVars(Combinate)
    /\ \A h \in Handlers : WF_combVars(Command(h))
-----------------------------------------------------------------------------
(* Properties. *)

Copies(a) == Cardinality({i \in DOMAIN queue : queue[i] = a})
At(a, pcs) == Cardinality({h \in Handlers : req[h].arg = a /\ req[h].pc \in pcs})

\* A search is filed more than once only while requests for it are under way, or
\* because they raced over an absent search (at most one copy each), or because
\* an LREM failed: duplicates do not pile up (callback.lua:61-104).
DuplicatesBounded ==
    \A a \in Args : Copies(a) + At(a, {"rpush", "lpush"})
                      <= Cardinality(Handlers) + At(a, {"lrem1", "lrem0"}) + leaks

\* An accepted search that no other request for the same search overlapped, and
\* that no one has popped since, is in the list, or an LPUSH is about to put it
\* there: later requests for it, requests for other searches and the consumer
\* never lose it.  (A later request for it may, when one of its commands fails.)
InTransit(a) == \E h \in Handlers : req[h].arg = a /\ req[h].pc = "lpush"
KeepsAccepted == \A a \in due : Filed(a) \/ InTransit(a)

\* A filed search is popped in the end, or some request takes it out, whatever
\* fails and however many searches keep being filed, as long as LEVEL 1 requests,
\* which go in front of it, do not come for ever (callback.lua:62-95,
\* combinate.lua:40-58).
FiledIsServed ==
    <>[](\A h \in Handlers : req[h].level # 1) =>
        \A a \in Args \cup RawArgs : Filed(a) ~> (carg = a \/ ~Filed(a))
-----------------------------------------------------------------------------
(* The inductive invariant behind the safety properties. *)

\* A fresh request is the only one for its search, and so is a request for a search
\* that is due.
FreshIsAlone == \A g, h \in Handlers : req[h].fresh /\ req[g].arg = req[h].arg => g = h
DueIsAlone == \A g, h \in Handlers : req[h].arg \in due /\ req[g].arg = req[h].arg => g = h

\* When LREM 1 is about to take a copy of a search that is due, or will be, there is
\* another one.
Doubled == \A h \in Handlers :
    /\ req[h].pc = "lrem1"
    /\ req[h].arg \in due \/ (req[h].fresh /\ ~req[h].noList)
    => Copies(req[h].arg) >= 2

CombIInv == /\ CombTypeOK
            /\ DuplicatesBounded
            /\ KeepsAccepted
            /\ FreshIsAlone
            /\ DueIsAlone
            /\ Doubled
=============================================================================
