---------------------------- MODULE AvhToken_proof ----------------------------
(***************************************************************************)
(* Proofs about the token of avhcmd.lua, for any number of requests and    *)
(* tokens, with and without failures: IInv is inductive, and the           *)
(* properties of AvhToken follow from it.                                  *)
(***************************************************************************)
EXTENDS AvhToken, TLAPS

\* The invariant holds initially.
LEMMA Initially == Init => IInv
<1> SUFFICES ASSUME Init PROVE IInv
  OBVIOUS
<1>1. TypeOK
  BY MaxTokensIsNat DEF Init, TypeOK, Tokens, Steps
<1>2. LoggedOutBriefly
  BY DEF Init, LoggedOutBriefly
<1>3. Numbered /\ InHand /\ WorkingTokenKept /\ AloneRepairing
  BY DEF Init, Numbered, InHand, WorkingTokenKept, AloneRepairing
<1> QED BY <1>1, <1>2, <1>3 DEF IInv

\* A request takes the token found in memcached.
LEMMA GetCacheKeeps == ASSUME NEW r \in Reqs, IInv, GetCache(r) PROVE IInv'
<1> USE MaxTokensIsNat
<1>1. TypeOK'
  BY DEF IInv, TypeOK, Tokens, Steps, GetCache, service
<1>2. Numbered'
  BY DEF IInv, TypeOK, Tokens, Numbered, GetCache, service
<1>3. InHand'
  BY DEF IInv, TypeOK, InHand, GetCache, service
<1>4. LoggedOutBriefly'
  BY DEF IInv, TypeOK, LoggedOutBriefly, GetCache, service
<1>5. WorkingTokenKept'
  BY DEF IInv, TypeOK, Tokens, Numbered, InHand, WorkingTokenKept, GetCache, service
<1>6. AloneRepairing'
  BY DEF IInv, TypeOK, Tokens, AloneRepairing, Repaired, GetCache, service
<1> QED BY <1>1, <1>2, <1>3, <1>4, <1>5, <1>6 DEF IInv

\* It finds none.
LEMMA GetCacheFailsKeeps == ASSUME NEW r \in Reqs, IInv, GetCacheFails(r) PROVE IInv'
<1> USE MaxTokensIsNat
<1>1. TypeOK'
  BY DEF IInv, TypeOK, Tokens, Steps, GetCacheFails, Fault, service
<1>2. Numbered'
  BY DEF IInv, TypeOK, Tokens, Numbered, GetCacheFails, Fault, service
<1>3. InHand'
  BY DEF IInv, TypeOK, InHand, GetCacheFails, Fault, service
<1>4. LoggedOutBriefly'
  BY DEF IInv, TypeOK, LoggedOutBriefly, GetCacheFails, Fault, service
<1>5. WorkingTokenKept'
  BY DEF IInv, TypeOK, Tokens, Numbered, InHand, WorkingTokenKept, GetCacheFails,
     Fault, service
<1>6. AloneRepairing'
  BY DEF IInv, TypeOK, Tokens, AloneRepairing, Repaired, GetCacheFails, Fault, service
<1> QED BY <1>1, <1>2, <1>3, <1>4, <1>5, <1>6 DEF IInv

\* A live token is answered for; a dead one leads to APPLY_TOKEN.
LEMMA QueryKeeps == ASSUME NEW r \in Reqs, IInv, Query(r) PROVE IInv'
<1> USE MaxTokensIsNat
<1>1. TypeOK'
  BY DEF IInv, TypeOK, Tokens, Steps, Query, Answers, Goto, service
<1>2. Numbered'
  BY DEF IInv, TypeOK, Tokens, Numbered, Query, Answers, Goto, service
<1>3. InHand'
  BY DEF IInv, TypeOK, InHand, Query, Answers, Goto, service
<1>4. LoggedOutBriefly'
  BY DEF IInv, TypeOK, LoggedOutBriefly, Query, Answers, Goto, service
<1>5. WorkingTokenKept'
  BY DEF IInv, TypeOK, Tokens, Numbered, InHand, WorkingTokenKept, Query, Answers,
     Goto, service
<1>6. AloneRepairing'
  BY DEF IInv, TypeOK, Tokens, AloneRepairing, Repaired, Query, Answers, Goto, service
<1> QED BY <1>1, <1>2, <1>3, <1>4, <1>5, <1>6 DEF IInv

\* A token granted is newer than every token there is.
LEMMA ApplyKeeps == ASSUME NEW r \in Reqs, IInv, Apply(r) PROVE IInv'
<1> USE MaxTokensIsNat
<1>1. TypeOK'
  <2> USE DEF IInv, TypeOK, Tokens, Steps, Apply, Granted, Null, Goto, service
  <2>1. active' \in BOOLEAN
    OBVIOUS
  <2>2. live' \in Tokens /\ issued' \in Tokens /\ cache' \in Tokens
    OBVIOUS
  <2>3. pc' \in [Reqs -> Steps]
    OBVIOUS
  <2>4. /\ tok' \in [Reqs -> Tokens]
        /\ seen' \in [Reqs -> Tokens]
        /\ answer' \in [Reqs -> {"none", "service", "data", "error"}]
    OBVIOUS
  <2>5. alone' \in [Reqs -> BOOLEAN]
    OBVIOUS
  <2>6. cut' \in BOOLEAN
    OBVIOUS
  <2> QED BY <2>1, <2>2, <2>3, <2>4, <2>5, <2>6
<1>2. Numbered'
  BY DEF IInv, TypeOK, Tokens, Numbered, Apply, Granted, Null, Goto, service
<1>3. InHand'
  BY DEF IInv, TypeOK, InHand, Apply, Granted, Null, Goto, service
<1>4. LoggedOutBriefly'
  BY DEF IInv, TypeOK, LoggedOutBriefly, Apply, Granted, Null, Goto, service
<1>5. WorkingTokenKept'
  BY DEF IInv, TypeOK, Tokens, Numbered, InHand, WorkingTokenKept, Apply, Granted,
     Null, Goto, service
<1>6. AloneRepairing'
  BY DEF IInv, TypeOK, Tokens, AloneRepairing, Repaired, Apply, Granted, Null, Goto,
     service
<1> QED BY <1>1, <1>2, <1>3, <1>4, <1>5, <1>6 DEF IInv

\* The request that logs the account out is the one that will log it in.
LEMMA DeactiveKeeps == ASSUME NEW r \in Reqs, IInv, Deactive(r) PROVE IInv'
<1> USE MaxTokensIsNat
<1>1. TypeOK'
  <2> USE DEF IInv, TypeOK, Tokens, Steps, Deactive, Goto
  <2>1. active' \in BOOLEAN
    OBVIOUS
  <2>2. live' \in Tokens /\ issued' \in Tokens /\ cache' \in Tokens
    OBVIOUS
  <2>3. pc' \in [Reqs -> Steps]
    OBVIOUS
  <2>4. /\ tok' \in [Reqs -> Tokens]
        /\ seen' \in [Reqs -> Tokens]
        /\ answer' \in [Reqs -> {"none", "service", "data", "error"}]
    OBVIOUS
  <2>5. alone' \in [Reqs -> BOOLEAN]
    OBVIOUS
  <2>6. cut' \in BOOLEAN
    OBVIOUS
  <2> QED BY <2>1, <2>2, <2>3, <2>4, <2>5, <2>6
<1>2. Numbered'
  BY DEF IInv, TypeOK, Tokens, Numbered, Deactive, Goto
<1>3. InHand'
  BY DEF IInv, TypeOK, InHand, Deactive, Goto
<1>4. LoggedOutBriefly'
  BY DEF IInv, TypeOK, LoggedOutBriefly, Deactive, Goto
<1>5. WorkingTokenKept'
  BY DEF IInv, TypeOK, Tokens, Numbered, InHand, WorkingTokenKept, Deactive, Goto
<1>6. AloneRepairing'
  BY DEF IInv, TypeOK, Tokens, AloneRepairing, Repaired, Deactive, Goto
<1> QED BY <1>1, <1>2, <1>3, <1>4, <1>5, <1>6 DEF IInv

\* Nothing is done, and nobody is alone.
LEMMA DeactiveRefusedKeeps == ASSUME NEW r \in Reqs, IInv, DeactiveRefused(r) PROVE IInv'
<1> USE MaxTokensIsNat
<1>1. TypeOK'
  BY DEF IInv, TypeOK, Tokens, Steps, DeactiveRefused, Fault, service
<1>2. Numbered'
  BY DEF IInv, TypeOK, Tokens, Numbered, DeactiveRefused, Fault, service
<1>3. InHand'
  BY DEF IInv, TypeOK, InHand, DeactiveRefused, Fault, service
<1>4. LoggedOutBriefly'
  BY DEF IInv, TypeOK, LoggedOutBriefly, DeactiveRefused, Fault, service
<1>5. WorkingTokenKept'
  BY DEF IInv, TypeOK, Tokens, Numbered, InHand, WorkingTokenKept, DeactiveRefused,
     Fault, service
<1>6. AloneRepairing'
  BY DEF IInv, TypeOK, Tokens, AloneRepairing, Repaired, DeactiveRefused, Fault, service
<1> QED BY <1>1, <1>2, <1>3, <1>4, <1>5, <1>6 DEF IInv

\* The account is active again, whoever logged it out.
LEMMA ActivateKeeps == ASSUME NEW r \in Reqs, IInv, Activate(r) PROVE IInv'
<1> USE MaxTokensIsNat
<1>1. TypeOK'
  BY DEF IInv, TypeOK, Tokens, Steps, Activate, Goto
<1>2. Numbered'
  BY DEF IInv, TypeOK, Tokens, Numbered, Activate, Goto
<1>3. InHand'
  BY DEF IInv, TypeOK, InHand, Activate, Goto
<1>4. LoggedOutBriefly'
  BY DEF IInv, TypeOK, LoggedOutBriefly, Activate, Goto
<1>5. WorkingTokenKept'
  BY DEF IInv, TypeOK, Tokens, Numbered, InHand, WorkingTokenKept, Activate, Goto
<1>6. AloneRepairing'
  BY DEF IInv, TypeOK, Tokens, AloneRepairing, Repaired, Activate, Goto
<1> QED BY <1>1, <1>2, <1>3, <1>4, <1>5, <1>6 DEF IInv

\* Alone, it finds the account active and no token live: it is granted one.
LEMMA ReapplyKeeps == ASSUME NEW r \in Reqs, IInv, Reapply(r) PROVE IInv'
<1> USE MaxTokensIsNat
<1>1. TypeOK'
  <2> USE DEF IInv, TypeOK, Tokens, Steps, Reapply, Granted, Null, Answers, Goto, service
  <2>1. active' \in BOOLEAN
    OBVIOUS
  <2>2. live' \in Tokens /\ issued' \in Tokens /\ cache' \in Tokens
    OBVIOUS
  <2>3. pc' \in [Reqs -> Steps]
    OBVIOUS
  <2>4. /\ tok' \in [Reqs -> Tokens]
        /\ seen' \in [Reqs -> Tokens]
        /\ answer' \in [Reqs -> {"none", "service", "data", "error"}]
    OBVIOUS
  <2>5. alone' \in [Reqs -> BOOLEAN]
    OBVIOUS
  <2>6. cut' \in BOOLEAN
    OBVIOUS
  <2> QED BY <2>1, <2>2, <2>3, <2>4, <2>5, <2>6
<1>2. Numbered'
  BY DEF IInv, TypeOK, Tokens, Numbered, Reapply, Granted, Null, Answers, Goto, service
<1>3. InHand'
  BY DEF IInv, TypeOK, InHand, Reapply, Granted, Null, Answers, Goto, service
<1>4. LoggedOutBriefly'
  BY DEF IInv, TypeOK, LoggedOutBriefly, Reapply, Granted, Null, Answers, Goto, service
<1>5. WorkingTokenKept'
  BY DEF IInv, TypeOK, Tokens, Numbered, InHand, WorkingTokenKept, Reapply, Granted,
     Null, Answers, Goto, service
<1>6. AloneRepairing'
  BY DEF IInv, TypeOK, Tokens, AloneRepairing, Repaired, Reapply, Granted, Null,
     Answers, Goto, service
<1> QED BY <1>1, <1>2, <1>3, <1>4, <1>5, <1>6 DEF IInv

\* The token granted is the one in memcached.
LEMMA SetKeeps == ASSUME NEW r \in Reqs, IInv, Set(r) PROVE IInv'
<1> USE MaxTokensIsNat
<1>1. TypeOK'
  BY DEF IInv, TypeOK, Tokens, Steps, Set, Goto, service
<1>2. Numbered'
  BY DEF IInv, TypeOK, Tokens, Numbered, Set, Goto, service
<1>3. InHand'
  BY DEF IInv, TypeOK, InHand, Set, Goto, service
<1>4. LoggedOutBriefly'
  BY DEF IInv, TypeOK, LoggedOutBriefly, Set, Goto, service
<1>5. WorkingTokenKept'
  BY DEF IInv, TypeOK, Tokens, Numbered, InHand, WorkingTokenKept, Set, Goto, service
<1>6. AloneRepairing'
  BY DEF IInv, TypeOK, Tokens, AloneRepairing, Repaired, Set, Goto, service
<1> QED BY <1>1, <1>2, <1>3, <1>4, <1>5, <1>6 DEF IInv

\* The token in memcached stays, and nobody is alone.
LEMMA SetFailsKeeps == ASSUME NEW r \in Reqs, IInv, SetFails(r) PROVE IInv'
<1> USE MaxTokensIsNat
<1>1. TypeOK'
  BY DEF IInv, TypeOK, Tokens, Steps, SetFails, Fault, service
<1>2. Numbered'
  BY DEF IInv, TypeOK, Tokens, Numbered, SetFails, Fault, service
<1>3. InHand'
  BY DEF IInv, TypeOK, InHand, SetFails, Fault, service
<1>4. LoggedOutBriefly'
  BY DEF IInv, TypeOK, LoggedOutBriefly, SetFails, Fault, service
<1>5. WorkingTokenKept'
  BY DEF IInv, TypeOK, Tokens, Numbered, InHand, WorkingTokenKept, SetFails, Fault,
     service
<1>6. AloneRepairing'
  BY DEF IInv, TypeOK, Tokens, AloneRepairing, Repaired, SetFails, Fault, service
<1> QED BY <1>1, <1>2, <1>3, <1>4, <1>5, <1>6 DEF IInv

\* Alone, nothing has changed since memc:set.
LEMMA RequeryKeeps == ASSUME NEW r \in Reqs, IInv, Requery(r) PROVE IInv'
<1> USE MaxTokensIsNat
<1>1. TypeOK'
  BY DEF IInv, TypeOK, Tokens, Steps, Requery, Answers, Goto, service
<1>2. Numbered'
  BY DEF IInv, TypeOK, Tokens, Numbered, Requery, Answers, Goto, service
<1>3. InHand'
  BY DEF IInv, TypeOK, InHand, Requery, Answers, Goto, service
<1>4. LoggedOutBriefly'
  BY DEF IInv, TypeOK, LoggedOutBriefly, Requery, Answers, Goto, service
<1>5. WorkingTokenKept'
  BY DEF IInv, TypeOK, Tokens, Numbered, InHand, WorkingTokenKept, Requery, Answers,
     Goto, service
<1>6. AloneRepairing'
  BY DEF IInv, TypeOK, Tokens, AloneRepairing, Repaired, Requery, Answers, Goto, service
<1> QED BY <1>1, <1>2, <1>3, <1>4, <1>5, <1>6 DEF IInv

\* The request forgets its token.
LEMMA EndKeeps == ASSUME NEW r \in Reqs, IInv, End(r) PROVE IInv'
<1> USE MaxTokensIsNat
<1>1. TypeOK'
  BY DEF IInv, TypeOK, Tokens, Steps, End, service
<1>2. Numbered'
  BY DEF IInv, TypeOK, Tokens, Numbered, End, service
<1>3. InHand'
  BY DEF IInv, TypeOK, InHand, End, service
<1>4. LoggedOutBriefly'
  BY DEF IInv, TypeOK, LoggedOutBriefly, End, service
<1>5. WorkingTokenKept'
  BY DEF IInv, TypeOK, Tokens, Numbered, InHand, WorkingTokenKept, End, service
<1>6. AloneRepairing'
  BY DEF IInv, TypeOK, Tokens, AloneRepairing, Repaired, End, service
<1> QED BY <1>1, <1>2, <1>3, <1>4, <1>5, <1>6 DEF IInv

\* Nobody is alone any more; a missed ACTIVE is noted in cut.
LEMMA FailsKeeps == ASSUME NEW r \in Reqs, IInv, Fails(r) PROVE IInv'
<1> USE MaxTokensIsNat
<1>1. TypeOK'
  <2> USE DEF IInv, TypeOK, Tokens, Steps, Fails, Fault, service
  <2>1. active' \in BOOLEAN
    OBVIOUS
  <2>2. live' \in Tokens /\ issued' \in Tokens /\ cache' \in Tokens
    OBVIOUS
  <2>3. pc' \in [Reqs -> Steps]
    OBVIOUS
  <2>4. /\ tok' \in [Reqs -> Tokens]
        /\ seen' \in [Reqs -> Tokens]
        /\ answer' \in [Reqs -> {"none", "service", "data", "error"}]
    OBVIOUS
  <2>5. alone' \in [Reqs -> BOOLEAN]
    OBVIOUS
  <2>6. cut' \in BOOLEAN
    BY Zenon
  <2> QED BY <2>1, <2>2, <2>3, <2>4, <2>5, <2>6
<1>2. Numbered'
  BY DEF IInv, TypeOK, Tokens, Numbered, Fails, Fault, service
<1>3. InHand'
  BY DEF IInv, TypeOK, InHand, Fails, Fault, service
<1>4. LoggedOutBriefly'
  <2> SUFFICES ASSUME ~active' PROVE cut' \/ \E q \in Reqs : pc'[q] = "active"
    BY DEF LoggedOutBriefly
  <2>1. CASE cut' = (cut \/ pc[r] = "active") /\ UNCHANGED service
    <3>1. cut \/ \E q \in Reqs : pc[q] = "active"
      BY <2>1 DEF IInv, LoggedOutBriefly, service
    <3>2. CASE cut
      BY <3>2, <2>1
    <3>3. ASSUME NEW q \in Reqs, pc[q] = "active"
          PROVE  cut' \/ \E p \in Reqs : pc'[p] = "active"
      <4>1. CASE q = r
        BY <4>1, <3>3, <2>1
      <4>2. CASE q # r
        BY <4>2, <3>3 DEF Fails, IInv, TypeOK
      <4> QED BY <4>1, <4>2
    <3> QED BY <3>1, <3>2, <3>3
  <2>2. CASE cut' = TRUE
    BY <2>2
  <2>3. CASE UNCHANGED active /\ active
    BY <2>3
  <2>4. CASE active' = TRUE
    BY <2>4
  <2> QED BY <2>1, <2>2, <2>3, <2>4 DEF Fails
<1>5. WorkingTokenKept'
  BY DEF IInv, TypeOK, Tokens, Numbered, InHand, WorkingTokenKept, Fails, Fault, service
<1>6. AloneRepairing'
  BY DEF IInv, TypeOK, Tokens, AloneRepairing, Repaired, Fails, Fault, service
<1> QED BY <1>1, <1>2, <1>3, <1>4, <1>5, <1>6 DEF IInv

\* When the service forgets a token nobody is alone.
LEMMA ExpireKeeps == ASSUME IInv, Expire PROVE IInv'
<1> USE MaxTokensIsNat
<1>1. TypeOK'
  BY DEF IInv, TypeOK, Tokens, Steps, Expire
<1>2. Numbered' /\ InHand' /\ AloneRepairing'
  BY DEF IInv, TypeOK, Tokens, Numbered, InHand, AloneRepairing, Expire
<1>3. LoggedOutBriefly'
  BY DEF IInv, LoggedOutBriefly, Expire
<1>4. WorkingTokenKept'
  BY DEF IInv, TypeOK, WorkingTokenKept, Expire
<1> QED BY <1>1, <1>2, <1>3, <1>4 DEF IInv

LEMMA StutterKeeps == ASSUME IInv, UNCHANGED vars PROVE IInv'
<1>1. TypeOK' /\ Numbered' /\ InHand'
  BY DEF IInv, TypeOK, Numbered, InHand, vars, service
<1>2. LoggedOutBriefly' /\ WorkingTokenKept'
  BY DEF IInv, LoggedOutBriefly, WorkingTokenKept, vars, service
<1>3. AloneRepairing'
  BY DEF IInv, AloneRepairing, Repaired, vars, service
<1> QED BY <1>1, <1>2, <1>3 DEF IInv

\* IInv is an invariant of avhcmd.lua.
THEOREM Inductive == Spec => []IInv
<1>1. IInv /\ [Next]_vars => IInv'
  <2> SUFFICES ASSUME IInv, [Next]_vars PROVE IInv'
    OBVIOUS
  <2>1. ASSUME NEW r \in Reqs,
               GetCache(r) \/ Query(r) \/ Refresh(r) \/ End(r) \/ Disturb(r)
        PROVE  IInv'
    BY <2>1, GetCacheKeeps, QueryKeeps, ApplyKeeps, DeactiveKeeps, ActivateKeeps,
       ReapplyKeeps, SetKeeps, RequeryKeeps, EndKeeps, GetCacheFailsKeeps,
       DeactiveRefusedKeeps, SetFailsKeeps, FailsKeeps
       DEF Refresh, Disturb
  <2>2. CASE Expire
    BY <2>2, ExpireKeeps
  <2>3. CASE UNCHANGED vars
    BY <2>3, StutterKeeps
  <2> QED BY <2>1, <2>2, <2>3 DEF Next
<1> QED BY <1>1, Initially, PTL DEF Spec

\* A request that runs alone leaves the live token in memcached and has an answer.
THEOREM RepairsAlone == Spec => []AloneRepairs
<1>1. IInv => AloneRepairs
  BY DEF IInv, AloneRepairing, Repaired, AloneRepairs
<1> QED BY <1>1, Inductive, PTL

\* Requests that refresh together never leave the account logged out.
THEOREM LogsInAgain == Spec => []LoggedOutBriefly
<1>1. IInv => LoggedOutBriefly
  BY DEF IInv
<1> QED BY <1>1, Inductive, PTL

\* No request logs the account out of the token it has found to work.
THEOREM KeepsWorkingToken == Spec => []WorkingTokenKept
<1>1. IInv => WorkingTokenKept
  BY DEF IInv
<1> QED BY <1>1, Inductive, PTL
=============================================================================
