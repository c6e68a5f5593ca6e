------------------------------ MODULE AvhToken ------------------------------
(***************************************************************************)
(* The token of the availability commands (http/avhcmd.lua).  Every GET     *)
(* takes the token of the shared account from memcached and asks the        *)
(* service (SBE_AV); a token the service no longer knows (result 20005), or *)
(* none in memcached, makes the request apply for one: APPLY_TOKEN, and     *)
(* when that gives none DEACTIVE, ACTIVE and APPLY_TOKEN again.  Nothing    *)
(* keeps two requests from doing this at once.                              *)
(*                                                                          *)
(* The service is external.  It has one account, which is active or not and *)
(* has at most one live token.  While one is live it answers APPLY_TOKEN    *)
(* with null or replaces it: the source does not tell.                      *)
(***************************************************************************)
EXTENDS Naturals

CONSTANTS Reqs,       \* concurrent GETs
          MaxTokens,  \* bound on the tokens the service issues
          Faults      \* may a call fail, or a worker die?

ASSUME MaxTokensIsNat == MaxTokens \in Nat
ASSUME FaultsIsBoolean == Faults \in BOOLEAN

VARIABLES active,  \* service: is the account active?
          live,    \* service: the live token, 0 for none
          issued,  \* service: tokens issued
          cache,   \* memcached: the token, 0 for none
          pc, tok, \* a request: its next call, and the token in hand
          seen,    \* history: the token it found in memcached
          answer,  \* what it answered
          alone,   \* history: was it alone, and was nothing failing, up to now?
          cut      \* history: was an ACTIVE missed since the last that succeeded?

service == <<active, live, issued>>
vars == <<service, cache, pc, tok, seen, answer, alone, cut>>

Tokens == 0..MaxTokens   \* 0: none
Steps == {"idle", "query", "apply", "deactive", "active", "reapply", "set", "requery", "done"}

TypeOK == /\ active \in BOOLEAN
          /\ live \in Tokens /\ issued \in Tokens /\ cache \in Tokens
          /\ pc \in [Reqs -> Steps]
          /\ tok \in [Reqs -> Tokens]
          /\ seen \in [Reqs -> Tokens]
          /\ answer \in [Reqs -> {"none", "service", "data", "error"}]
          /\ alone \in [Reqs -> BOOLEAN]
          /\ cut \in BOOLEAN

Init == /\ active \in BOOLEAN /\ live = 0 /\ issued = 0 /\ cache = 0
        /\ pc = [r \in Reqs |-> "idle"]
        /\ tok = [r \in Reqs |-> 0]
        /\ seen = [r \in Reqs |-> 0]
        /\ answer = [r \in Reqs |-> "none"]
        /\ alone = [r \in Reqs |-> FALSE]
        /\ cut = ~active
-----------------------------------------------------------------------------
(* A step of r ends the solitude of the others; a fault that of everyone. *)

Goto(r, step) == /\ pc' = [pc EXCEPT ![r] = step]
                 /\ alone' = [q \in Reqs |-> alone[q] /\ q = r]

Fault == /\ Faults
         /\ alone' = [q \in Reqs |-> FALSE]

Answers(r, a) == /\ Goto(r, "done")
                 /\ answer' = [answer EXCEPT ![r] = a]

\* memc:get
GetCache(r) == /\ pc[r] = "idle"
               /\ pc' = [pc EXCEPT ![r] = IF cache = 0 THEN "apply" ELSE "query"]
               /\ alone' = [q \in Reqs |-> q = r /\ \A o \in Reqs \ {r} : pc[o] = "idle"]
               /\ tok' = [tok EXCEPT ![r] = cache]
               /\ seen' = [seen EXCEPT ![r] = cache]
               /\ UNCHANGED <<service, cache, answer, cut>>

\* memcached does not answer: that is no token.
GetCacheFails(r) == /\ pc[r] = "idle"
                    /\ Fault
                    /\ pc' = [pc EXCEPT ![r] = "apply"]
                    /\ UNCHANGED <<service, cache, tok, seen, answer, cut>>

\* Mutant: any result but 0 makes the request apply for a token.
QueryAnyError(r) == /\ pc[r] = "query"
                    /\ \/ tok[r] = live /\ Answers(r, "service")
                       \/ Goto(r, "apply") /\ UNCHANGED answer
                    /\ UNCHANGED <<service, cache, tok, seen, cut>>

\* SBE_AV: 20005 for a dead token; 0, or an error that is none of the token's and for
\* which /data-avh/ is asked, for the live one.
Query(r) == /\ pc[r] = "query"
            /\ IF tok[r] = live THEN Answers(r, "service") \/ Answers(r, "data")
               ELSE Goto(r, "apply") /\ UNCHANGED answer
            /\ UNCHANGED <<service, cache, tok, seen, cut>>

\* APPLY_TOKEN gives request r a token, or null.
Granted(r) == /\ active
              /\ issued < MaxTokens
              /\ issued' = issued + 1
              /\ live' = issued + 1
              /\ tok' = [tok EXCEPT ![r] = issued + 1]
              /\ Goto(r, "set")
              /\ UNCHANGED <<active, answer>>

Null == (~active \/ live # 0) /\ UNCHANGED <<service, tok>>

Apply(r) == /\ pc[r] = "apply"
            /\ \/ Granted(r)
               \/ Null /\ Goto(r, "deactive") /\ UNCHANGED answer
            /\ UNCHANGED <<cache, seen, cut>>

\* Mutant: the account is left as it is when it was active.
DeactiveOnly(r) == /\ pc[r] = "deactive"
                   /\ active' = FALSE
                   /\ live' = 0
                   /\ Goto(r, "reapply")
                   /\ UNCHANGED <<issued, cache, tok, seen, answer, cut>>

\* ACCOUNT_DEACTIVE; its result is not looked at.
Deactive(r) == /\ pc[r] = "deactive"
               /\ active' = FALSE
               /\ live' = 0
               /\ Goto(r, "active")
               /\ UNCHANGED <<issued, cache, tok, seen, answer, cut>>

\* The service refuses, and ACTIVE is sent all the same.
DeactiveRefused(r) == /\ pc[r] = "deactive"
                      /\ Fault
                      /\ pc' = [pc EXCEPT ![r] = "active"]
                      /\ UNCHANGED <<service, cache, tok, seen, answer, cut>>

\* ACCOUNT_ACTIVE
Activate(r) == /\ pc[r] = "active"
               /\ active' = TRUE
               /\ cut' = FALSE
               /\ Goto(r, "reapply")
               /\ UNCHANGED <<live, issued, cache, tok, seen, answer>>

Reapply(r) == /\ pc[r] = "reapply"
              /\ \/ Granted(r)
                 \/ Null /\ Answers(r, "error")
              /\ UNCHANGED <<cache, seen, cut>>

\* Mutant: only a first token is stored.
SetIfNone(r) == /\ pc[r] = "set"
                /\ cache' = IF cache = 0 THEN tok[r] ELSE cache
                /\ Goto(r, "requery")
                /\ UNCHANGED <<service, tok, seen, answer, cut>>

\* memc:set, without an expiry
Set(r) == /\ pc[r] = "set"
          /\ cache' = tok[r]
          /\ Goto(r, "requery")
          /\ UNCHANGED <<service, tok, seen, answer, cut>>

\* memc:set fails, and nobody looks.
SetFails(r) == /\ pc[r] = "set"
               /\ Fault
               /\ pc' = [pc EXCEPT ![r] = "requery"]
               /\ UNCHANGED <<service, cache, tok, seen, answer, cut>>

\* SBE_AV with the new token.  The variables its result is compared in are never set:
\* whatever it is, the answer is that of /data-avh/.
Requery(r) == /\ pc[r] = "requery"
              /\ Answers(r, "data")
              /\ UNCHANGED <<service, cache, tok, seen, cut>>

End(r) == /\ pc[r] = "done"
          /\ pc' = [pc EXCEPT ![r] = "idle"]
          /\ tok' = [tok EXCEPT ![r] = 0]
          /\ seen' = [seen EXCEPT ![r] = 0]
          /\ answer' = [answer EXCEPT ![r] = "none"]
          /\ alone' = [alone EXCEPT ![r] = FALSE]
          /\ UNCHANGED <<service, cache, cut>>

\* A call fails or its answer is lost, or the worker dies: the service may have done
\* what it was asked or not.  An ACTIVE that is refused or lost, or never sent, leaves
\* the account as it was.
Fails(r) == /\ pc[r] \notin {"idle", "done"}
            /\ Fault
            /\ pc' = [pc EXCEPT ![r] = "done"]
            /\ answer' = [answer EXCEPT ![r] = "error"]
            /\ \/ /\ cut' = (cut \/ pc[r] = "active")
                  /\ UNCHANGED service
               \/ /\ pc[r] = "deactive"
                  /\ active' = FALSE
                  /\ live' = 0
                  /\ cut' = TRUE
                  /\ UNCHANGED issued
               \/ /\ pc[r] = "active"
                  /\ active' = TRUE
                  /\ cut' = FALSE
                  /\ UNCHANGED <<live, issued>>
               \/ /\ pc[r] \in {"apply", "reapply"}
                  /\ active
                  /\ issued < MaxTokens
                  /\ issued' = issued + 1
                  /\ live' = issued + 1
                  /\ UNCHANGED <<active, cut>>
            /\ UNCHANGED <<cache, tok, seen>>

\* The service forgets the token.
Expire == /\ live # 0
          /\ live' = 0
          /\ alone' = [q \in Reqs |-> FALSE]
          /\ UNCHANGED <<active, issued, cache, pc, tok, seen, answer, cut>>
-----------------------------------------------------------------------------
Refresh(r) == Apply(r) \/ Deactive(r) \/ Activate(r) \/ Reapply(r) \/ Set(r) \/ Requery(r)
Disturb(r) == GetCacheFails(r) \/ DeactiveRefused(r) \/ SetFails(r) \/ Fails(r)

Next == \/ \E r \in Reqs : GetCache(r) \/ Query(r) \/ Refresh(r) \/ End(r) \/ Disturb(r)
        \/ Expire

Spec == Init /\ [][Next]_vars
-----------------------------------------------------------------------------
(* Properties. *)

\* Whatever races, failures and deaths left behind - an account logged out, a dead
\* token in memcached, a live one that nobody knows - one request that runs by itself
\* repairs, if the service does what it is asked: when it is over the token in memcached
\* is the live one, and it has an answer to give (avhcmd.lua:109-161, 185-288).
AloneRepairs ==
    \A r \in Reqs : pc[r] = "done" /\ alone[r] =>
        /\ live # 0
        /\ cache = live
        /\ answer[r] # "error"

\* The account is logged out only between a DEACTIVE and the ACTIVE that follows it,
\* or when that ACTIVE was missed: requests that log it out together do not leave it so
\* (avhcmd.lua:130-131).
LoggedOutBriefly == ~active => cut \/ \E r \in Reqs : pc[r] = "active"

\* A request applies for a token only if the one it found in memcached, if any, is
\* dead: nobody logs out a token that works for itself.  Those of others it may
\* (avhcmd.lua:187-206).
WorkingTokenKept ==
    \A r \in Reqs : pc[r] \in {"apply", "deactive", "active", "reapply"} /\ seen[r] # 0 =>
        seen[r] # live
-----------------------------------------------------------------------------
(* The inductive invariant behind these properties. *)

\* A token is numbered when it is issued.
Numbered == /\ live <= issued /\ cache <= issued
            /\ \A r \in Reqs : tok[r] <= issued /\ seen[r] <= issued

\* The token in hand is the one found, until a new one is granted.
InHand == \A r \in Reqs : /\ pc[r] = "idle" => seen[r] = 0
                          /\ pc[r] = "query" => tok[r] = seen[r]

\* How far a request that is alone has come.
Repaired(r) ==
    /\ \A q \in Reqs \ {r} : pc[q] = "idle"
    /\ pc[r] # "idle"
    /\ pc[r] = "query" => tok[r] = cache /\ cache # 0
    /\ pc[r] = "active" => live = 0
    /\ pc[r] = "reapply" => active /\ live = 0
    /\ pc[r] = "set" => tok[r] = live /\ live # 0
    /\ pc[r] \in {"requery", "done"} => cache = live /\ live # 0
    /\ pc[r] = "done" => answer[r] # "error"
AloneRepairing == \A r \in Reqs : alone[r] => Repaired(r)

IInv == /\ TypeOK /\ Numbered /\ InHand
        /\ LoggedOutBriefly /\ WorkingTokenKept /\ AloneRepairing
=============================================================================
