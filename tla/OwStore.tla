------------------------------- MODULE OwStore -------------------------------
(***************************************************************************)
(* The one-way price store of ow/receiveprice.lua for one ORG:DST pair:    *)
(* POST (lines 47-239) stores the records a crawler sends, GET (lines      *)
(* 240-296) assembles the answer of a user's search.  A POST handles its   *)
(* records one after the other and stops at the first failed command, so   *)
(* it is modelled record by record; which id a record gets is FlightIds'   *)
(* business, and every step here is a FlightIds step that also says what   *)
(* happens to the index and the prices.                                    *)
(*                                                                         *)
(* Round-trip posts take part with their getfid calls only: they share     *)
(* flt:id, flt:<line>:id and seg:<id> with the one-way posts.              *)
(***************************************************************************)
EXTENDS FlightIds, Sequences

CONSTANTS Gets,    \* concurrent GETs
          Dates,   \* departure dates (gdate)
          Faults   \* may redis fail, or a worker die?

ASSUME FaultsIsBoolean == Faults \in BOOLEAN

VARIABLES owidx,   \* ow:<ORG>:<DST>, the ids of the sorted set
          pri,     \* pri:ow:<id>: for each date the line of the stored record
          date,    \* gdate of a POST
          gpc,     \* what a GET does next
          gdate,   \* its date
          todo,    \* indexed ids it has not looked up yet
          got,     \* bigtab: the lines whose records it will answer
          orphaned,\* history: lines that got an id from a request that never indexed it
          seen     \* history: the lines that were visible when a GET began

owKeys == <<owidx, pri>>
getter == <<gpc, gdate, todo, got, seen>>
owVars == <<idVars, owKeys, date, getter, orphaned>>

OwTypeOK ==
    /\ TypeOK
    /\ owidx \subseteq Ids
    /\ pri \in [Ids -> [Dates -> Lines \cup {None}]]
    /\ date \in [OwReqs -> Dates \cup {None}]
    /\ gpc \in [Gets -> {"idle", "kayak", "zrange", "hget", "done"}]
    /\ gdate \in [Gets -> Dates \cup {None}]
    /\ todo \in [Gets -> SUBSET Ids]
    /\ got \in [Gets -> Seq(Lines)]
    /\ orphaned \subseteq Lines
    /\ seen \in [Gets -> SUBSET Lines]

OwInit == /\ Init
          /\ owidx = {}
          /\ pri = [i \in Ids |-> [d \in Dates |-> None]]
          /\ date = [r \in OwReqs |-> None]
          /\ gpc = [g \in Gets |-> "idle"]
          /\ gdate = [g \in Gets |-> None]
          /\ todo = [g \in Gets |-> {}]
          /\ got = [g \in Gets |-> <<>>]
          /\ orphaned = {}
          /\ seen = [g \in Gets |-> {}]

\* Lines a search for date d should find: indexed and priced for that date.
Visible(d) == {l \in Lines : /\ fltid[l] \in owidx
                             /\ pri[fltid[l]][d] # None}
-----------------------------------------------------------------------------
(* POST. *)

OwBegin(r, l, s, d) == /\ Begin(r, l, s)
                       /\ date' = [date EXCEPT ![r] = d]
                       /\ UNCHANGED <<owKeys, getter, orphaned>>

\* getfid of a round-trip POST begins.
RtBegin(r, l, s) == /\ Begin(r, l, s)
                    /\ UNCHANGED <<owKeys, date, getter, orphaned>>

\* A SETNX won by a round-trip post: no script will index the line.
Settle(r) == /\ SetnxId(r)
             /\ orphaned' = IF Wins(r) /\ r \in RtReqs
                            THEN orphaned \cup {line[r]} ELSE orphaned
             /\ UNCHANGED <<owKeys, date, getter>>

\* The steps that touch neither index nor prices.
IdStep(r) == /\ GetId(r) \/ IncrId(r) \/ GetWinner(r) \/ StoreSeg(r)
             /\ UNCHANGED <<owKeys, date, getter, orphaned>>

\* ZADD ow:<ORG>:<DST> fltscore fltid
OwIndex(r) == /\ Index(r)
              /\ owidx' = owidx \cup {held[r]}
              /\ UNCHANGED <<pri, date, getter, orphaned>>

\* Mutant: the price goes under the newest counter value.
OwPriceUnderCounter(r) ==
    /\ Finish(r)
    /\ pri' = [pri EXCEPT ![counter][date[r]] = line[r]]
    /\ date' = [date EXCEPT ![r] = None]
    /\ UNCHANGED <<owidx, getter, orphaned>>

\* Mutant: the index entry is written with every price.
OwPriceIndexes(r) == /\ Finish(r)
                     /\ pri' = [pri EXCEPT ![held[r]][date[r]] = line[r]]
                     /\ owidx' = owidx \cup {held[r]}
                     /\ date' = [date EXCEPT ![r] = None]
                     /\ UNCHANGED <<getter, orphaned>>

\* HSET pri:ow:<fltid> gdate, on both branches; then the next record.
OwPrice(r) == /\ Finish(r)
              /\ pri' = [pri EXCEPT ![held[r]][date[r]] = line[r]]
              /\ date' = [date EXCEPT ![r] = None]
              /\ UNCHANGED <<owidx, getter, orphaned>>

\* A round-trip post takes the id to its own keys.
RtReady(r) == /\ Finish(r)
              /\ UNCHANGED <<owKeys, date, getter, orphaned>>

ForgetDate(r) == date' = [q \in OwReqs |-> IF q = r THEN None ELSE date[q]]

\* A command fails unapplied, or the worker dies.
OwAbort(r) == /\ Faults
              /\ Abort(r)
              /\ ForgetDate(r)
              /\ orphaned' = IF pc[r] = "zadd" THEN orphaned \cup {line[r]} ELSE orphaned
              /\ UNCHANGED <<owKeys, getter>>

\* The reply of a writing command is lost.
OwLostReply(r) ==
    /\ Faults
    /\ ForgetDate(r)
    /\ \/ /\ LostReply(r)
          /\ orphaned' = IF pc[r] = "setnx" /\ Wins(r)
                         THEN orphaned \cup {line[r]} ELSE orphaned
          /\ UNCHANGED <<owKeys, getter>>
       \/ /\ pc[r] = "zadd"
          /\ Abort(r)
          /\ owidx' = owidx \cup {held[r]}
          /\ UNCHANGED <<pri, getter, orphaned>>
-----------------------------------------------------------------------------
(* GET. *)

GetBegin(g, d) == /\ gpc[g] = "idle"
                  /\ gpc' = [gpc EXCEPT ![g] = "kayak"]
                  /\ gdate' = [gdate EXCEPT ![g] = d]
                  /\ seen' = [seen EXCEPT ![g] = Visible(d)]
                  /\ UNCHANGED <<idVars, owKeys, date, todo, got, orphaned>>

\* HGET ota:<ORG>:<DST>:kayak gdate, the kayak fares merged into the answer; the
\* fares themselves are abstracted away.
GetKayak(g) == /\ gpc[g] = "kayak"
               /\ gpc' = [gpc EXCEPT ![g] = "zrange"]
               /\ UNCHANGED <<idVars, owKeys, date, gdate, todo, got, seen, orphaned>>

\* Mutant: ZRANGE 1 -1.
GetIndexFromOne(g) ==
    /\ gpc[g] = "zrange"
    /\ todo' = [todo EXCEPT ![g] = {i \in owidx : \E j \in owidx : j < i}]
    /\ gpc' = [gpc EXCEPT ![g] = "hget"]
    /\ UNCHANGED <<idVars, owKeys, date, gdate, got, seen, orphaned>>

\* ZRANGE ow:<ORG>:<DST> 0 -1
GetIndex(g) == /\ gpc[g] = "zrange"
               /\ todo' = [todo EXCEPT ![g] = owidx]
               /\ gpc' = [gpc EXCEPT ![g] = "hget"]
               /\ UNCHANGED <<idVars, owKeys, date, gdate, got, seen, orphaned>>

\* HGET pri:ow:<id> gdate: a record found is answered.
\* Departure-time order of the ids is abstracted to any order.
GetPrice(g, i) ==
    LET l == pri[i][gdate[g]] IN
    /\ gpc[g] = "hget"
    /\ i \in todo[g]
    /\ todo' = [todo EXCEPT ![g] = @ \ {i}]
    /\ got' = [got EXCEPT ![g] =
                  IF l = None THEN @
                  ELSE Append(@, l)]
    /\ UNCHANGED <<idVars, owKeys, date, gpc, gdate, seen, orphaned>>

\* The answer is printed: the records, or error002 when there are none.
GetAnswer(g) == /\ gpc[g] = "hget"
                /\ todo[g] = {}
                /\ gpc' = [gpc EXCEPT ![g] = "done"]
                /\ UNCHANGED <<idVars, owKeys, date, gdate, todo, got, seen, orphaned>>

\* The request is over, after its answer or because a read failed (error003).
GetEnd(g) == /\ gpc[g] # "idle"
             /\ gpc[g] = "done" \/ Faults
             /\ gpc' = [gpc EXCEPT ![g] = "idle"]
             /\ gdate' = [gdate EXCEPT ![g] = None]
             /\ todo' = [todo EXCEPT ![g] = {}]
             /\ got' = [got EXCEPT ![g] = <<>>]
             /\ seen' = [seen EXCEPT ![g] = {}]
             /\ UNCHANGED <<idVars, owKeys, date, orphaned>>
-----------------------------------------------------------------------------
OwProgress(r) == Settle(r) \/ IdStep(r) \/ OwIndex(r) \/ OwPrice(r)
RtProgress(r) == Settle(r) \/ IdStep(r) \/ RtReady(r)
GetProgress(g) == GetKayak(g) \/ GetIndex(g) \/ (\E i \in Ids : GetPrice(g, i)) \/ GetAnswer(g) \/ GetEnd(g)

OwNext == \/ \E r \in OwReqs : \/ \E l \in Lines, s \in Segs, d \in Dates : OwBegin(r, l, s, d)
                               \/ OwProgress(r)
          \/ \E r \in RtReqs : \/ \E l \in Lines, s \in Segs : RtBegin(r, l, s)
                               \/ RtProgress(r)
          \/ \E r \in Reqs : OwAbort(r) \/ OwLostReply(r)
          \/ \E g \in Gets : (\E d \in Dates : GetBegin(g, d)) \/ GetProgress(g)

OwSpec == OwInit /\ [][OwNext]_owVars

\* nginx resumes a coroutine whose redis reply has arrived, and redis answers.
OwFairSpec == /\ OwSpec
              /\ \A r \in OwReqs : WF_owVars(OwProgress(r))
              /\ \A r \in RtReqs : WF_owVars(RtProgress(r))
              /\ \A g \in Gets : WF_owVars(GetProgress(g))
-----------------------------------------------------------------------------
(* Properties. *)

\* A price stored under an id is the price of the line that owns the id, and the
\* index lists only ids some line owns: whichever branch of the POST stored it
\* (receiveprice.lua:209 or :224) and whoever won the SETNX, GET never shows one
\* line's fare under another line.
PricesOwned == /\ \A i \in Ids, d \in Dates : pri[i][d] # None => fltid[pri[i][d]] = i
               /\ \A i \in owidx : \E l \in Lines : fltid[l] = i

\* A line with an id is in the index, or the request that won its SETNX is at the
\* ZADD, or that request was a round-trip post or broke off before the ZADD: the
\* only ways in which a line becomes invisible to GET.
IndexedOrExplained ==
    \A l \in Lines : fltid[l] # 0 =>
        \/ fltid[l] \in owidx
        \/ \E r \in OwReqs : pc[r] = "zadd" /\ line[r] = l
        \/ l \in orphaned

\* The answer of a GET lies between what was visible when it began and what is
\* visible when it ends, each line once: reading the index and the prices in
\* separate commands loses nothing and invents nothing (receiveprice.lua:260-294).
AnswerBracketed ==
    \A g \in Gets : gpc[g] = "done" =>
        LET lines == {got[g][k] : k \in DOMAIN got[g]}
        IN  /\ seen[g] \subseteq lines
            /\ lines \subseteq Visible(gdate[g])
            /\ Cardinality(lines) = Len(got[g])

\* A line that was left without an index entry while nobody allocates for it
\* stays invisible: later posts find its id and only store prices (line 224).
LossIsFinal ==
    [][\A l \in Lines : fltid[l] # 0 /\ fltid[l] \notin owidx /\ ~Allocating(l) =>
          fltid[l] \notin owidx']_owVars

\* With no failures and no round-trip posts, a posted fare becomes visible to GET,
\* whoever allocates the id and whichever post gets there first.
PostedBecomesVisible ==
    \A l \in Lines, d \in Dates :
        (\E r \in OwReqs : line[r] = l /\ date[r] = d) ~> l \in Visible(d)
-----------------------------------------------------------------------------
(* The inductive invariant behind the safety properties: what FlightIds says of
   the ids, the types of index and prices, and the two properties themselves. *)
OwIInv == /\ IInv
          /\ owidx \subseteq Ids
          /\ pri \in [Ids -> [Dates -> Lines \cup {None}]]
          /\ PricesOwned
          /\ IndexedOrExplained

\* What a search has found and what it found when it began is visible; what it has
\* not found yet is ahead of it.
Found(g) == {got[g][k] : k \in DOMAIN got[g]}
GetOK(g) ==
    /\ gpc[g] = "idle" => seen[g] = {}
    /\ gpc[g] # "idle" => /\ gdate[g] \in Dates
                          /\ seen[g] \cup Found(g) \subseteq Visible(gdate[g])
    /\ gpc[g] \in {"idle", "kayak", "zrange"} => got[g] = <<>>
    /\ gpc[g] # "hget" => todo[g] = {}
    /\ gpc[g] \in {"hget", "done"} =>
          \A l \in seen[g] : l \in Found(g) \/ fltid[l] \in todo[g]
    /\ \A j, k \in DOMAIN got[g] : got[g][j] = got[g][k] => j = k
    /\ todo[g] \subseteq owidx
    /\ \A l \in Found(g) : fltid[l] \notin todo[g]

SearchInv == /\ OwIInv
             /\ OwTypeOK
             /\ \A g \in Gets : GetOK(g)
=============================================================================
