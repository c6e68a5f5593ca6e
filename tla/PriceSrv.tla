------------------------------ MODULE PriceSrv ------------------------------
(***************************************************************************)
(* The domestic fare search of http/pricesrv.lua, and the ones of prido.lua *)
(* and ow/ctripdom.lua that followed it.  A search gets a document of fare *)
(* records and answers, for every flight line in it, the line's bunks,     *)
(* prices and segments.  pricesrv.lua collects them in the shared          *)
(* dictionary biyifei under the line, and the lines in the redis set       *)
(* fid:<session>; nginx runs other searches at every redis command.  The   *)
(* later scripts collect the same in local tables.                         *)
(*                                                                         *)
(* There is one nginx worker (http/nginx.conf:2), so what runs between two *)
(* redis commands is one step.  Not modelled: a failed capture, airport    *)
(* codes and the international branch, which share no state, and the elong *)
(* fare, which rides on a line's first price.                              *)
(***************************************************************************)
EXTENDS Redis, Integers, FiniteSets, Sequences, SequencesExt

CONSTANTS Searches,  \* searches, each run once
          Fids,      \* fid, e.g. "PEK1830/CAN2140"
          Docs,      \* documents: the lines of their records
          Sessions   \* md5 of the time and the URI: not unique within a millisecond

ASSUME DocsAreOfLines == Docs \subseteq Seq(Fids)
ASSUME NoneIsNoSearch == None \notin Searches /\ None \notin Searches \X (Nat \ {0})

VARIABLES byfs,    \* the shared dictionary: <fid>:bunks, <fid>:price, <fid>:seg
          fids,    \* fid:<session>
          search   \* the searches

srvVars == <<byfs, fids, search>>

\* Record n of the document of search s.
Records == Searches \X (Nat \ {0})
NoEntry == [bunks |-> <<>>, prices |-> <<>>, seg |-> None]
Entries == [bunks : Seq(Records), prices : Seq(Records), seg : Records \cup {None}]

\* bigtab: the entries it has taken.  clean (history): no other search that could
\* take a line of this one, or has its session, ran meanwhile, or left something
\* behind before.  failed (history): a command of this search failed.
NoLines == [l \in Fids |-> NoEntry]
NoSearch == [step |-> "idle", doc |-> <<>>, rc |-> 1, session |-> None,
             bigtab |-> NoLines, clean |-> TRUE, failed |-> FALSE]

SearchState ==
    [step : {"idle", "sadd", "expire", "hget", "smembers", "done", "error"},
     doc : Docs \cup {<<>>}, rc : Nat \ {0}, session : Sessions \cup {None},
     bigtab : [Fids -> Entries], clean : BOOLEAN, failed : BOOLEAN]

SrvTypeOK ==
    /\ byfs \in [Fids -> Entries]
    /\ fids \in [Sessions -> SUBSET Fids]
    /\ search \in [Searches -> SearchState]

SrvInit ==
    /\ byfs = NoLines
    /\ fids = [x \in Sessions |-> {}]
    /\ search = [s \in Searches |-> NoSearch]
-----------------------------------------------------------------------------
(* Collecting, the same in all three scripts. *)

PutBunk(dict, x, l) == [dict EXCEPT ![l].bunks = Append(@, x)]

PutPrice(dict, x, l) ==
    [dict EXCEPT ![l].prices = Append(@, x), ![l].seg = IF @ = None THEN x ELSE @]

\* prido.lua, ctripdom.lua: one record, in the local table dfid.
PutRecord(dict, x, l) == PutPrice(PutBunk(dict, x, l), x, l)

\* The table of these scripts after each record of document doc, as search s.
Dfid(s, doc) ==
    LET dfid[n \in 0..Len(doc)] ==
            IF n = 0 THEN NoLines ELSE PutRecord(dfid[n - 1], <<s, n>>, doc[n])
    IN  dfid

\* What they answer to a document with records; for one without they print error002,
\* where pricesrv.lua answers an empty table.
LocalAnswer(s, doc) == Dfid(s, doc)[Len(doc)]
-----------------------------------------------------------------------------
Running(s) == search[s].step \notin {"idle", "done", "error"}
Line(s) == search[s].doc[search[s].rc]

\* Mutant: the last record is left out.
NextStepEarly(doc, rc) == IF rc < Len(doc) THEN "sadd" ELSE "smembers"

\* Where a search goes with record rc: to its SADD, or after the last to SMEMBERS.
NextStep(doc, rc) == IF rc <= Len(doc) THEN "sadd" ELSE "smembers"

\* The lines a search with document doc and session x may take: its own, and what an
\* earlier one with the same session has left in the set.
Reach(doc, x) == ToSet(doc) \cup fids[x]

\* Searches that meet: they run together, with a line or the session in common.
Meets(doc, x, q) ==
    /\ Running(q)
    /\ \/ search[q].session = x
       \/ Reach(doc, x) \cap Reach(search[q].doc, search[q].session) # {}

\* The capture has answered, the document is parsed.
Begin(s, doc, x) ==
    /\ search[s].step = "idle"
    /\ search' = [q \in Searches |->
         IF q = s
         THEN [NoSearch EXCEPT !.step = NextStep(doc, 1), !.doc = doc, !.session = x,
                 !.clean = /\ fids[x] = {}
                           /\ \A l \in ToSet(doc) : byfs[l] = NoEntry
                           /\ \A p \in Searches \ {s} : ~Meets(doc, x, p)]
         ELSE [search[q] EXCEPT !.clean = @ /\ ~Meets(doc, x, q)]]
    /\ UNCHANGED <<byfs, fids>>

\* SADD fid:<session> fid
Sadd(s) == /\ search[s].step = "sadd"
           /\ fids' = [fids EXCEPT ![search[s].session] = @ \cup {Line(s)}]
           /\ search' = [search EXCEPT ![s].step = "expire"]
           /\ UNCHANGED byfs

\* EXPIRE fid:<session> 120, its answer ignored; then <fid>:bunks.
Expire(s) == /\ search[s].step = "expire"
             /\ byfs' = PutBunk(byfs, <<s, search[s].rc>>, Line(s))
             /\ search' = [search EXCEPT ![s].step = "hget"]
             /\ UNCHANGED fids

\* HGET elong:...; then <fid>:price, <fid>:seg, and the next record.
Hget(s) == /\ search[s].step = "hget"
           /\ byfs' = PutPrice(byfs, <<s, search[s].rc>>, Line(s))
           /\ search' = [search EXCEPT ![s].rc = @ + 1,
                           ![s].step = NextStep(search[s].doc, search[s].rc + 1)]
           /\ UNCHANGED fids

\* What an answer that takes the lines in L, and then raises at those in B, reads
\* of a line, and what it leaves there: a raise at bunks comes before any delete,
\* one at the price or the segments after those of what was read.
Read(l, L, B) == CASE l \in L -> byfs[l]
                   [] l \in B /\ byfs[l].bunks # <<>> -> [byfs[l] EXCEPT !.seg = None]
                   [] OTHER -> NoEntry

\* Mutant: the segments stay in the dictionary.
RestKeepsSeg(l, L, B) ==
    CASE l \in L -> [byfs[l] EXCEPT !.bunks = <<>>, !.prices = <<>>]
      [] l \in B /\ byfs[l].bunks # <<>> -> [byfs[l] EXCEPT !.bunks = <<>>, !.prices = <<>>]
      [] OTHER -> byfs[l]

\* Mutant: the prices stay in the dictionary.
RestKeepsPrices(l, L, B) ==
    CASE l \in L -> [byfs[l] EXCEPT !.bunks = <<>>, !.seg = None]
      [] l \in B /\ byfs[l].bunks # <<>> -> [byfs[l] EXCEPT !.bunks = <<>>]
      [] OTHER -> byfs[l]

Rest(l, L, B) ==
    CASE l \in L -> NoEntry
      [] l \in B /\ byfs[l].bunks # <<>> -> [byfs[l] EXCEPT !.bunks = <<>>, !.prices = <<>>]
      [] OTHER -> byfs[l]

Take(s, L, B) ==
    /\ byfs' = [l \in Fids |-> Rest(l, L, B)]
    /\ search' = [search EXCEPT ![s].step = IF B = {} THEN "done" ELSE "error",
                    ![s].session = None,
                    ![s].bigtab = [l \in Fids |-> Read(l, L, B)]]

Whole(l) == byfs[l].bunks # <<>> /\ byfs[l].prices # <<>> /\ byfs[l].seg # None

\* SMEMBERS fid:<session>, and all of the answer: the lines of the set are taken in
\* the order redis has them, up to the first of which another search has taken a part.
Smembers(s) == LET F == fids[search[s].session] IN
    /\ search[s].step = "smembers"
    /\ \/ (\A l \in F : Whole(l)) /\ Take(s, F, {})
       \/ \E b \in F : /\ ~Whole(b)
                       /\ \E L \in SUBSET {l \in F : Whole(l)} : Take(s, L, {b})
    /\ UNCHANGED fids

\* SADD or SMEMBERS fails and the handler returns; HGET fails and decoding its nil
\* raises; or a command is applied and its reply lost.
Fails(s) == /\ Faults
            /\ search[s].step \in {"sadd", "hget", "smembers"}
            /\ search' = [search EXCEPT ![s].step = "error", ![s].session = None,
                                         ![s].failed = TRUE]
            /\ \/ UNCHANGED fids
               \/ /\ search[s].step = "sadd"
                  /\ fids' = [fids EXCEPT ![search[s].session] = @ \cup {Line(s)}]
            /\ UNCHANGED byfs

\* The set expires.  Every EXPIRE gives it two minutes, and no command takes more
\* than the second of its time-out, so no search that uses it is running.
Expires(x) == /\ fids[x] # {}
              /\ \A s \in Searches : Running(s) => search[s].session # x
              /\ fids' = [fids EXCEPT ![x] = {}]
              /\ UNCHANGED <<byfs, search>>

SrvNext ==
    \/ \E s \in Searches : \/ \E doc \in Docs, x \in Sessions : Begin(s, doc, x)
                           \/ Sadd(s) \/ Expire(s) \/ Hget(s) \/ Smembers(s) \/ Fails(s)
    \/ \E x \in Sessions : Expires(x)

SrvSpec == SrvInit /\ [][SrvNext]_srvVars
-----------------------------------------------------------------------------
(* Properties. *)

\* A search that met no other, and found nothing left behind, answers what the
\* scripts with local tables answer to the same document, and ends in an error
\* only if a command of its own failed (pricesrv.lua:67-226 against
\* prido.lua:69-235 and ctripdom.lua:55-223).
AloneAgrees ==
    \A s \in Searches : search[s].clean =>
        /\ search[s].step = "done" => search[s].bigtab = LocalAnswer(s, search[s].doc)
        /\ search[s].step = "error" => search[s].failed

\* However searches mix, every record put into the dictionary is either still
\* there or was taken by one search: no fare is answered twice, and none is lost
\* but by the error of the search that took it (pricesrv.lua:134-226).
Table(h) == IF h = None THEN byfs ELSE search[h].bigtab
Holders == Searches \cup {None}
Shelves == Holders \X Fids
BunksOf == [p \in Shelves |-> Table(p[1])[p[2]].bunks]
PricesOf == [p \in Shelves |-> Table(p[1])[p[2]].prices]
Places(lists, x) ==
    UNION {{<<p, i>> : i \in {k \in DOMAIN lists[p] : lists[p][k] = x}} : p \in Shelves}
EachRecordOnce ==
    \A s \in Searches : \A n \in 1..Len(search[s].doc) :
        /\ Cardinality(Places(PricesOf, <<s, n>>)) = IF n < search[s].rc THEN 1 ELSE 0
        /\ Cardinality(Places(BunksOf, <<s, n>>))
             \in IF n < search[s].rc THEN {1} ELSE 0..1

\* The dictionary is empty for a line whose searches are all over and answered:
\* something is left behind, to be answered to strangers later, only by a search
\* that ended in an error (pricesrv.lua:201-219).
LeftByErrors ==
    \A l \in Fids :
        (\A s \in Searches : l \in ToSet(search[s].doc) => search[s].step = "done")
            => byfs[l] = NoEntry
-----------------------------------------------------------------------------
(* The inductive invariant behind the safety properties. *)

\* A search is at a record of its document until the last, and takes its answer once.
InOrder == \A s \in Searches :
    /\ search[s].rc <= Len(search[s].doc) + 1
    /\ search[s].step \in {"sadd", "expire", "hget"} => search[s].rc <= Len(search[s].doc)
    /\ search[s].step = "smembers" => search[s].rc = Len(search[s].doc) + 1
    /\ search[s].step = "idle" => search[s].doc = <<>> /\ search[s].rc = 1
    /\ search[s].step = "idle" \/ Running(s) => search[s].bigtab = NoLines

\* The set of a running search has the lines of the records it has come to.
Sadded(s) == {search[s].doc[n] : n \in IF search[s].step \in {"expire", "hget"}
                                       THEN 1..search[s].rc ELSE 1..search[s].rc - 1}
SetHasLines == \A s \in Searches :
    Running(s) => search[s].session \in Sessions /\ Sadded(s) \subseteq fids[search[s].session]

\* Where the parts of each record are.
Nowhere(lists, x) == Places(lists, x) = {}
Once(lists, x) == \E p \in Places(lists, x) : Places(lists, x) = {p}
RecordPlaced(s, n) ==
    /\ n < search[s].rc => Once(PricesOf, <<s, n>>) /\ Once(BunksOf, <<s, n>>)
    /\ n >= search[s].rc => Nowhere(PricesOf, <<s, n>>)
    /\ n = search[s].rc /\ search[s].step = "hget" => Once(BunksOf, <<s, n>>)
    /\ n = search[s].rc /\ search[s].step = "error" =>
         Once(BunksOf, <<s, n>>) \/ Nowhere(BunksOf, <<s, n>>)
    /\ n = search[s].rc /\ search[s].step \notin {"hget", "error"} => Nowhere(BunksOf, <<s, n>>)
    /\ n > search[s].rc => Nowhere(BunksOf, <<s, n>>)
RecordsPlaced == \A s \in Searches, n \in Nat \ {0} : RecordPlaced(s, n)

\* A clean search meets no other, and the dictionary has of its lines what the table
\* of the later scripts would have.
Collected(s) == LET dict == Dfid(s, search[s].doc)[search[s].rc - 1]
                IN  IF search[s].step = "hget" THEN PutBunk(dict, <<s, search[s].rc>>, Line(s))
                                               ELSE dict
CleanCollects == \A s \in Searches : search[s].clean /\ Running(s) =>
    /\ fids[search[s].session] = Sadded(s)
    /\ \A l \in ToSet(search[s].doc) : byfs[l] = Collected(s)[l]
    /\ \A q \in Searches \ {s} : ~Meets(search[s].doc, search[s].session, q)

SrvIInv == /\ SrvTypeOK
           /\ InOrder
           /\ SetHasLines
           /\ RecordsPlaced
           /\ LeftByErrors
           /\ CleanCollects
           /\ AloneAgrees
=============================================================================
