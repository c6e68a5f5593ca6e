# A TLA+ model of biyifei

biyifei is a flight-fare cache: crawlers post fares over HTTP, nginx/Lua
handlers store them in redis, searches are answered from redis, and a set of
stand-alone Lua scripts decides what is crawled next and what is combined. It is
a few hundred lines per script, but the scripts run as many coroutines and
processes over one redis without transactions, and that is where it can go wrong.
Beside them lies a small STOMP client in C. This directory models both in TLA+, checks
them with TLC and proves their central properties with TLAPS.

## 1. Inventory

| Part | Code | State (redis keys, tables) | Operations | What makes it hard | What makes it correct |
|---|---|---|---|---|---|
| Flight-line ids | `ow/receiveprice.lua` 165-207, `rt/receiveprice.lua` 48-94 | `flt:id` (counter), `flt:<line>:id`, `seg:<id>` | GET, INCR, SETNX, GET of the loser, ZADD, HSET | nginx switches coroutines at every command; any command may fail, or its reply be lost | an id belongs to one line and never changes; everyone writes under the line's own id |
| One-way store | `ow/receiveprice.lua` | `ow:<ORG>:<DST>` (index), `pri:ow:<id>` (date -> record) | POST per record, GET per search | first posts of a line race; a failure between two writes; GET reads index and prices apart | a posted fare becomes visible; an answer is consistent with some moment of the search |
| Round-trip store | `rt/receiveprice.lua` | `rt:<ORG>:<DST>` (outbound -> JSON list of returns), `pri:rt:<g>:<b>`, `seg:rt:<line>` | POST, GET | the list is read, extended, written back | no combination is lost, none is listed twice |
| Segment lookup | `rt/getseg.lua` | reads `flt:`, `seg:`, `seg:rt:` | GET | depends on what posts and searches wrote | the segments of the asked line |
| OTA fares | `ow/priceupdate.lua`, `rt/priceupdate.lua` | `ota:<ORG>:<DST>:<source>` (date -> JSON list) | POST | read-modify-write; a fare already listed is refused | one entry per line, none lost |
| Combination queue | `callback.lua`, `http/combinate.lua`, `http/maincall.lua` 51-57 | list `price:comb` | file a search (LEVEL 0/1), append a crawled route, pop and combine | two or three commands per request, interleaved with others and the consumer | an accepted search is filed once and served |
| Crawl scheduler | `agent/10.lua`, started from `agent/00.lua` | sorted set `task:sort`, list `loc:queues` | hand out, rescore, sleep | stale rank; death between two commands | never early, no route twice per expiry, none starved |
| Task queues | `agent/20.lua`, `prigw.lua`, `rt/pridoifl.lua` | list `loc:queues` | BLPOP `num` tasks; LPUSH of a missed search | client time-out against server-side pop | a task is handed to one crawler, or stays |
| Main call loop, launcher | `http/maincall.lua`, `http/main.lua` | the task in hand; the launcher's table | fetch, crawl, file, distribute; resume one coroutine after the other | a task in hand dies with the process; the table is shortened while it is walked | a task is worked on once; which of the scripts are run |
| Price aggregators | `http/pricesrv.lua`, `prido.lua`, `ow/ctripdom.lua` | shared dictionaries, request tables | capture several sources, merge, answer | partial results of different searches | an answer holds its own search's fares |
| Proxy pool, elong agents | `http/proxyqueues.lua`, `agent/01-03.lua`, `http/elong*.lua`, `agent/elongagentprice.lua` | lists and hashes of proxies | fill, take, give back, drop | several processes test and push, and end of an answer they cannot read | the pool keeps its size; agents that wait are served while somebody fills it |
| Availability commands | `http/avhcmd.lua` | the token of the shared account in memcached; the account and its token at the service | ask with the token, apply for one, DEACTIVE and ACTIVE | requests refresh at once and log each other out; calls fail between DEACTIVE and ACTIVE | whatever was left behind, a request by itself repairs it; nobody refreshes a token that works |
| WeChat gateway | `http/wxcmd.lua`, `http/wxitour.lua` | a memcached key per user | messages | nothing but the presence of the key is used | the answer fits the question |
| STOMP over APR | `agent/stomp/stomp.c`, `agent/stomp/ex6.c` | socket, frame being read or written | connect, write a frame, read a frame, disconnect | short sends, short reads, an end of stream anywhere | frames are written and returned whole and in order; reading ends |
| STOMP over cosockets | `agent/resty/rabbitmqstomp.lua` | socket | connect, send, subscribe | does not run (section 7) | |
| Not part of the logic | `biyifeidemo/`, `Java/`, `http/hello-*.lua`, `http/mongodb-stu.lua`, `agent/dictidx.lua`, APR headers | | | | |

How they interact: `00.lua` fills `task:sort`; `10.lua` moves due routes to
`loc:queues`; `main.lua` runs `maincall.lua`, to which `20.lua` hands them and which has
the route crawled
(`elongsrvagent.lua`) and appends it to `price:comb`; crawlers post fares to
`receiveprice.lua` and `priceupdate.lua`; users' searches read them and, through
`callback.lua`, file a search in `price:comb`; `combinate.lua` pops it and asks
the gateway to refresh it. The scripts name several redis hosts and ports; the
model takes one logical redis per key.

`PROJECT.json` lists every component with its status and every hazard with its
line and the properties that cover it.

## 2. Modules

| Module | Models | State and actions |
|---|---|---|
| `IdRegistry` | what the id keys promise | `fltid`; `Register` gives an absent line an unused id |
| `FlightIds` | the id protocol of both `receiveprice.lua` scripts | redis: `counter` (`flt:id`), `fltid`, `seg`; request: `pc`, `line`, `sg`, `held` (`fltid` of the script). One action per redis command: `GetId`, `IncrId`, `SetnxId`, `GetWinner`, `Index`, `StoreSeg`, `Finish`; `Abort` is a command that fails unapplied or a death, `LostReply` a command that redis applied and whose reply the script never got |
| `OwStore` | POST and GET of `ow/receiveprice.lua` over `FlightIds` | adds `owidx`, `pri`, the date of a POST and the locals of a GET; every step is a `FlightIds` step (or leaves its variables alone) together with what it does to index and prices |
| `Redis` | what the models of components that keep lists share | the constants `Faults` and `None` |
| `CombQueue` | `callback.lua`, the push of `maincall.lua`, `combinate.lua` | `queue` (`price:comb`), `req` (per request: next command, search, LEVEL), `cpc`, `carg` |
| `TaskSort` | `agent/10.lua` | `score` (`task:sort`), `min`, `due`, `argidx` (the script's locals), `clock` |
| `RtStore` | POST and GET of `rt/receiveprice.lua` and `rt/getseg.lua` over `FlightIds` | `rtlist` (`rt:<ORG>:<DST>`), `prirt`, `segrt`, and a record of locals per POST (`post`), GET (`get`) and lookup (`look`); an id in a list knows whether it is a number or a string |
| `OtaPrices` | the POST of both `priceupdate.lua` scripts | `ota` (one field of `ota:<ORG>:<DST>:<source>`), per POST its next command, fare and the list read |
| `CrawlTasks` | `loc:queues`: the pushes of `10.lua`, `prigw.lua` and `pridoifl.lua`, the BLPOP loop of `20.lua`, the loop of `maincall.lua`, the launcher `main.lua` that runs it; `proxy:work`: `elongsrvagent.lua` takes, `proxyqueues.lua` fills | `queue`, `req` (the request of `20.lua` per client: step, tasks popped, number asked for), `ghosts` (BLPOPs abandoned by a time-out that redis has not noticed), `boot` (a `main.lua`: its list of coroutines, its index, and as history the scripts resumed), `main`, `arg` (next step and task of the `maincall.lua` it runs), `comb`, `taken`, `lost` (where tasks end), `pool`, `filler`. `Schedule`, `Miss`; `Fetch`/`AskMany`, `Blpop`, `TimesOut`, `GhostPop`, `GhostGone`, `Answer`/`AnswerMany`, `NoAnswer`; `TakeProxy`, `AgentEnds`, `AgentDies`, `Push`, `Distribute`, `Dies`; `Launch`, `NextThread`; `Llen`, `Buy`, `BuyNothing`, `BuyUnread` (an answer without a colon ends the script), `Rpush`, `FillerDies` |
| `PriceSrv` | the domestic search of `pricesrv.lua`, and as the operator `LocalAnswer` the same in `prido.lua` and `ctripdom.lua` | `byfs` (the shared dictionary: bunks, prices and segments per line), `fids` (`fid:<session>`), `search` (document, next record, entries taken). `Begin`; `Sadd`, `Expire`, `Hget` per record, `Smembers` for the answer; `Fails`, `Expires` |
| `AvhToken` | the token of `avhcmd.lua` and the service that issues it | service: `active` (is the account logged in), `live` (its token), `issued`; memcached: `cache`; per request `pc`, `tok`, `answer`, and the histories `seen`, `alone`, `cut`. One action per call: `GetCache`, `Query`, `Apply`, `Deactive`, `Activate`, `Reapply`, `Set`, `Requery`; `GetCacheFails`, `DeactiveRefused` (ACTIVE is sent all the same), `SetFails`, `Fails` (a call that fails, applied or not, or a death), `Expire` |
| `FrameChannel` | what `stomp_read` promises | `sent`, `got`: frames returned are those sent, whole, in order (`Receive`), up to the first `Ambiguous` one, that can be taken for a shorter frame (`Misread`) |
| `Stomp` | `stomp.c` under its program `ex6.c`, and a broker | client: `step` (operation of `main`), `at` (where in it), `why`; `out`, `up` (written and sent), `down`, `pending` (under way and not), `line`, `cur`, `got` (the frame being read, the frames returned). One action per `apr_socket_send` or `apr_socket_recv`; `Arrive` delivers any part of what the broker sent, `Close` ends or resets the connection anywhere |
| `FlightIds_proof`, `OwStore_proof`, `RtStore_proof`, `TaskSort_proof`, `CrawlTasks_proof`, `AvhToken_proof`, `Stomp_proof` | the theorems about the module of that name (section 5) | |
| `Lists_proof` | the theorems about `OtaPrices`, `CombQueue` and `PriceSrv`, which share lemmas about lists and about counting places in them | |

A `POST` handles its records one after the other and stops at the first failure,
so a request slot handles one record at a time. `OwStore` keeps the records'
content down to the line they belong to, which is what the properties tell apart.
`PriceSrv` makes one step of everything between two redis commands, the whole loop
over the answer's lines included: `http/nginx.conf` runs one worker, and only redis
commands let another search in. A fare record is there the pair of search and
position it came from, so that a record answered twice or to a stranger is seen. `LocalAnswer` leaves out that
`prido.lua` and `ctripdom.lua` print `error002` for a document without records, where
`pricesrv.lua` prints an empty table: a difference of wording only. In `Stomp` a command, a header
line and a content length are one symbol each, since the reader takes them apart only to
look for a colon (a stretch of a body may be such a symbol too, for a reader that has lost its
place); NUL, NL and the bytes of a body are symbols of their own, so that every
place where a frame can be cut is there.
Operators whose comment begins with *Mutant* are altered versions of the definition
below them. No specification uses them: with one of them in the place of the
definition, the property it was written for fails.

## 3. Runs

| Run | Question | Bounds |
|---|---|---|
| `ow_post` | ids unique, own, closed; refinement of `IdRegistry`; prices under the owner; index complete or explained, loss final; the inductive invariants of both proofs | 2 one-way and 1 round-trip post, 2 lines, 2 segment lists, 3 counter values, 1 date, failures |
| `ow_serve` | a search's answer lies between two moments; a posted fare becomes visible | 2 posts, 1 search, 2 lines, 4 counter values, 1 date, no failures |
| `rt` | combinations under their owners, no return listed more than twice, settled returns stay; the search answers all that was there, the lookup only its own lines | 2 posts, one outbound and two return lines, 3 counter values, 1 segment list; in one half failures, in the other 1 search and 1 lookup (`readers`) |
| `ota` | one fare per line, settled fares stay | 3 posts, 3 lines, 2 prices, failures |
| `comb` | duplicates bounded; an accepted search stays; a filed search is served | 3 requests, 1 search and 1 appended route, LEVEL 0, 1, 2, failures, 1 leaked copy |
| `crawl` | a task is in one place at a time; the proxy pool overshoots by the number of fillers less one at most; no task is held up for ever while proxies are bought; `main.lua` runs every second script | 1 `main.lua`, 1 crawler that asks for 2 tasks, failures; in one half 2 tasks of which one comes from a search and 2 fillers of a pool of 3, in the other no tasks and 3 fillers (`busy`) |
| `crawl_idle` | violation: `maincall.lua` dies of an empty task list | 1 `main.lua`, 1 task, 1 filler, no failures |
| `prices` | a search that meets no other answers what `prido.lua` answers; each record is in one place; leftovers come from errors | 3 searches once each, 2 lines, documents `<<l1, l1>>`, `<<l1, l2>>` and `<<l2>>`, 2 sessions, failures |
| `task_sort` | never early, one entry per expiry, fair rotation, every route handed out | 3 routes, starting scores as `SomeScores`, score up to 12, 2 restarts |
| `avh` | a lone request repairs; logged out only between DEACTIVE and ACTIVE; a working token is not refreshed | 3 requests, 4 tokens, failures and expiry at any time |
| `stomp` | writes are whole; `stomp_read` implements `FrameChannel`; plain frames are never refused; the session ends (both up to a body that can be cut) | `ex6.c`'s session, 2 answers out of 5 (plain, plain with a body, a binary body with a NUL, an empty body with a length, a binary body with NUL LF), cut and closed anywhere |
| `stomp_cut` | violation: a frame is not returned whole when its body has a content length and holds NUL LF | as `stomp` |

Why the bounds are enough. The races are between the requests that see a key
absent; two of them and a third of the other script contain every order of INCR,
SETNX and the loser's GET, with a second line for a foreign id to go to. `MaxId`
stops `INCR` when the values are used up: with three posts it lets each of them
take one, and abandoned values are met after an `Abort`. A second round-trip post
for the same outbound line is what overwrites a list; the second return line makes
the loss visible. In `CombQueue` the list
never grows beyond the copies the requests can leave plus `MaxRaw` appended
routes. In `CrawlTasks` the overshoot of the pool needs two fillers; with
three it reaches 5, which gives `main.lua` three coroutines, and when the first is over it
skips the second and starts the third. The tasks do not need the third filler, and
the launcher no task, so the run takes them apart (`busy`) to stay small. Filler deaths
bring about an empty pool that stays empty. The batch of two
tasks is what a time-out between two BLPOPs cuts; each task is pushed once, so that
its way can be followed. `rt` is in two halves for the same reason: failures of posts
and the reads of a search do not need each other, and `RtStore_proof` has them together. In `PriceSrv` one search takes a part of another's line, and a
third meets what the two left; a document with a line twice shows how prices of
a line accumulate, one with two lines how an answer breaks off between them, and
one with the second line only lets a search be met through a line that is not in
its own document.

In `AvhToken` two requests suffice for one to log out the other's token; the third finds
what they left, by itself or in time to join. Four tokens let each of three requests be
granted one and one more expire. `ex6.c` reads twice, so two frames are all it can take,
and the second shows whether something of the first was left; four of the broker's
frames are one for each way the reader goes (headers or none, a body that a NUL ends, one that
holds a NUL, and the length 0), and the fifth, `x NUL NL x NL NL`, is the shortest kind whose
rest, after a cut, itself runs into an empty line. `MaxLeaks` and `MaxTokens` stop the actions that would
exceed them; a request that has no token left to be given still may fail.

`TaskSort`'s scores double, so it stops at `MaxScore`, which lets
the lowest score double three times; that and its death on an empty range are why
its run switches deadlock checking off. So does `prices`, where each search runs once
and then nothing is left to do. `crawl_idle` may stop too, when its one filler ends. In every other run deadlock is checked.

## 4. Fairness

`OwFairSpec`: weak fairness of each request's next command: nginx resumes a
coroutine when its reply arrives, redis answers, and the socket time-out turns
silence into a failure (which those runs leave out). `CombQueue!CombFairSpec`: the same
for requests, and weak fairness of `combinate.lua`'s loop, one process whose HTTP
calls return or time out; failures may come at any time, and `FiledIsServed` asks
something only of behaviours in which LEVEL 1 requests, which push at the head, end
at some point. `TaskSort!FairSpec`: the loop, one process that waits for
nothing but redis and its own sleep, unless it is dead for good.

`CrawlTasks!FairSpec`: weak fairness of a request's BLPOP (it is served or times out),
and of the next step of every `maincall.lua`, crawler with an answer, and filler, as long as
it lives: they are loops without a wait that does not end. Four steps are strongly fair, because another
process may take their turn again and again, and these are assumptions about the
surroundings: a BLPOP gets a task at some point although tasks come and go, an answer
gets through at some point although requests may fail, an agent that waits for a
proxy gets one although others take them, and a filler that asks the seller again and again
is sold a working proxy at some point. Deaths are not restricted. A filler may end at any
moment, without any failure too, by an answer that it cannot read (`BuyUnread`), and nothing
starts it again; so `TasksGoThrough` does not promise that a task is done. It says what alone
can hold one up for ever: every `maincall.lua` is gone (only an operator starts `main.lua`
again), or waits with its agent for a proxy while the pool is empty and no filler lives
(`Drained`).

`Stomp!FairSpec`: the client is scheduled, and what the broker has sent arrives (TCP
delivers or breaks, which is `Close`). The broker itself owes nothing: `SessionEnds`
starts from an answer for each read, or from the end of the connection, and asks nothing
once the rest of a cut body may have been read as a frame (`Misread`): that rest could announce any
content length.

`RtStore`, `OtaPrices`, `PriceSrv` and `AvhToken` are checked for safety only. No new request is
ever assumed.

## 5. What is proved

`FlightIds_proof` proves for every set of posts, lines and segment lists and every
`MaxId` in `Nat`, from the named assumptions of `FlightIds`:

* `TypeCorrect`, `Inductive`: `TypeOK` and the invariant `IInv`;
* `IdsUnique`, `WritesOwnId`, `SegmentsOwned`: the three safety invariants;
* `ImplementsRegistry`: `Spec => Registry!Spec`;
* `AllocationClosesForGood`: the action property `AllocationCloses`.

Uniqueness is not inductive: a SETNX may write any value a request holds. `IInv`
adds that such a value lies below the counter, is no line's id and is held by no
other request on its way to SETNX (`Pending`), that all ids are below the counter
(`Below`), so that INCR makes a new one, and that a loser's line has an id
(`LoserHasWinner`), so that its GET finds one. Each action then disturbs few
conjuncts: SETNX the keys (`SetnxEffect`, `SetnxKeeps`), HSET the segments
(`SegKeeps`), the rest only locals. The refinement maps a won SETNX to `Register`
and every other step to a stutter.

`OwStore_proof` carries this over to the one-way store. `OwImplementsIds`
(`OwSpec => Spec`) makes every theorem above hold of it. `OwIInv` adds the types of
index and prices, their ownership, and for each line with an id why it is or is not
in the index; `OwPricesOwned`, `OwIndexedOrExplained` and `OwLossIsFinal` follow. The
one hard step is a won SETNX (`SettleExplains`): it creates an id whose line must be
explained by the request that is about to send ZADD, or by its being a round-trip post.
`OwAnswerBracketed` is about the search, which reads the index and then one price after
the other while posts go on. Its invariant (`GetOK` in `SearchInv`) says that a line the
search saw when it began is among those it found or among the ids it still has to read,
that these two never meet, and that all it found is visible; it holds because what is
visible stays so (`VisibleStays`): ids do not change, nothing leaves the index, and a
price is only overwritten by a price.

`RtStore_proof` proves all five safety properties of the round-trip store for any number
of posts, searches and lookups. `RtImplementsIds` makes the store an implementation of
`FlightIds`, so a line keeps its id (`KeepsIds`); as a line with a price has an id, and no
two lines share one, the key under which a price stands is that of the same two lines for
good. On that rest `RtCombosOwned` and `RtListedTwiceAtMost` (a list holds no entry twice,
and an id has two forms), `RtLookupIsOwn` (a lookup holds ids of its own lines) and
`RtReturnsSettle` (a list written by a post contains what the post read, and what is
settled was read by all who are about to write). For `RtAnswerComplete` the invariant
follows a search through its two loops: what is due is shown, in hand, or ahead.

`Lists_proof` is about the three components that keep lists.

* `OtaPrices`, for any number of posts: a list never has two fares of a line
  (`OneFare`), and settled fares stay (`SettledFaresStay`). The invariant `OtaIInv` has
  to speak of the lists the posts hold: each is unique and lacks the line it is to get.
* `CombQueue`, for any number of requests and searches: duplicates stay bounded
  (`FewCopies`), and an accepted search is kept (`AcceptedIsKept`). What LREM, LINSERT
  and the pushes do to the copies of a search is stated once per command, as a
  one-to-one map between the places of the list before and after it; the model
  describes LREM 0 by the places it keeps, so that a list of any length can be
  reasoned about. `CombIInv` adds what the bound does not say by itself: a
  request that is still *fresh* is the only one for its search, and so is one for a search
  that is due (`FreshIsAlone`, `DueIsAlone`); and when LREM 1 is about to take a copy
  of a search that is due, there are two (`Doubled`). That last conjunct is the
  hazard: LINSERT adds a copy, the consumer may pop one before LREM takes one out, and
  only the pop's clearing of `fresh` and `due` keeps the claim true.
* `PriceSrv`, for any number of searches, documents of any length and any order of the lines in
  an answer: `AloneIsLocal`, `RecordsKept`, `OnlyErrorsLeave`. `SrvIInv` adds
  where the two parts of each record are at each moment (`RecordsPlaced`: nowhere, or in
  exactly one place of one list, in the dictionary or with one search), that the set of a
  session has the lines its search has come to (`SetHasLines`), and that a clean search has
  in the dictionary what the table of the later scripts would hold after as many records
  (`CleanCollects`). Every step then moves places along a one-to-one map.

The attempt to prove `AloneAgrees` found it false as first stated. It called a search clean
when no other search with a line of its document ran meanwhile; but a search with the
same session (the MD5 of a millisecond and a URI) that failed earlier leaves its lines in
`fid:<session>`, and through them the answer takes lines that are not in the document.
With the document `<<l2>>` added to the run TLC shows it. The history variable `clean`
now takes this in (`Reach`: the lines of a search and those left in its set).

`TaskSort_proof` proves the three safety properties of the scheduler for every number of
routes and every restart. `TInv` says that the routes in hand all have the least score, which
is what the script calls `min`, that the entries of a route not yet rescored are those the
deaths account for and that of the route in hand, and that the sleep ended no earlier
than the next route was due. `SortNoneFallsBehind` says that the score of a route that has
been handed out is at most twice the least one. All of it rests on positive starting scores
(`ScoresAreBounded`). The script finds its routes by rank: that N routes take all the
N ranks, the route of rank 0 being one with the least score, is a pigeonhole argument
over finite sets (`RanksAreTaken`).

`CrawlTasks_proof`: `TaskInOnePlace` for any number of clients, callers and tasks, since
every step moves each task along a map of the places it can be in (queue, request, ghost,
caller, end). `PoolOvershoot`: the pool and the fillers at work together are at most the
pool's size plus the fillers less one. `SkipsEverySecond`: behind its index, the launcher's
list is the original one shifted by as many as have been removed.

`AvhToken_proof`: any number of requests and tokens. `IInv` says that every token held
anywhere has been issued (`Numbered`), so that a new one is not confused with an old
one, that a request that asks holds the token it found (`InHand`), and how far a request that
met no other has come at each of its steps towards a token that works (`Repaired`).
`RepairsAlone`, `LogsInAgain` and `KeepsWorkingToken` follow.

`Stomp_proof`: any frames, any number of them, any cut. `StompWritesWhole` and
`StompRefusesNoPlain` are the two safety invariants, `StompImplementsChannel`
(`Spec => ChannelSpec`) the refinement: a reply of the broker is a `Send` of `FrameChannel`, the
return of `stomp_read` its `Receive`, all else a stutter. The assumption `RepliesAreFrames` says
no more than that a frame is well formed: a body without a content length ends at its first NUL,
one with it may hold anything. Such a body may hold a NUL and a line feed
(`HoldsEnd`), and `stomp_read` may then return a shorter frame. So the promise of `FrameChannel`, and
with it `ChannelSpec` and `PlainIsNeverRefused`, reaches to the first of these; what comes from there
on is `Misread`. The invariant has the same two parts: `Base` (types and what is written) always holds,
`Follows` as long as the reader has met no such frame (`Clear`).
`IInv` says four things.

* What has been written and the buffers left make up the frames of `main` up to the present
  one (`Writes`), so a short send only moves symbols from one to the other (`SendMoves`).
* What has been returned is the beginning of what was sent (`Returned`).
* What the client has before it is the stretch of the broker's stream that follows what it
  has received (`Fed`). It is cut short by a close, never shifted.
* The reader is at a place of the next frame (`AtPlace`): `line` and `cur` hold what the
  symbols up to that place say, no more and no less (`InStep`).

`Wire` gives the layout of a frame, and `NextSymbol` the symbol after each place, so that
each step of `stomp_read` is a step to the next place (`Moves`) or an error. Three steps need
more. A header line is told from the empty one because it is not a line feed
(`ReplyLines`). A body without a length ends at the first NUL, which is the one after it. And
the two symbols after a short read of a body with a length are a NUL and a line feed only at
its end (`TailIsTheEnd`), so that a short read is refused and never taken for a frame; here
`Clear` is used, and without it that is false (`stomp_cut`).

The invariants of these proofs were model-checked on the instances of section 3 before
they were proved; `OwIInv` has stayed one of the properties of `ow_post`.

Only model-checked is liveness (`PostedBecomesVisible`, `FiledIsServed`, `EveryRouteRuns`,
`TasksGoThrough`, `SessionEnds`): reasoning under fairness is out of the prover's reach.

The library's induction theorems take a predicate as a parameter, which the installed provers
cannot instantiate. Where an argument needs induction, over the places of a list or the
records of a document, the proof takes the least counterexample instead: the set of numbers at
which the statement fails is empty, or has a least element (`LeastOf`, from the
well-foundedness of `<` on `Nat`), and the step below it gives the contradiction.

## 6. Observations

* `callback.lua:62`: LINSERT answers 0 when the list does not exist, not -1. A LEVEL 0 search
  posted then takes the branch of a filed one: LREM finds nothing, HTTP_OK is answered, and
  nothing is filed. With LEVEL 0 clients only, the list never receives its first search.
  `KeepsAccepted` leaves such requests out (`noList`).
* A line whose id was given out by a round-trip post, or whose first one-way post broke
  off before the ZADD, is never shown by one-way searches: later posts take the branch
  that stores only the price (`IndexedOrExplained`, `LossIsFinal`).
* Two requests for the same search may remove each other's copy: an accepted search is
  kept (`KeepsAccepted`) only if no request for the same search overlaps or fails. When
  the LINSERT fails, the LREM that follows takes an earlier copy and HTTP_OK is answered.
* `rt/receiveprice.lua:233-249`: the list of returns may hold one id as a number and as a
  string (from the loser's GET); the fare is then answered twice (`ListedTwiceAtMost`).
* `rt/receiveprice.lua`: when the return line's `getfid` fails, the unextended list is
  written back (over what others added meanwhile) before the handler raises.
* `priceupdate.lua`: the POST of a line already listed is answered with `error002(result)`, a
  result code 2 with the new fare in it, and the fare is dropped: prices are not updated.
* `receiveprice.lua` sets the redis time-out to 3000 ms; the comment next to it says 1 sec.
* `10.lua` reads the rank before it doubles the scores. It never hands a route out early
  (`NeverEarly`), but it may sleep past one.
* The ZADD loop of `00.lua` is commented out (lines 88-95), so `task:sort` has to be filled
  by other means; `TaskSort` starts with any positive scores. The expression of line 84 can
  be 0 or less, and doubling such a score does not move it up: its route would be due
  for ever. Nothing is checked or proved of that.

* `20.lua:60` answers an empty list with `error002` and status 200. `maincall.lua:45`
  tests the status only and indexes `taskQueues`, which is not there: the script ends where
  its comment (line 65) says it sleeps (run `crawl_idle`).
* `prigw.lua` and `pridoifl.lua` push `1/<org>/<dst>/<date>/`. `elongsrvagent.lua` reads that
  as a route from `1`, knows no such city and dies; the search is then filed all the same.
* The agents never put a proxy back; `proxyqueues.lua` alone keeps the pool filled.
* `proxyqueues.lua:46-47` takes an answer with status 200 for a proxy. Without a colon in it, as when
  nothing was sold, `index` is nil and the script ends; an error of redis ends it too. With no such
  script left, the agents wait in BLPOP without a time-out (`elongsrvagent.lua:91`), and every
  `maincall.lua` with them (`TasksGoThrough`).
* Two searches of `pricesrv.lua` with a line in common take each other's parts, and the
  second to take raises; what an error leaves in the shared dictionary has no expiry
  and is answered to the next search of the line (`LeftByErrors`). A failed search also leaves
  its lines in `fid:<session>`, and the next search of that session answers them. The fare of elong is
  attached to a line's first price only.
* `getflt.lua` reads `seg:<id>` with GET and `rt:` with ZRANGE; the scripts of `ow/` and `rt/`
  store hashes there.
* `main.lua`: its coroutines run `os.execute` to the end one after another; its loop removes
  from the table it walks, which skips every second one (`EverySecondScript`), and with
  more than one ends in a resume of nil.
* `elongsrvagent.lua` sends HDEL before HSET: between them the fares of a route are gone.
* `avhcmd.lua` tests `resultcode2` and `body2`, which nothing sets, after a token refresh: the
  answer is that of `/data-avh/` even when the query succeeded.
* `avhcmd.lua:130-131` sends ACTIVE whatever became of DEACTIVE (`DeactiveRefused`).
* Concurrent refreshes of `avhcmd.lua` may log each other's tokens out for as long as they
  overlap; no request refreshes again when the token it was just given is dead.
* `stomp.c:98-103` says its wrappers read and write their buffers fully. The write does; a
  read with a content length is one `apr_socket_recv`, so a frame whose body arrives in two
  pieces is refused (`PlainIsNeverRefused` names the exception). A content length of 0 may be
  refused too: a `recv` of no bytes looks like the end of the stream.
* A body with a content length that holds a NUL and a line feed is returned cut short when the one
  `recv` of it ends just before them: `stomp.c:422` takes them for the end of the frame, and what
  is left of the body is read as the next one (run `stomp_cut`).
* `stomp_read` leaves `body_length` 0 on a frame without a content length; writing such a frame
  again would drop its body. A body with a content length is not NUL-terminated, and `ex6.c`
  prints it as a string.
* `stomp_disconnect` dereferences its argument before the test for NULL, and the result of
  the shutdown is overwritten by that of the close.
* The byte that should follow the NUL of a plain body is compared even if it was not read
  (`stomp.c:237`): at the end of the stream an uninitialized byte decides.

## 7. Not modelled

XML and JSON layout, URL building and logging are abstracted everywhere. Left out:

* `http/wxcmd.lua`, `http/wxitour.lua`: a memcached key per user, tested for its presence and
  never removed; the rest parses a message and words an answer. (Messages with a byte from
  0x80 on are refused, although the menu asks for city names in Chinese.)
* `agent/resty/rabbitmqstomp.lua`: `_receive_frame` is commented out (lines 104-114) while
  `_login` calls it, so every connect raises; there is nothing beyond that to model.
* `getflt.lua`: reads keys of other components, with commands of another type than those
  they are written with.
* `agent/00.lua`: computes expiry scores, but the loop that would store them is commented out.
* The fares `elongsrvagent.lua` stores, and their reader in `pricesrv.lua`; the international
  branch of `pricesrv.lua`.
* `agent/01.lua`-`03.lua`, `http/elong.lua`, `http/elongidx.lua`, `http/hello-*.lua`,
  `http/mongodb-stu.lua`, `biyifeidemo/`: trials, tutorials and generated code.
* The `apr_*.h` and `apu_*.h` files in `agent/stomp/`: headers of the Apache Portable Runtime
  copied beside the client, declarations without logic of this system. Of their contracts
  `Stomp` uses that of `apr_socket_send` and `apr_socket_recv` (`apr_network_io.h`). They make
  up nearly all lines of C in the repository; its own C code is `stomp.c`, `stomp.h`
  and `ex6.c`.
* Compositions across components: `TaskSort` hands its routes to `CrawlTasks`, which hands them
  to `CombQueue`; each is modelled with the others as its environment.
