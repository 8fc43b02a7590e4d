------------------------------ MODULE PriceList -----------------------------
(***************************************************************************)
(* The cache of the prices that players ask in their own shops, on top of  *)
(* the SQL connection it uses. The main loop of the DB server handles the  *)
(* packets of the game cores, the results of queries and a timer; the      *)
(* thread of the connection (AsyncSql) executes what it pushes.            *)
(*                                                                         *)
(* The prices of an update are whatever the handler reads: the code adds   *)
(* sizeof(header) to a pointer to a header, so that is not where the       *)
(* packet has them.                                                        *)
(***************************************************************************)
EXTENDS Naturals, Sequences, FiniteSets, SequencesExt

CONSTANTS Owner,         \* players that keep a shop
          Vnum, Price,   \* item kinds and prices
          PriceListMax,  \* SHOP_PRICELIST_MAX_NUM
          Updates,       \* bound: the lists a shop is opened with
          NoList,        \* mark: not cached
          MaxPending,    \* bound: queries and results under way
          Query, Returning, Reply, SemMax, MaxFailures   \* see AsyncSql

Entry == [vnum : Vnum, price : Price]

(* TItemPriceListTable: at most PriceListMax entries.                      *)
PriceLists == UNION {[1..n -> Entry] : n \in 0..PriceListMax}

(* The queries on myshop_pricelist, with the user data of loadForUpdate.   *)
PriceQuery ==
    [op : {"load", "destroy"}, owner : Owner, list : {<<>>}]
    \cup [op : {"loadForUpdate", "save"}, owner : Owner, list : PriceLists]

(* The rows of one owner as MySQL returns them, in any order.              *)
Answers == SetToAllKPermutations(Entry)

VARIABLES query, copy, results, sem, end, loop, count, failures, main,
          cache,      \* m_mapItemPriceListCache: list and m_bNeedQuery
          table,      \* the rows of myshop_pricelist, by owner
          todo,       \* queries of an OnFlush that are still to be pushed
          serving     \* the main loop runs

sqlVars == <<query, copy, results, sem, end, loop, count, failures, main>>
vars == <<sqlVars, cache, table, todo, serving>>

Sql == INSTANCE AsyncSql

ASSUME PriceAssumption ==
    /\ Updates \subseteq PriceLists \ {<<>>} /\ Updates # {}
    /\ PriceListMax \in Nat
    /\ NoList \notin [list : PriceLists, needQuery : BOOLEAN]
    /\ MaxPending \in Nat
    /\ Query = PriceQuery /\ Returning = PriceQuery /\ Reply = Answers
    /\ Sql!SqlAssumption

CacheEntry == [list : PriceLists, needQuery : BOOLEAN] \cup {NoList}

TypeOK ==
    /\ Sql!TypeOK
    /\ cache \in [Owner -> CacheEntry]
    /\ table \in [Owner -> SUBSET Entry]
    /\ todo \in Seq(Query)
    /\ serving \in BOOLEAN

Init ==
    /\ Sql!Init
    /\ cache = [o \in Owner |-> NoList]
    /\ table \in [Owner -> {{}, Range(CHOOSE u \in Updates : TRUE)}]
    /\ todo = <<>>
    /\ serving = TRUE

Cached(o) == cache[o] # NoList

(* The main loop is between two handlers.                                  *)
Ready == serving /\ todo = <<>>

(* Bound: a handler is called while little is under way.                   *)
Room == Len(query) + Len(copy) + Len(results) < MaxPending

-----------------------------------------------------------------------------
(* tmpvec: the first n old prices, but for those of a kind that is new.    *)
Kept(old, new) ==
    LET tmpvec[n \in 0..Len(old)] ==
            IF n = 0 THEN <<>>
            ELSE IF \E i \in DOMAIN new : new[i].vnum = old[n].vnum THEN tmpvec[n - 1]
            ELSE Append(tmpvec[n - 1], old[n])
    IN  tmpvec

(* Mutant: old prices of the same kinds are kept.                          *)
UpdateListTwice(old, new) ==
    LET room == PriceListMax - Len(new)
    IN  new \o SubSeq(old, 1, IF Len(old) < room THEN Len(old) ELSE room)

(* Mutant: all of the old prices of other kinds are kept.                  *)
UpdateListUncapped(old, new) ==
    new \o Kept(old, new)[Len(old)]

(* CItemPriceListTableCache::UpdateList: the new prices in front, then the *)
(* old ones of other kinds, as far as there is room.                       *)
UpdateList(old, new) ==
    LET kept == Kept(old, new)[Len(old)]
        room == PriceListMax - Len(new)
    IN  new \o SubSeq(kept, 1, IF Len(kept) < room THEN Len(kept) ELSE room)

(* MyshopPricelistUpdate                                                   *)
MyshopPricelistUpdate(o, u) ==
    /\ Ready
    /\ Room
    /\ \/ /\ Cached(o)
          /\ cache' = [cache EXCEPT ![o] = [list |-> UpdateList(@.list, u),
                                            needQuery |-> TRUE]]
          /\ UNCHANGED sqlVars
       \/ /\ ~Cached(o)
          /\ Sql!PushQuery([op |-> "loadForUpdate", owner |-> o, list |-> u])
          /\ UNCHANGED cache
    /\ UNCHANGED <<table, todo, serving>>

(* MyshopPricelistRequest of a list that is not cached.                    *)
MyshopPricelistRequest(o) ==
    /\ Ready
    /\ Room
    /\ ~Cached(o)
    /\ Sql!PushQuery([op |-> "load", owner |-> o, list |-> <<>>])
    /\ UNCHANGED <<cache, table, todo, serving>>

(* PutItemPriceListCache: a dirty entry stays dirty.                       *)
PutItemPriceListCache(o, list) ==
    [list |-> list, needQuery |-> Cached(o) /\ cache[o].needQuery]

(* RESULT_PRICELIST_LOAD, or its result is dropped as the peer is gone.    *)
ResultPricelistLoad(o) ==
    /\ Ready
    /\ Sql!PopResult
    /\ Head(results).query.op = "load" /\ Head(results).query.owner = o
    /\ \/ cache' = [cache EXCEPT ![o] = PutItemPriceListCache(o, Head(results).reply)]
       \/ UNCHANGED cache
    /\ UNCHANGED <<table, todo, serving>>

(* RESULT_PRICELIST_LOAD_FOR_UPDATE                                        *)
ResultPricelistLoadForUpdate(o, u) ==
    /\ Ready
    /\ Sql!PopResult
    /\ Head(results).query = [op |-> "loadForUpdate", owner |-> o, list |-> u]
    /\ cache' = [cache EXCEPT ![o] = [list |-> UpdateList(Head(results).reply, u),
                                      needQuery |-> TRUE]]
    /\ UNCHANGED <<table, todo, serving>>

(* The results of a flush have no peer.                                    *)
ResultIgnored ==
    /\ Ready
    /\ Sql!PopResult
    /\ Head(results).query.op \in {"destroy", "save"}
    /\ UNCHANGED <<cache, table, todo, serving>>

-----------------------------------------------------------------------------
(* Mutant: the rows are written without deleting the old ones.             *)
OnFlushAppends(o, list) ==
    [i \in DOMAIN list |-> [op |-> "save", owner |-> o, list |-> <<list[i]>>]]

(* OnFlush: the rows are replaced one query at a time.                     *)
OnFlush(o, list) ==
    <<[op |-> "destroy", owner |-> o, list |-> <<>>]>>
    \o [i \in DOMAIN list |-> [op |-> "save", owner |-> o, list |-> <<list[i]>>]]

(* UpdateItemPriceListCache: the timer of a dirty entry has run out.       *)
UpdateItemPriceListCache(o) ==
    /\ Ready
    /\ Room
    /\ Cached(o) /\ cache[o].needQuery
    /\ todo' = OnFlush(o, cache[o].list)
    /\ cache' = [cache EXCEPT ![o] = NoList]
    /\ UNCHANGED <<sqlVars, table, serving>>

PushTodo ==
    /\ todo # <<>>
    /\ Sql!PushQuery(Head(todo))
    /\ todo' = Tail(todo)
    /\ UNCHANGED <<cache, table, serving>>

(* The end of MainLoop: what is dirty is flushed, entry by entry, and then *)
(* CDBManager::Quit is called. Results are not handled any more.           *)
MainLoopExit ==
    /\ Ready
    /\ serving' = FALSE
    /\ UNCHANGED <<sqlVars, cache, table, todo>>

FinalFlush(o) ==
    /\ ~serving /\ todo = <<>>
    /\ Cached(o)
    /\ todo' = IF cache[o].needQuery THEN OnFlush(o, cache[o].list) ELSE <<>>
    /\ cache' = [cache EXCEPT ![o] = NoList]
    /\ UNCHANGED <<sqlVars, table, serving>>

Quit ==
    /\ ~serving /\ todo = <<>>
    /\ \A o \in Owner : ~Cached(o)
    /\ Sql!Quit
    /\ UNCHANGED <<cache, table, todo, serving>>

-----------------------------------------------------------------------------
(* The thread of the connection                                            *)

(* What a query does to the rows, and the rows a query returns: in no      *)
(* particular order.                                                       *)
Effect(rows, q) ==
    CASE q.op = "destroy" -> [rows EXCEPT ![q.owner] = {}]
      [] q.op = "save"    -> [rows EXCEPT ![q.owner] = @ \cup Range(q.list)]
      [] OTHER            -> rows

Replies(q) ==
    IF q.op \in {"load", "loadForUpdate"} THEN SetToSeqs(table[q.owner]) ELSE {<<>>}

ExecuteQuery ==
    /\ loop = "batch"
    /\ \E reply \in Replies(Head(copy)) : Sql!ExecuteQuery(reply)
    /\ table' = Effect(table, Head(copy))
    /\ UNCHANGED <<cache, todo, serving>>

DrainQuery ==
    /\ loop = "drain" /\ query # <<>>
    /\ \E reply \in Replies(Head(query)) : Sql!DrainQuery(reply)
    /\ table' = Effect(table, Head(query))
    /\ UNCHANGED <<cache, todo, serving>>

ChildLoopOnly ==
    /\ Sql!LoopTop \/ Sql!SemWait \/ Sql!CopyQuery \/ Sql!RetryQuery
       \/ Sql!DrainRetry \/ Sql!DrainEnd
    /\ UNCHANGED <<cache, table, todo, serving>>

ChildLoop == ExecuteQuery \/ DrainQuery \/ ChildLoopOnly

QuitGoesOn ==
    /\ Sql!QuitRelease \/ Sql!QuitJoin
    /\ UNCHANGED <<cache, table, todo, serving>>

Next ==
    \/ \E o \in Owner, u \in Updates :
        \/ MyshopPricelistUpdate(o, u)
        \/ ResultPricelistLoadForUpdate(o, u)
    \/ \E o \in Owner :
        \/ MyshopPricelistRequest(o)
        \/ ResultPricelistLoad(o)
        \/ UpdateItemPriceListCache(o)
        \/ FinalFlush(o)
    \/ ResultIgnored
    \/ PushTodo
    \/ MainLoopExit
    \/ Quit
    \/ QuitGoesOn
    \/ ChildLoop

Spec == Init /\ [][Next]_vars

(* As in AsyncSql, and the main loop ends what it has begun.               *)
FairSpec ==
    /\ Spec
    /\ WF_vars(ChildLoop) /\ WF_vars(QuitGoesOn)
    /\ WF_vars(PushTodo) /\ WF_vars(Quit)
    /\ \A o \in Owner : WF_vars(FinalFlush(o))

-----------------------------------------------------------------------------
(* Properties                                                              *)

(* The contract of the connection and what it rests on (see AsyncSql), for *)
(* the queries that these handlers push.                                   *)
ImplementsQueue == Sql!ImplementsQueue
NoLostWakeUp    == Sql!NoLostWakeUp
BatchCovers     == Sql!BatchCovers
DrainedAtEnd    == Sql!DrainedAtEnd
LeftOversServed == Sql!LeftOversServed
QuitReturns     == Sql!QuitReturns

(* Queries of an earlier batch that will not be executed any more.         *)
Abandoned == loop \in {"drain", "done"} /\ copy # <<>>

(* A load answers with at most the entries that there is room for in the   *)
(* TItemPriceListTable of its handler, which does not count: no order of   *)
(* flushes, each a DELETE and INSERTs of its own, leaves more rows. The    *)
(* exception is a DELETE abandoned at the end whose INSERTs are not.       *)
RowsFit == Abandoned \/ \A o \in Owner : Cardinality(table[o]) <= PriceListMax

(* The rows after the first n queries of a queue.                          *)
Executed(rows, queue) ==
    LET after[n \in 0..Len(queue)] ==
            IF n = 0 THEN rows ELSE Effect(after[n - 1], queue[n])
    IN  after

(* The rows of o as they will be when everything that is pushed or about   *)
(* to be pushed is executed.                                               *)
Rows(o) == LET queue == Sql!Pending \o todo IN Executed(table, queue)[Len(queue)][o]

(* The prices of o that count.                                             *)
Stored(o) == IF Cached(o) THEN Range(cache[o].list) ELSE Rows(o)

(* An update puts its entries in, and removes others only of its own kinds *)
(* or for want of room, of which its kinds take no more than it has        *)
(* entries.                                                                *)
Merged(old, u, list) ==
    LET named(e) == \E i \in DOMAIN u : u[i].vnum = e.vnum
        kept == {e \in old : ~named(e)}
    IN  /\ Range(u) \subseteq Range(list)
        /\ Range(list) \subseteq Range(u) \cup kept
        /\ Cardinality({i \in DOMAIN list : named(list[i])}) = Len(u)
        /\ kept \subseteq Range(list) \/ Len(list) = PriceListMax

(* The queries of a flush of o that have not come back.                    *)
Flushing(o) ==
    \E q \in Range(copy \o query \o todo) \cup {r.query : r \in Range(results)} :
        q.owner = o /\ q.op \in {"destroy", "save"}

(* The result handled now was read before a flush that is under way, or    *)
(* what is cached is not what the table will have: it was updated since,   *)
(* or is itself such a result.                                             *)
Overtaken(o) ==
    /\ results # <<>> /\ results' = Tail(results)
    /\ Flushing(o) \/ (Cached(o) /\ Range(cache[o].list) # Rows(o))

(* Loads, flushes and retries in whatever order change no price, only an   *)
(* update does, and it changes those it names: what the cache forgets is   *)
(* on its way to the table, and a load comes back with it. Three cases are *)
(* excepted: a result that was overtaken sets the list back, what is       *)
(* abandoned is lost, and at the end an entry without changes is dropped.  *)
ListsKept ==
    [][\A o \in Owner :
        \/ Stored(o)' = Stored(o)
        \/ Cached(o)' /\ \E u \in Updates : Merged(Stored(o), u, cache'[o].list)
        \/ Overtaken(o)
        \/ Abandoned'
        \/ ~serving /\ Cached(o) /\ ~cache[o].needQuery]_vars
=============================================================================
