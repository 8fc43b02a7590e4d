------------------------------ MODULE ItemCache ------------------------------
(***************************************************************************)
(* The write-behind item cache of the DB server.  The game core sends each *)
(* change of an item at once; the DB server keeps it in m_map_itemCache and*)
(* writes it to the SQL table item later, when its timer, the logout of its*)
(* owner or the shutdown of the server says so.  A player who logs in is   *)
(* served from the item cache set of the player if there is one, and from  *)
(* SQL if not.  SQL queries run in another thread: the main loop queues a  *)
(* query and handles its result in some later turn.                        *)
(*                                                                         *)
(* One game core; one character per account, so that the account that owns *)
(* a safebox has the name of its player.  The core and the DB server talk  *)
(* over one TCP connection, so a packet is handled in the step that sends  *)
(* it: nothing else reaches the handlers' state between the two.           *)
(*                                                                         *)
(* Operators named after a fault (ApplySoftDelete, SetsKeptByOldOwner, ...)*)
(* are the mutants that show which fault each property would catch; no     *)
(* action uses them.                                                       *)
(***************************************************************************)
EXTENDS Integers, Sequences, FiniteSets, SequencesExt

CONSTANTS
    Item, Player, Data,
    NoRow, Loose, Offline,  \* see ItemStore
    NoEntry,                \* the item is not in m_map_itemCache
    NoSet,                  \* the player has no item cache set
    NoOwner,                \* m_dwLastOwnerPID == 0
    Faults,                 \* the faults that may happen, see AllFaults
    MaxQuery                \* bound of the model: queries, results under way

AllFaults == {
    "early_crash",  \* a core crashes when a player's items are saved, not yet he
    "early_give",   \* a character gets an item before its items are loaded
    "select_twice", \* a client selects its character a second time
    "flush_online", \* QUERY_FLUSH_CACHE of a player who plays
    "slow_flush",   \* an item is not flushed before its old owner is evicted
    "reorder" }     \* the two SQL connections do not keep a common order

\* TPlayerItem
Row == [owner : Player, window : {"INVENTORY", "SAFEBOX"}, data : Data]

\* CItemCache; deleted stands for m_data.vnum == 0.
Entry == [row : Row, deleted : BOOLEAN, m_bNeedQuery : BOOLEAN]

ASSUME MarkAssumption ==
    /\ {NoRow, Loose, Offline} \cap Row = {} /\ NoEntry \notin Entry
    /\ Loose # Offline /\ NoOwner \notin Player
    /\ \A items \in SUBSET Item : items # NoSet

ASSUME FaultAssumption == Faults \subseteq AllFaults /\ MaxQuery \in Nat
ASSUME FiniteAssumption == IsFiniteSet(Item)

VARIABLES
    db,         \* the DB server: "up"; "ending" until its queries are executed
    phase,      \* of each client, see Phase
    view,       \* what the game core has of each item
    lastOwner,  \* CItem::m_dwLastOwnerPID
    box,        \* the safebox of each player: "closed", "opening", "open"
    play,       \* players whose CLoginData::IsPlay() holds
    cache,      \* m_map_itemCache
    set,        \* m_map_pkItemCacheSetPtr
    playerCache,\* players in m_map_playerCache
    logout,     \* players in m_map_logout
    sql,        \* queries of the main connection, queued
    results,    \* results of the main connection, not yet handled
    async,      \* items with a DELETE queued on the asynchronous connection
    table       \* the SQL table item

gameVars == <<phase, view, lastOwner, box>>
cacheVars == <<cache, set>>
playerVars == <<play, playerCache, logout>>
sqlVars == <<sql, results, async, table>>
vars == <<db, phase, view, lastOwner, box, play, cache, set, playerCache,
          logout, sql, results, async, table>>

-----------------------------------------------------------------------------
(* Rows, cache entries, queries.                                           *)

\* The client is not connected; logs in; selects a character; has asked for it;
\* its character is made; its items are loaded.
Phase == {"off", "login", "select", "asked", "spawned", "game"}

Inventory(p, d) == [owner |-> p, window |-> "INVENTORY", data |-> d]
Safebox(p, d) == [owner |-> p, window |-> "SAFEBOX", data |-> d]

Cached(i) == cache[i] # NoEntry
NeedQuery(i) == Cached(i) /\ cache[i].m_bNeedQuery

Replace(i, row) == [op |-> "REPLACE", id |-> i, row |-> row]
Delete(i) == [op |-> "DELETE", id |-> i]
Select(op, p) == [op |-> op, pid |-> p, live |-> TRUE]

SelectOp == {"LOGIN", "PLAYER", "ITEM", "BOX", "BOXITEM"}

\* A query of a peer that is gone: its result is dropped.
Void == [op |-> "VOID"]

Query == [op : {"REPLACE"}, id : Item, row : Row]
             \cup [op : {"DELETE"}, id : Item]
             \cup [op : SelectOp, pid : Player, live : BOOLEAN] \cup {Void}

Rows == UNION { [ids -> Row] : ids \in SUBSET Item }
Result == [op : SelectOp, pid : Player, live : BOOLEAN, rows : Rows]
              \cup {Void}

\* Queries or results once their peer is gone.
Voided(queue) ==
    [n \in DOMAIN queue |-> IF queue[n].op \in SelectOp THEN Void ELSE queue[n]]

\* Queries or results once the descriptor of p is gone: the DB server handles
\* them, and the game core does not find their handle.
Unhandled(queue, p) ==
    [n \in DOMAIN queue |-> IF queue[n].op \in SelectOp /\ queue[n].pid = p
                            THEN [queue[n] EXCEPT !.live = FALSE] ELSE queue[n]]

\* The rows a SELECT brings, as a function from their ids.
RowsOf(tbl, p, window) ==
    LET ids == { i \in Item : tbl[i] # NoRow
                              /\ tbl[i].owner = p /\ tbl[i].window = window }
    IN  [i \in ids |-> tbl[i]]

\* CItemCache::OnFlush
OnFlush(i) ==
    IF cache[i].deleted THEN Delete(i) ELSE Replace(i, cache[i].row)

\* Flush, for each of some items: the queries, in the order of the pointers.
FlushQueries(items) ==
    LET dirty == { i \in items : NeedQuery(i) }
    IN  { [n \in DOMAIN s |-> OnFlush(s[n])] : s \in SetToSeqs(dirty) }

Flushed(items) ==
    [i \in Item |-> IF i \in items /\ Cached(i)
                    THEN [cache[i] EXCEPT !.m_bNeedQuery = FALSE] ELSE cache[i]]

\* What a query does to the table.
ApplySoftDelete(tbl, q) ==
    IF q.op = "REPLACE" THEN [tbl EXCEPT ![q.id] = q.row]
    ELSE IF q.op = "DELETE" THEN [tbl EXCEPT ![q.id] = Loose] ELSE tbl
Apply(tbl, q) ==
    IF q.op = "REPLACE" THEN [tbl EXCEPT ![q.id] = q.row]
    ELSE IF q.op = "DELETE" THEN [tbl EXCEPT ![q.id] = NoRow] ELSE tbl

\* The table after the first n queries of a queue, for every n.
Executed(tbl, queue) ==
    LET t[n \in 0..Len(queue)] ==
            IF n = 0 THEN tbl ELSE Apply(t[n - 1], queue[n])
    IN  t

\* The row of an item once the queries under way are executed.
Written(i) == Executed(table, sql)[Len(sql)][i]

Room == Len(sql) + Len(results) < MaxQuery

Send(queries) == sql' = sql \o queries

-----------------------------------------------------------------------------
(* PutItemCache, for each of some rows (their ids are the domain of rows), *)
(* when the sets are those of sets.                                        *)

HasSet(sets, p) == sets[p] # NoSet

\* A row that is loaded (bSkipQuery) needs no query, but does not take away a
\* query the entry needed already.
PutEntry(sets, i, row, bSkipQuery) ==
    [row |-> row, deleted |-> FALSE,
     m_bNeedQuery |-> /\ HasSet(sets, row.owner)
                      /\ (~bSkipQuery \/ NeedQuery(i))]

Put(sets, rows, bSkipQuery) ==
    [i \in Item |-> IF i \in DOMAIN rows
                    THEN PutEntry(sets, i, rows[i], bSkipQuery) ELSE cache[i]]

SetsKeptByOldOwner(sets, rows) ==
    [p \in Player |->
        IF ~HasSet(sets, p) THEN NoSet
        ELSE sets[p] \cup { i \in DOMAIN rows : rows[i].owner = p }]
SetsWithoutCached(sets, rows) ==
    [p \in Player |->
        IF ~HasSet(sets, p) THEN NoSet
        ELSE { i \in sets[p] : i \notin DOMAIN rows \/ rows[i].owner = p }
             \cup { i \in DOMAIN rows : rows[i].owner = p /\ ~Cached(i) }]

\* The item leaves the set of its old owner and enters that of its new one.
PutInSets(sets, rows) ==
    [p \in Player |->
        IF ~HasSet(sets, p) THEN NoSet
        ELSE { i \in sets[p] : ~(/\ i \in DOMAIN rows /\ Cached(i)
                                 /\ cache[i].row.owner = p
                                 /\ rows[i].owner # p) }
             \cup { i \in DOMAIN rows : rows[i].owner = p }]

\* An owner without a set: "direct save".
DirectSave(sets, i, row) ==
    IF HasSet(sets, row.owner) THEN <<>> ELSE <<Replace(i, row)>>

\* CreateItemCacheSet
WithSet(p) == IF HasSet(set, p) THEN set ELSE [set EXCEPT ![p] = {}]

\* FlushItemCacheSet, with the queries it sends.
FlushItemCacheSet(p) ==
    IF ~HasSet(set, p) THEN UNCHANGED <<cache, set, sql>>
    ELSE /\ \E queries \in FlushQueries(set[p]) : Send(queries)
         /\ cache' = [i \in Item |-> IF i \in set[p] THEN NoEntry ELSE cache[i]]
         /\ set' = [set EXCEPT ![p] = NoSet]

-----------------------------------------------------------------------------
Init ==
    /\ db = "up" /\ phase = [p \in Player |-> "off"]
    /\ box = [p \in Player |-> "closed"]
    /\ view = [i \in Item |-> Loose] /\ lastOwner = [i \in Item |-> NoOwner]
    /\ play = {} /\ playerCache = {} /\ logout = {}
    /\ cache = [i \in Item |-> NoEntry] /\ set = [p \in Player |-> NoSet]
    /\ sql = <<>> /\ results = <<>> /\ async = {}
    /\ table = [i \in Item |-> NoRow]

-----------------------------------------------------------------------------
(* Login and character selection.                                          *)

\* QUERY_LOGIN_BY_KEY: after a new authentication, with a new CLoginData; after
\* a warp, with the old one.
Login(p) ==
    /\ db = "up" /\ phase[p] = "off" /\ Room
    /\ phase' = [phase EXCEPT ![p] = "login"]
    /\ play' \in {play, play \ {p}}
    /\ Send(<<Select("LOGIN", p)>>)
    /\ UNCHANGED <<db, view, lastOwner, box, cacheVars, playerCache, logout,
                   results, async, table>>

HasResult(op, p) == /\ db = "up" /\ results # <<>>
                    /\ Head(results).op = op /\ Head(results).pid = p

PopResult == results' = Tail(results)

\* The client that caused the query is still connected.
Live == Head(results).live

RESULT_LOGIN(p) ==
    /\ HasResult("LOGIN", p) /\ PopResult
    /\ phase' = IF Live /\ phase[p] = "login" THEN [phase EXCEPT ![p] = "select"]
                ELSE phase
    /\ UNCHANGED <<db, view, lastOwner, box, cacheVars, playerVars, sql,
                   async, table>>

\* CInputDB::ItemLoad: the rows become items of the game, unless the character
\* is gone or has its items already.  An id that is in the game is refused.
ItemLoad(p, rows) ==
    IF Live /\ phase[p] = "spawned"
    THEN /\ phase' = [phase EXCEPT ![p] = "game"]
         /\ view' = [i \in Item |-> IF i \in DOMAIN rows /\ view[i] = Offline
                                    THEN rows[i] ELSE view[i]]
         /\ lastOwner' = [i \in Item |->
                IF i \in DOMAIN rows /\ view[i] = Offline
                THEN p ELSE lastOwner[i]]
    ELSE UNCHANGED <<phase, view, lastOwner>>

CachedRowsDeleted(p) == [i \in set[p] |-> cache[i].row]

\* The items QUERY_PLAYER_LOAD sends from the set of p, deleted ones left out.
CachedRows(p) ==
    LET items == { i \in set[p] : ~cache[i].deleted }
    IN  [i \in items |-> cache[i].row]

MaySelect(p) ==
    \/ phase[p] = "select"
    \/ phase[p] = "asked" /\ "select_twice" \in Faults

\* QUERY_PLAYER_LOAD of a cached player; both answers reach the game core in
\* one step when the player has a set.
LoadCachedPlayer(p) ==
    /\ MaySelect(p) /\ p \in playerCache /\ Room
    /\ logout' = logout \ {p}
    /\ IF p \in play
       THEN /\ phase' = [phase EXCEPT ![p] = "asked"]
            /\ UNCHANGED <<view, lastOwner, play, sql>>
       ELSE /\ play' = play \cup {p}
            /\ IF HasSet(set, p)
               THEN LET rows == CachedRows(p)
                        fresh == { i \in DOMAIN rows : view[i] = Offline }
                    IN  /\ phase' = [phase EXCEPT ![p] = "game"]
                        /\ view' = [i \in Item |->
                               IF i \in fresh THEN rows[i] ELSE view[i]]
                        /\ lastOwner' = [i \in Item |->
                               IF i \in fresh THEN p ELSE lastOwner[i]]
                        /\ UNCHANGED sql
               ELSE /\ phase' = [phase EXCEPT ![p] = "spawned"]
                    /\ Send(<<Select("ITEM", p)>>)
                    /\ UNCHANGED <<view, lastOwner>>
    /\ UNCHANGED <<db, box, cacheVars, playerCache, results, async, table>>

\* QUERY_PLAYER_LOAD of a player that is not cached: everything comes from SQL.
LoadPlayerFromSql(p) ==
    /\ MaySelect(p) /\ p \notin playerCache /\ Room
    /\ logout' = logout \ {p}
    /\ phase' = [phase EXCEPT ![p] = "asked"]
    /\ Send(<<Select("PLAYER", p), Select("ITEM", p)>>)
    /\ UNCHANGED <<db, view, lastOwner, box, cacheVars, play, playerCache,
                   results, async, table>>

RESULT_PLAYER_LOAD(p) ==
    /\ HasResult("PLAYER", p) /\ PopResult
    /\ IF p \in play THEN UNCHANGED <<phase, play>>
       ELSE /\ play' = play \cup {p}
            /\ phase' = IF Live /\ phase[p] = "asked"
                        THEN [phase EXCEPT ![p] = "spawned"] ELSE phase
    /\ UNCHANGED <<db, view, lastOwner, box, cacheVars, playerCache, logout,
                   sql, async, table>>

RESULT_ITEM_LOAD(p) ==
    LET rows == Head(results).rows
    IN  /\ HasResult("ITEM", p) /\ PopResult
        /\ ItemLoad(p, rows)
        /\ cache' = Put(WithSet(p), rows, TRUE)
        /\ set' = PutInSets(WithSet(p), rows)
        /\ UNCHANGED <<db, box, playerVars, sql, async, table>>

-----------------------------------------------------------------------------
(* The game core changes items.                                            *)

\* A character that may get items, and the items it may get: its own, those
\* nobody owns and, in a trade, those of another character.
Handles(p, i) ==
    \/ /\ phase[p] = "game" /\ view[i] = Loose
    \/ /\ phase[p] = "game" /\ view[i] \in Row
       /\ view[i].window = "INVENTORY" /\ phase[view[i].owner] = "game"
    \/ /\ phase[p] = "spawned" /\ view[i] = Loose
       /\ "early_give" \in Faults

Holds(i, row) == view' = [view EXCEPT ![i] = row]

\* QUERY_ITEM_SAVE of an item in the inventory: PutItemCache.
SaveItem(p, i, d) ==
    LET row == Inventory(p, d)
        rows == [id \in {i} |-> row]
    IN  /\ Handles(p, i) /\ Room
        /\ Holds(i, row) /\ lastOwner' = [lastOwner EXCEPT ![i] = p]
        /\ cache' = Put(set, rows, FALSE)
        /\ set' = PutInSets(set, rows)
        /\ Send(DirectSave(set, i, row))
        /\ UNCHANGED <<db, phase, box, playerVars, results, async, table>>

\* QUERY_ITEM_SAVE of an item that enters the safebox or changes in it: the
\* entry goes, and the row is written at once.
EntryKept(i) == cache
WithoutEntry(i) == [cache EXCEPT ![i] = NoEntry]

SaveSafeboxItem(p, i, d) ==
    /\ phase[p] = "game" /\ box[p] = "open" /\ Room
    /\ view[i] \in Row /\ view[i].owner = p
    /\ Holds(i, Safebox(p, d))
    /\ cache' = WithoutEntry(i)
    /\ set' = IF Cached(i) /\ HasSet(set, cache[i].row.owner)
              THEN [set EXCEPT ![cache[i].row.owner] = @ \ {i}] ELSE set
    /\ Send(<<Replace(i, Safebox(p, d))>>)
    /\ UNCHANGED <<db, phase, lastOwner, box, playerVars, results, async,
                   table>>

\* SafeboxCheckout: ITEM_SAVE and ITEM_FLUSH, one after the other.
CheckoutUnflushed(i, row) == <<>>
CheckoutFlush(i, row) == <<Replace(i, row)>>

SafeboxCheckout(p, i) ==
    LET row == Inventory(p, view[i].data)
        rows == [id \in {i} |-> row]
        entries == Put(set, rows, FALSE)
    IN  /\ phase[p] = "game" /\ box[p] = "open" /\ Room
        /\ view[i] \in Row /\ view[i] = Safebox(p, view[i].data)
        /\ Holds(i, row) /\ lastOwner' = [lastOwner EXCEPT ![i] = p]
        /\ cache' = [entries EXCEPT ![i].m_bNeedQuery = FALSE]
        /\ set' = PutInSets(set, rows)
        /\ Send(CheckoutFlush(i, row))
        /\ UNCHANGED <<db, phase, box, playerVars, results, async, table>>

\* QUERY_ITEM_DESTROY of an item that is not cached.  The DELETE of an item
\* that had no owner goes by the other connection; unless the fault "reorder"
\* may happen, its place in the order of the queries is the same.
DeleteUncached(i) ==
    IF lastOwner[i] = NoOwner /\ "reorder" \in Faults
    THEN async' = async \cup {i} /\ UNCHANGED sql
    ELSE Send(<<Delete(i)>>) /\ UNCHANGED async

\* QUERY_ITEM_DESTROY: the item is dropped or consumed, or expires.
\* DeleteItemCache leaves the entry in the cache and in the set, deleted.
DestroyItem(i) ==
    /\ db = "up" /\ view[i] # Offline /\ Room
    /\ Holds(i, Loose)
    /\ IF ~Cached(i)
       THEN DeleteUncached(i) /\ UNCHANGED cache
       ELSE /\ cache' = [cache EXCEPT ![i].deleted = TRUE,
                                      ![i].m_bNeedQuery = @ /\ cache[i].deleted]
            /\ Send(IF cache[i].deleted THEN <<>> ELSE <<Delete(i)>>)
            /\ UNCHANGED async
    /\ UNCHANGED <<db, phase, lastOwner, box, set, playerVars, results,
                   table>>

-----------------------------------------------------------------------------
(* The safebox.                                                            *)

ReqSafeboxLoad(p) ==
    /\ phase[p] = "game" /\ box[p] = "closed" /\ Room
    /\ box' = [box EXCEPT ![p] = "opening"]
    /\ Send(<<Select("BOX", p)>>)
    /\ UNCHANGED <<db, phase, view, lastOwner, cacheVars, playerVars, results,
                   async, table>>

\* RESULT_SAFEBOX_LOAD of the first query, which has the password: ask for the
\* items.
RESULT_SAFEBOX(p) ==
    /\ HasResult("BOX", p) /\ PopResult
    /\ Send(<<[Select("BOXITEM", p) EXCEPT !.live = Live]>>)
    /\ UNCHANGED <<db, gameVars, cacheVars, playerVars, async, table>>

\* RESULT_SAFEBOX_LOAD of the second query, and LoadSafebox in the game core.
RESULT_SAFEBOX_ITEM(p) ==
    LET rows == Head(results).rows
        fresh == { i \in DOMAIN rows : view[i] = Offline }
    IN  /\ HasResult("BOXITEM", p) /\ PopResult
        /\ IF ~Live \/ box[p] = "open" THEN UNCHANGED <<view, lastOwner, box>>
           ELSE /\ box' = [box EXCEPT ![p] = "open"]
                /\ view' = [i \in Item |->
                       IF i \in fresh THEN rows[i] ELSE view[i]]
                /\ lastOwner' = [i \in Item |->
                       IF i \in fresh THEN NoOwner ELSE lastOwner[i]]
        /\ UNCHANGED <<db, phase, cacheVars, playerVars, sql, async, table>>

\* SafeboxWrongPassword, or SafeboxLoad while the character trades.
CancelSafeboxLoad(p) ==
    /\ HasResult("BOX", p) \/ HasResult("BOXITEM", p)
    /\ PopResult /\ Live
    /\ box' = [box EXCEPT ![p] = IF @ = "opening" THEN "closed" ELSE @]
    /\ UNCHANGED <<db, phase, view, lastOwner, cacheVars, playerVars, sql, async,
                   table>>

InBox(p) == { i \in Item : view[i] \in Row /\ view[i].owner = p
                           /\ view[i].window = "SAFEBOX" }

GoOffline(items) ==
    view' = [i \in Item |-> IF i \in items THEN Offline ELSE view[i]]

CloseSafebox(p) ==
    /\ box[p] = "open"
    /\ box' = [box EXCEPT ![p] = "closed"]
    /\ GoOffline(InBox(p))
    /\ UNCHANGED <<db, phase, lastOwner, cacheVars, playerVars, sqlVars>>

-----------------------------------------------------------------------------
(* Players leave.                                                          *)

\* QUERY_PLAYER_SAVE: PutPlayerCache.
SavePlayer(p) ==
    /\ phase[p] \in {"spawned", "game"}
    /\ playerCache' = playerCache \cup {p}
    /\ UNCHANGED <<db, gameVars, cacheVars, play, logout, sqlVars>>

\* The client is gone: CHARACTER::Disconnect saves the player if there is a
\* character, and the end of the descriptor is a LOGOUT.
SavedNever(p) == FALSE
SavedOnDisconnect(p) == phase[p] \in {"spawned", "game"}

Disconnect(p) ==
    /\ phase[p] \in {"select", "asked", "spawned", "game"}
    /\ phase' = [phase EXCEPT ![p] = "off"]
    /\ box' = [box EXCEPT ![p] = "closed"]
    /\ GoOffline({ i \in Item : view[i] \in Row /\ view[i].owner = p })
    /\ playerCache' = IF SavedOnDisconnect(p)
                      THEN playerCache \cup {p} ELSE playerCache
    /\ logout' = logout \cup {p}
    /\ play' = play \ {p}
    /\ sql' = Unhandled(sql, p) /\ results' = Unhandled(results, p)
    /\ UNCHANGED <<db, lastOwner, cacheVars, async, table>>

\* Some item that p gave away is still p's in SQL: its entry, which belongs to
\* the new owner, is not flushed.
Lagging(p) ==
    \E i \in Item : /\ NeedQuery(i) /\ cache[i].row.owner # p
                    /\ Written(i) # NoRow /\ Written(i).owner = p

\* A player whose next login asks SQL, although the cache has newer items.
HalfCached(p) == /\ p \notin playerCache /\ HasSet(set, p)
                 /\ Lagging(p) \/ \E i \in set[p] : NeedQuery(i)

\* The game core crashes.  RemovePeer clears the play flags, and nothing else;
\* AnalyzeQueryResult drops the results of a peer that is gone.
CoreCrash ==
    /\ \E p \in Player : phase[p] # "off"
    /\ "early_crash" \in Faults \/ \A p \in Player : ~HalfCached(p)
    /\ phase' = [p \in Player |-> "off"] /\ box' = [p \in Player |-> "closed"]
    /\ GoOffline(Item)
    /\ play' = { p \in play : phase[p] \in {"off", "login"} }
    /\ sql' = Voided(sql) /\ results' = Voided(results)
    /\ UNCHANGED <<db, lastOwner, cacheVars, playerCache, logout, async,
                   table>>

-----------------------------------------------------------------------------
(* The timers of the DB server.                                            *)

\* UpdatePlayerCache when CheckTimeout holds: the items of the player too.
UpdatePlayerCache(p) ==
    /\ p \in playerCache /\ HasSet(set, p)
    /\ \E i \in set[p] : NeedQuery(i)
    /\ \E queries \in FlushQueries(set[p]) : Send(queries)
    /\ cache' = Flushed(set[p])
    /\ UNCHANGED <<db, gameVars, set, playerVars, results, async, table>>

UpdateItemCacheOffline(i) ==
    /\ NeedQuery(i) /\ cache[i].row.owner \notin play
    /\ Send(<<OnFlush(i)>>)
    /\ cache' = Flushed({i})
    /\ UNCHANGED <<db, gameVars, set, playerVars, results, async, table>>

\* UpdateItemCache when CheckFlushTimeout of the item holds.
UpdateItemCache(i) ==
    /\ NeedQuery(i)
    /\ Send(<<OnFlush(i)>>)
    /\ cache' = Flushed({i})
    /\ UNCHANGED <<db, gameVars, set, playerVars, results, async, table>>

\* UpdateLogoutPlayer: g_iLogoutSeconds (600) after the LOGOUT, while an item
\* is flushed g_iItemCacheFlushSeconds (300) after its last flush.
UpdateLogoutPlayer(p) ==
    /\ p \in logout
    /\ "slow_flush" \in Faults \/ ~Lagging(p)
    /\ FlushItemCacheSet(p)
    /\ playerCache' = playerCache \ {p} /\ logout' = logout \ {p}
    /\ UNCHANGED <<db, gameVars, play, results, async, table>>

\* QUERY_FLUSH_CACHE, sent by a game master (/flush), or by the quest function
\* that changes the name of a player who plays.
QUERY_FLUSH_CACHE(p) ==
    /\ p \in playerCache
    /\ "flush_online" \in Faults \/ (phase[p] = "off" /\ ~Lagging(p))
    /\ FlushItemCacheSet(p)
    /\ playerCache' = playerCache \ {p}
    /\ UNCHANGED <<db, gameVars, play, logout, results, async, table>>

-----------------------------------------------------------------------------
(* The SQL server, by the threads of the connections.                      *)

\* What a query brings; the results of REPLACE and DELETE are not looked at.
ResultRows(q) ==
    IF q.op = "ITEM" THEN RowsOf(table, q.pid, "INVENTORY")
    ELSE IF q.op = "BOXITEM" THEN RowsOf(table, q.pid, "SAFEBOX") ELSE <<>>

Execute ==
    LET q == Head(sql)
    IN  /\ sql # <<>>
        /\ sql' = Tail(sql)
        /\ table' = Apply(table, q)
        /\ results' = IF q.op \in SelectOp
                      THEN Append(results, [op |-> q.op, pid |-> q.pid,
                                   live |-> q.live, rows |-> ResultRows(q)])
                      ELSE results
        /\ UNCHANGED <<db, gameVars, cacheVars, playerVars, async>>

ExecuteAsync(i) ==
    /\ i \in async
    /\ async' = async \ {i} /\ table' = [table EXCEPT ![i] = NoRow]
    /\ UNCHANGED <<db, gameVars, cacheVars, playerVars, sql, results>>

\* AnalyzeQueryResult when the peer of the query is gone.
DropResult ==
    /\ results # <<>> /\ Head(results) = Void
    /\ PopResult
    /\ UNCHANGED <<db, gameVars, cacheVars, playerVars, sql, async, table>>

\* The end of MainLoop flushes every entry; nobody plays.
DbEnd ==
    /\ db = "up" /\ \A p \in Player : phase[p] = "off"
    /\ cache # [i \in Item |-> NoEntry] \/ playerCache # {}
    /\ db' = "ending"
    /\ \E queries \in FlushQueries(Item) : Send(queries)
    /\ cache' = [i \in Item |-> NoEntry] /\ set' = [p \in Player |-> NoSet]
    /\ play' = {} /\ playerCache' = {} /\ logout' = {}
    /\ results' = Voided(results)
    /\ UNCHANGED <<gameVars, async, table>>

\* main waits until the queues are empty; the server is started again later.
DbRestart ==
    /\ db = "ending" /\ sql = <<>> /\ async = {}
    /\ db' = "up" /\ results' = <<>>
    /\ UNCHANGED <<gameVars, cacheVars, playerVars, sql, async, table>>

-----------------------------------------------------------------------------
PlayerStep(p) ==
    \/ Login(p) \/ LoadCachedPlayer(p) \/ LoadPlayerFromSql(p)
    \/ ReqSafeboxLoad(p) \/ CloseSafebox(p) \/ SavePlayer(p) \/ Disconnect(p)
    \/ QUERY_FLUSH_CACHE(p)
    \/ \E i \in Item : SafeboxCheckout(p, i)
    \/ \E i \in Item, d \in Data : SaveItem(p, i, d) \/ SaveSafeboxItem(p, i, d)

ResultStep(p) ==
    \/ RESULT_LOGIN(p) \/ RESULT_PLAYER_LOAD(p) \/ RESULT_ITEM_LOAD(p)
    \/ RESULT_SAFEBOX(p) \/ RESULT_SAFEBOX_ITEM(p) \/ CancelSafeboxLoad(p)

Next ==
    \/ \E p \in Player : PlayerStep(p) \/ ResultStep(p)
    \/ \E p \in Player : UpdatePlayerCache(p) \/ UpdateLogoutPlayer(p)
    \/ \E i \in Item : DestroyItem(i) \/ UpdateItemCache(i) \/ ExecuteAsync(i)
    \/ Execute \/ DropResult \/ CoreCrash \/ DbEnd \/ DbRestart

Spec == Init /\ [][Next]_vars

-----------------------------------------------------------------------------
TypeOK ==
    /\ db \in {"up", "ending"}
    /\ phase \in [Player -> Phase]
    /\ view \in [Item -> Row \cup {Loose, Offline}]
    /\ lastOwner \in [Item -> Player \cup {NoOwner}]
    /\ box \in [Player -> {"closed", "opening", "open"}]
    /\ play \subseteq Player /\ playerCache \subseteq Player
    /\ logout \subseteq Player /\ async \subseteq Item
    /\ cache \in [Item -> Entry \cup {NoEntry}]
    /\ set \in [Player -> (SUBSET Item) \cup {NoSet}]
    /\ sql \in Seq(Query)
    /\ results \in Seq(Result)
    /\ table \in [Item -> Row \cup {NoRow}]

-----------------------------------------------------------------------------
(* What the cache promises.                                                *)

\* The row the DB server stands for.
Stored(i) == IF ~Cached(i) THEN Written(i)
             ELSE IF cache[i].deleted THEN NoRow ELSE cache[i].row

Store == INSTANCE ItemStore WITH store <- [i \in Item |-> Stored(i)]

\* The cache, its sets, its timers and the SQL queues implement ItemStore: no
\* flush, eviction, logout, crash of a game core or restart of the server
\* changes what is stored, and every load brings exactly the rows its player
\* or safebox owns, each of an item that is nowhere else in the game.
ImplementsStore == Store!Spec

\* A set refers to live entries only, each in the set of its owner and no
\* other: FlushItemCacheSet deletes what it refers to.
SetsAgree ==
    \A p \in Player : HasSet(set, p) =>
        \A i \in set[p] : Cached(i) /\ cache[i].row.owner = p

\* PutItemCache: "since it has no owner now, save it at once, so that the next
\* login gets it by a query to SQL".  So an entry that is not in the set of its
\* owner must belong to an owner whose next login asks SQL: one without a set.
SetsComplete ==
    \A i \in Item :
        /\ Cached(i) /\ ~cache[i].deleted /\ HasSet(set, cache[i].row.owner)
        => i \in set[cache[i].row.owner]

\* QUERY_PLAYER_LOAD: "items in the cache: get them from the cache; items not
\* in the cache: get them from SQL".  So the rows RESULT_ITEM_LOAD puts into
\* the cache neither replace nor miss an entry that is newer than SQL.
SqlIsCurrent ==
    \A n \in DOMAIN results, i \in Item :
        /\ results[n].op = "ITEM"
        /\ i \in DOMAIN results[n].rows
             \/ (Cached(i) /\ cache[i].row.owner = results[n].pid)
        => ~NeedQuery(i)

\* An entry that needs no query is written, or its query is under way: it may
\* be evicted without loss.
CleanIsWritten ==
    \A i \in Item : Cached(i) /\ ~NeedQuery(i) => Written(i) = Stored(i)

-----------------------------------------------------------------------------
(* The timers fire, and the threads of the connections work.               *)

FairSpec ==
    /\ Spec
    /\ WF_vars(Execute)
    /\ \A i \in Item : WF_vars(UpdateItemCache(i)) /\ WF_vars(ExecuteAsync(i))

\* What is stored is written to SQL, unless it changes first.
Durable ==
    \A i \in Item, row \in Row \cup {NoRow} :
        Stored(i) = row ~> (table[i] = row \/ Stored(i) # row)
=============================================================================
