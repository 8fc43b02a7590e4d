# Verification of the game server's persistent state

The repository is a server for an online game, its client and their data. The
server consists of processes that share no memory:

```
 client --TCP--> game core --TCP--> DB server (db) --threads--> MySQL
                 game core --TCP--/
```

A *game core* (`Serverside/Server/game`) runs the world on one thread. The *DB
server* (`Serverside/Server/db`) has one thread of packets and timers, keeps
caches of what players own, and hands SQL queries to one thread per connection
(`libsql/AsyncSQL.cpp`). What a player loses or gets twice when something goes
wrong is decided between these processes: item ids that must not be given out
twice, caches that are written later, results that come back later, sessions
that two clients claim, processes that stop. Inside a core the same question is
asked of the exchange of two characters. That is what the modules here are about.

`PROJECT.json` lists the components, runs, mutants, the source lines of every
definition, the findings, the hazards and the theorems.

## Inventory

Paths are relative to `src/Serverside/Server/`.

| Component | State | Operations | What must hold | Module |
|---|---|---|---|---|
| Item id ranges (`db/src/ItemIDRangeManager.cpp`, `Peer.cpp`; `game/src/item_manager_idrange.cpp`) | `m_listData`; two ranges per `CPeer`; two ranges and a counter per core | BOOT, REQ_SPARE/ACK_SPARE, `GetNewID`, `OnClose`, `GainItemID`, start and end of either process | no id twice, books agree over the connection | `ItemIdRange` |
| Item cache (`db/src/Cache.cpp`, `ClientManager.cpp`, `ClientManagerPlayer.cpp`) | `m_map_itemCache`, a set of entries per player, player cache, logout list | ITEM_SAVE, ITEM_DESTROY, ITEM_FLUSH, PLAYER_LOAD, LOGOUT, FLUSH_CACHE, timers, shutdown | a load brings what was saved last; nothing dirty is dropped; sets refer to live entries | `ItemCache`, `ItemStore` |
| Safebox (`game/src/safebox.cpp`) | open or closed; items by position | load (two queries), check in, check out, close | an item is in the box or in the inventory, not in both | `ItemCache` (ownership only) |
| SQL connection (`libsql/AsyncSQL.cpp`, `db/src/DBManager.cpp`) | query, copy and result queues, a semaphore | push, execute with retry, pop, quit | order kept, every query executed once, no wake-up lost, quitting ends | `SqlQueue`, `AsyncSql` |
| My-shop price list (`db/src/ClientManager.cpp`, `Cache.cpp`) | price list cache over the table | update, request, both load results, flush by timer and at the end | rows fit the buffer of their handler; only an update changes a price | `PriceList` |
| Login and sessions (`db/src/ClientManagerLogin.cpp`, `game/src/input_login.cpp`, `input_db.cpp`, `input_p2p.cpp`) | login keys, login data, logon account, play flag; phases of descriptors | LOGIN_BY_KEY, PLAYER_LOAD, LOGOUT, kicks, SETUP, RemovePeer | one session per account, no account stuck, no freed login data used | `LoginSession`; play flag and logout list also in `ItemCache` |
| Exchange (`game/src/exchange.cpp`) | two sides, offers, accept flags | start, offer, withdraw, accept, cancel | both give what they accepted or nothing moves | `Exchange` |
| Character create, delete, rename (`db/src/ClientManagerPlayer.cpp`) | rows of several tables | independent SQL queries | nothing is promised when one of them fails | not modelled |
| Shops, offline shop (`game/src`) | goods and gold | buy, close | one step of one thread; the offline shop uses SQL of its own | not modelled |
| Timed events (`game/src/event.cpp`) | priority queue of one thread | create, cancel, reset inside a handler | a cancelled event does not run | not modelled |
| Party, guild war, marriage, privileges (`db/src`, `game/src`) | a copy per core, the original in the DB server | request, broadcast, timeout | copies agree, a war ends once | not modelled |
| Event flags, money log, boot tables, P2P presence, kingdom | maps | last writer wins, loaded once | little beyond the assignment | not modelled |
| Combat, skills, quests, maps, dungeons | one process, one thread | game balance, interpreter, geometry | a matter of arithmetic and data | not modelled |
| Client, client scripts, third-party headers, server libraries | - | - | - | not modelled |

How they interact: a core sends packets over one TCP connection, in order; the
DB server answers at once from a cache or later, when a query has come back
(`AnalyzeQueryResult`). A packet of a core that is gone is dropped; a result
whose descriptor in the core is gone is handled by the DB server and ignored by
the core. The hard behaviours are therefore: results that are older than the
cache they are put into; two connections to SQL without a common order; timers
(flush 300 s, logout 600 s) racing logins; a process that ends while its state
is in another; a connection that is lost while both ends live.

## Modules

| Module | Contents |
|---|---|
| `ItemIdRange` | leasing of item ids, both ends, with crashes and restarts |
| `ItemIdRangeProofs` | `TypeCorrect`, `LedgerSafe`, `AwardSafe`, `LeaseSafe`, `MintExclusive`, `NoneCollides` |
| `MCItemIdRange` | symmetry for its four configurations |
| `ItemStore` | abstract: what the DB server promises about items |
| `ItemStoreProofs` | `StoreTypeCorrect`, `StoreFaithful` |
| `ItemCache` | caches, sets, timers, SQL queues, both ends; refines `ItemStore` |
| `ItemCacheProofs` | `CacheTypeCorrect`, `CacheSetsAgree` |
| `ItemCacheStoreProofs` | `SetsAlwaysComplete`, `CleanAlwaysWritten`, `SqlAlwaysCurrent`, `CacheImplementsStore` |
| `MCItemCache` | symmetry for its five configurations |
| `SqlQueue` | abstract: what a connection promises its user |
| `AsyncSql` | the thread, queues and semaphore of a connection; refines `SqlQueue` |
| `AsyncSqlProofs` | `ConnectionSafe`, `ConnectionIsQueue` |
| `PriceList` | the price list cache on top of `AsyncSql` |
| `PriceListProofs` | `WakeUpsKept`, `BatchesCover`, `FlushesDrained`, `TypeCorrect`, `RowsAlwaysFit`, `PricesKept`, `PricesOverQueue` |
| `MCPriceList` | its instance |
| `LoginSession`, `MCLoginSession` | sessions of an account over cores and DB server; its instance |
| `LoginSessionProofs` | `TypeCorrect`, `DanglingFree`, `LogonOwned`, `OneSessionAlways` |
| `Exchange`, `MCExchange` | the exchange of two characters; its instance |
| `ExchangeProofs` | `StaysPaired`, `BlocksOffered`, `KeepsAccepted`, `TypeCorrect`, `StaysApart`, `TradesWhole`, `GoldNeverMade` |

Operators named after a fault (`PopRangeKept`, `SetsKeptByOldOwner`, ...), in the
newer modules under a comment that begins with "Mutant:", are mutated forms of a
definition nearby. No action uses them; each is there
to show that one property fails when the code is wrong in that way.

### ItemIdRange

Every game core owns two ranges of item ids, a current one and a spare. The DB
server cuts the id space into slots at start (`DbStart`, `BuildSlot`, `Serve`),
gives two to a core that boots (`QUERY_BOOT`), a new spare to one that has
switched (`SendSpareItemIDRange`), and takes the current one back when the
connection closes (`RemovePeer`). `core[c]` is `ITEM_MANAGER` of a process,
`peer[p]` the `CPeer` of a connection, `toDb` and `toCore` its two directions.
`item` is the set of ids in the SQL table, `cached` those that the item cache
has not written yet: `BuildRange` asks the table only.

- `LedgerExclusive`: the books of the DB server show a slot in one place.
- `LeaseAgreement`: both ends agree, up to the packet under way.
- `ExclusiveMint`: two cores never number items from the same ids.
- `AwardApart`: awarded items have ids of their own.
- `NoCollision`, `LeasesUnusedIds`: what the code's own checks log as
  "Collision!!" and "have a item". The first holds while no core is parted from
  the DB server; both are violated otherwise (findings below).

`AttachedSpec` leaves out the actions that part a running core from the DB
server (`Parted`); `Spec` has them all.

### ItemStore and ItemCache

`ItemStore` says what a core may rely on: an item has the row it was last saved
with, a destroyed one has none, a load brings exactly the rows the player or
safebox owns, and each of them is of an item that is nowhere in the game (no
load doubles an item). `ItemCache` is how the code does it:

| Variable | Code |
|---|---|
| `cache` | `m_map_itemCache`; `deleted` is `vnum == 0`, `m_bNeedQuery` the dirty flag |
| `set` | `m_map_pkItemCacheSetPtr`, the entries of each player |
| `playerCache`, `logout`, `play` | `m_map_playerCache` (presence), `m_map_logout`, `CLoginData::IsPlay` |
| `sql`, `results` | queue and results of the main connection |
| `async` | DELETEs on the asynchronous connection, which has no order with `sql` |
| `table` | the rows of the SQL table `item` |
| `phase`, `view`, `lastOwner`, `box` | the core: client phases, items, `m_dwLastOwnerPID`, safeboxes |
| `db` | whether the DB server is up, or ending until its queues are empty |

A packet is handled in the step that sends it. This loses no interleaving of the
handlers: the packets of the one core arrive in order, and the DB server handles
its packets and its timers on one thread; what is concurrent, the SQL threads and
the results that come back later, are actions of their own. The mapping to
`ItemStore` takes `store[i]` to `Stored(i)`: the entry if there is one, else the row once
the queries under way are executed; `view` is the same.

- `ImplementsStore`: `ItemCache` refines `ItemStore`.
- `SetsAgree`: a set refers to live entries of its player only
  (`FlushItemCacheSet` deletes what it refers to).
- `SetsComplete`: an entry is in the set of its owner, if the owner has a set.
- `SqlIsCurrent`: a load from SQL neither misses nor replaces a newer entry.
- `CleanIsWritten`: an entry without the dirty flag may be evicted.
- `Durable`: what is stored reaches SQL, unless it changes first.

`Faults` names what the code does not exclude but ordinary operation does not
meet; each is a guard that is dropped. With a fault only `SetsAgree` is checked and proved; what a
load brings then is not (two of the runs show what happens). With `Faults = {}`:

| Fault left out | Why ordinary operation does not meet it |
|---|---|
| `early_crash` | a core crashes after an item save of a player whose own save it has not sent once |
| `early_give` | a character gets an item between `PLAYER_LOAD` and `ITEM_LOAD` |
| `select_twice` | the client selects a character again before the answer |
| `flush_online` | `QUERY_FLUSH_CACHE` of a player who plays |
| `slow_flush` | an item traded away is flushed after 300 s, its old owner evicted after 600 s |
| `reorder` | the two SQL connections execute in the order of the calls |

### SqlQueue, AsyncSql and PriceList

`SqlQueue` is a queue whose head is executed and answered, once; after a failure
(`troubled`) what is left over may wait until the next push, and be abandoned when
the process ends. `AsyncSql` is how `CAsyncSQL` does it:

| Variable | Code |
|---|---|
| `query`, `copy`, `results` | `m_queue_query`, `m_queue_query_copy`, `m_queue_result` |
| `sem` | the semaphore, which takes at most `SemMax` posts on Windows |
| `loop`, `count` | where `ChildLoop` is; what is left of its batch (the `count` of `CopyQuery`) |
| `end`, `main` | `m_bEnd`; where the main thread is in `Quit` |
| `failures` | failures that were retried so far (a bound) |

Pushing, with its `m_sem.Release`, and copying are one step each, as they are under the
mutex of the queue; waiting, copying and each query of a batch are steps apart.
`PriceList` uses an instance of it: a packet, a result or a timer is one
handler (`todo` holds the queries an `OnFlush` still pushes, so that the SQL
thread runs in between). `Query`, `Returning` and `Reply` are what the user of
the connection sends, what has a result, and what comes back.

- `ImplementsQueue`: the connection refines `SqlQueue`, fairness included.
- `NoLostWakeUp`, `BatchCovers`, `DrainedAtEnd`: the three invariants the code
  relies on without saying so: a waiting query has a wake-up, a batch never runs
  into an empty queue, nothing that has not failed is left when the thread ends.
- `LeftOversServed`: what a retry has left in `copy` is executed with the next push.
  Without a push it waits, for ever if there is none (`AsyncSQL.cpp:389`).
- `QuitReturns`: `Quit` comes back.
- `RowsFit`: a load never brings more rows than the buffer of its handler has,
  which does not count them. Each flush is a DELETE and some INSERTs. What MySQL can
  answer (`Answers`) is any number of rows: a load that is drained after a DELETE was
  abandoned may bring too many, but nobody handles its result.
- `ListsKept`: a price changes only by an update of its kind, whatever loads,
  flushes and retries do. Three cases of the code are excepted by name:
  `Overtaken`, two updates of a list that is not cached each start a load and the
  second result puts the list back (`ClientManager.cpp:891`), also when a flush has come
  between, and a later result may set it right again; `Abandoned`, a
  flush whose DELETE was left over by a retry and is not executed at the end,
  while its INSERTs are (`AsyncSQL.cpp:613`); and at the end an entry without
  changes is dropped.

### LoginSession

One account with one character, any number of cores, each with descriptors of
clients. `phase`, `loginKey`, `bound`, `playing`, `kicked` are `DESC`'s, `named` is
`m_map_loginName` of a core, `kicks` are GG_DISCONNECTs between cores. `toDb` and
`toCore` are the connections. `toDb` has a queue for each peer in `m_peerList`, `link`
and `gen` are the core's side: whether it has a connection, and how many it has had
before. A peer whose connection broke stays until `RemovePeer`; its core may have
connected again by then, so that the DB server has an old and a new peer of one core
(`Broken`), handles what the old one had sent, and may refuse the SETUP of the new one
because the account is logged on with the old handle. `object` holds the `CLoginData`, `byKey`, `byLogin` and `logon`
are the three maps that refer to them; `queries` are SQL queries whose results have
not been handled. The auth server gives out keys in order; the DB server's
actions are its packet handlers, `QueryResult` and `RemovePeer`. A handle is used again
only when nothing about it is under way (`Idle`; the code counts handles up). A SETUP
names the keys of the core's clients in some order (`Setups`), and the DB server
handles them one after the other in one step (`SetupAll`). A client that has loaded its
character is in `loading` until it enters the game, where `CInputLogin` still serves
LOGIN_BY_KEY and CHARACTER_SELECT (`desc.cpp:538`); a load may also end in
`PHASE_CLOSE`, with a character (its map is elsewhere) or without one.

- `OneSession`: of all clients on all cores one at most has the account, counting
  answers and logouts under way, and the DB server knows. Stated while no
  connection breaks whose core lives on.
- `NoDangling`: the maps refer to no freed `CLoginData`.
- `LogonHasPeer`: an account that is logged on belongs to a peer that exists: the
  handle in it is what `QUERY_LOGOUT` is compared with.
- `LogonFreed`: an account does not stay logged on without a client.
- `KickedOut`: when a client is told LOGIN_ALREADY, no other client plays in the end, be
  it on the same core (`m_map_loginName`) or on another (GG_DISCONNECT); there is a mutant
  for each of the two ways.

What the model shows beside this, and no property forbids: a LOGOUT between
PLAYER_LOAD and its result lets the late result set the play flag with nobody
logged on (`ClientManagerPlayer.cpp:625`); a second key for an account that is
logged on separates the map by account id from the logon entry, and one more
leaks an object (`ClientManager.cpp:1631`); SETUP after a broken connection keeps
the old object and sets the play flag in the new one (1150); a SETUP that is
refused because another core logged in meanwhile leaves two sessions, and one that is
refused because the old peer is still there leaves a client without an entry, hence
`lost = 0` in `OneSession`; a PLAYER_LOAD_SUCCESS in the batch of a kick takes the
descriptor out of `PHASE_CLOSE` (`input_db.cpp:377`), the delayed disconnect event
still ends it.

### Exchange

Characters carry items, of one to several cells, in the cells of pages, and gold.
`company` pairs two of them, `slots` and `lGold` are what they offer, `accepted` who
has accepted; `exchanging` is each item's own flag, which blocks its other uses.
`AcceptSecond` is the whole of `Accept` with `Check`, `CheckSpace` and `Done` of both
sides; where items are put is the search for blanks of the code, slot by slot
(`Search`, and `PutAll` for what it has found).
Meanwhile items are moved, dropped, picked up and expire, gold is dropped and
picked up, and a safebox that was asked for opens.

- `AllOrNothing`: at its end an exchange does what both have accepted, with items that
  still exist, or changes nothing. Two exceptions are named. `HoldsGold`: gold beyond `GOLD_MAX` is lost, and
  an overflow comes out as none. `OneSize`: `CheckSpace` looks for each side alone,
  in the inventory as it stands; when both give items, the places that the first
  `Done` frees mislead the search of the second, which passes over an item while
  both are told of success (`exchange.cpp:370`).
- `Apart`: items never share a cell or go over the end of a page.
- `Blocked`: exactly the offered items are blocked, and belong to who offers them.
- `Paired`, `AcceptedStands`: exchanges are between two without a safebox; what
  stands accepted does not change.
- `NoGoldMade`: no step makes gold.

An item that expires while it is offered leaves its slot referring to a destroyed
object; `Check` refuses the trade then (`AllOrNothing`, `StillHas`). `Cancel` still writes
to it (`exchange.cpp:514`), which the model does not show; `Blocked` leaves such items out.

## Runs

| Run | Question | Bounds | Expected |
|---|---|---|---|
| `item_id_attached` | do both ends agree, and are ids exclusive, while no core is parted? | 2 cores, 3 connections, 6 slots of 3 ids, 1 row | pass |
| `item_id_parted` | do the DB server's books and the award ids survive everything? | 2 cores, 2 connections, 4 slots | pass |
| `item_id_collision` | does the collision check work? | as above | `NoCollision` violated |
| `item_id_unused` | is the usable part of a range free of rows? | as above, none parted | `LeasesUnusedIds` violated |
| `item_cache_trade` | all safety properties and the refinement, no faults | 1 item, 2 players, 2 versions, 2 queries | pass |
| `item_cache_faults` | `SetsAgree` under every fault | 1 item, 2 players, 1 version, 2 queries | pass |
| `item_cache_durable` | refinement and durability with a shared set | 2 items, 1 player, 1 version, 2 queries | pass |
| `item_cache_stale` | FLUSH_CACHE of a player who plays | 3 queries | `SqlIsCurrent` violated |
| `item_cache_orphan` | an item given before the items are loaded | 3 queries | `SetsComplete` violated |
| `price_list` | does the connection refine its queue, and do prices survive it? | 1 owner, 3 kinds, 1 price, lists of 2, semaphore of 2, 2 queries, 1 failure | pass |
| `login_session` | one session, nothing stuck, nothing dangling? | 2 cores, 2 clients on one and 1 on the other, 2 of them at a time, 2 keys, 5 objects, 1 request of a client under way, 1 fault on one core | pass |
| `exchange` | is an exchange all or nothing? | 3 characters, 4 items of sizes 1, 2, 2, 3, a page of 2 by 4, 2 slots, GOLD_MAX 3, 1 exchange ended, 2 other events | pass |

Why the bounds are enough. Slots of three ids have a first id, a last id that
`GetNewID` gives out and the `dwMax` it does not; the award interval covers one
slot and touches another at `dwMax`, as it does in the code. Six slots let two
cores boot and switch; four make the list run empty. Three connections let a
`CPeer` outlive its core. In the item cache, the rules are per item and per
pair of old and new owner: two players are the two, and a second item matters
only where entries share a set and are flushed together. `Room` admits a request when
fewer than `MaxQuery` queries and results are under way, so with 2 a load from SQL (two queries)
can cross saves, and flushes come on top.

In `price_list` lists are per owner and the connection orders all queries, so one
owner has every order there is; three kinds against lists of two make an update
push an entry out; a semaphore of two overflows, as the one of 32 does; one failure
leaves queries over, and a flush that comes on top lets a batch, a retry and the
end meet. In `login_session` the account is asked for by two clients at a time,
on the same core or on different ones, with an old and a new key; five objects are
more than ever live at once, as `QueryAuthLogin` needs one that is free; with a
fault on one core the other takes the account over, or the core itself does when it is
back. Clients, keys and faults are bounded together (`MaxLoad`), and the second client
of a core (`Early`) comes before a second key and a fault, as it is there for
what two clients of one core do to each other; the theorems have no such bounds. In `exchange` the sizes and
the page are chosen so that blanks are of both shapes and an item may fit or not
after the first side has given; the third character takes part in pickups and
in exchanges with either side; gold of 3 with an int of 4 overflows and is capped.

Deadlock is checked, except in `price_list`, where the process ends after `Quit`,
and in `exchange`, where the bounds run out.

Fairness. `FairSpec` of `ItemCache` has weak fairness for `Execute`,
`ExecuteAsync` and `UpdateItemCache`: the SQL threads run a loop that ends only
with the process, and `Process` calls `UpdateItemCache` each second. Players,
trades, loads, crashes and shutdowns are under no fairness. The limit on flushes
in a second (`m_iCacheFlushCountLimit`) is abstracted by this fairness; a load
of dirty items that stays above the limit for ever is outside it, and so is what such
a load does to the order of the flush and logout timers (`slow_flush`). `AsyncSql` and
`PriceList` have weak fairness for the thread's loop (MySQL answers), for the two
steps of `Quit` after its call, and for the rest of a handler that has begun; the
shutdown is fair too, as every process ends. `LoginSession` has weak fairness for
the handlers of packets (of each core) and results, for `RemovePeer` of the cores that
faults happen to, and for the disconnect event and the destruction of descriptors: main loops and timers. Clients, keys, faults
and reconnections are under none. `Exchange` needs none.

## Findings

1. `item_id_collision`: `for_each_peer` takes its functor by value, so the
   collision check of `GetRange` never rejects a range; a core that outlives its
   connection or the DB server keeps ranges that are leased again.
2. `item_id_unused`: `OnClose` rebuilds a range from `MAX(id)` of the SQL table
   while items with higher ids wait in the item cache.
3. `item_cache_stale`: `pc.change_name` flushes the cache of a player who
   plays; the player goes on without a set, and a later load from SQL can
   put an old row over the entry of a new owner.
4. `item_cache_orphan`: an item given on entering the game before `ITEM_LOAD`
   is saved into no set, and the set made by the load lacks it.

## Proofs

All proofs hold for any number of cores, connections, items, players, characters,
and for any values of the bounds. Where a value comes from a recursion (the rows
after some queries, the places a search has given, the objects a SETUP leaves),
the recursion is a function over numbers, and what holds of all its values is
shown with `NatSet`: a set that has 0, and with a number the next, has them all.

- `ItemIdRangeProofs`. `TypeCorrect` (`Spec => []TypeOK`) from
  `RangeAssumption`, `AwardAssumption` (slots are wider than the ids they must
  have left, the award interval is not empty) and `PeerAssumption`.
  `LedgerSafe` (`Spec => []LedgerExclusive`): that the list, the current ranges
  and the spares are disjoint is not inductive by itself, because `BuildSlot`
  appends a slot that must not be there yet, and because `RemovePeer` rebuilds
  the slot that the books of the peer name. `LedgerInv` adds type correctness,
  that a range in the list is set and a peer's is set or all zero (`RangesSet`),
  that while the list is built it holds earlier slots only, and that no peer
  holds a slot unless the DB server serves (`Building`).
  `AwardSafe` rests on `WholeSlots`: every range anywhere - in the list, with a peer,
  in a packet, in a core - is a slot that `Build` made or none, and `Build` leaves out
  the award interval. This needs that the interval is cut where slots are
  (`AwardAligned`: 2,000,000,000 and 2,100,000,000 in slots of 10,000,000).
  `LeaseSafe`, `MintExclusive` and `NoneCollides` are about `AttachedSpec`. Their
  `MintInv` adds `Links` to the two invariants above: a core that has a connection
  agrees with its peer up to the packet in flight, one that has none has never
  booted, and a connection has one core. The slots that cores number from are then
  slots in the books, which `LedgerExclusive` keeps apart.
- `ItemCacheProofs`. `CacheTypeCorrect` and `CacheSetsAgree`, under every fault.
  They are proved as one invariant `IInv`: the rows that `QUERY_PLAYER_LOAD` sends
  from a set are rows only because the set refers to live entries. The core is
  `PutAgrees`: `PutItemCache` removes an item from the set of its old owner
  before it enters the new one, and `FlushItemCacheSetKeeps`: an eviction cannot
  reach an entry of another set. Assumptions: the marks for "none" are no rows,
  entries, players or sets (`MarkAssumption`), and finitely many items
  (`FiniteAssumption`, needed for the order in which a set is flushed).
- `ItemCacheStoreProofs`, in three steps.
  `SetsAlwaysComplete` holds whatever else happens if `early_give` and `flush_online`
  do not, the second of which `item_cache_stale` and the first `item_cache_orphan`
  show to be needed. Its invariant `SetInv` adds that every entry is of an
  item in an inventory, in the set of its owner, who has one (`Whole`), that who
  plays has a set and did not just leave (`Present`), and that a result brings
  rows of the player who asked (`Brings`).
  The rest is for `Faults = {}`, as in the runs `item_cache_trade` and `item_cache_durable`.
  `TurnInv` says who waits for what in which phase: a login is the last question
  asked for a player, one load at most is under way, a safebox is open only while its
  owner plays (`Turns`, `Opened`, `Up`, `Shown`).
  `StoreInv` adds what `CleanAlwaysWritten` and `SqlAlwaysCurrent` follow from: an entry
  that needs no query is written (`Resolved`); while a player's items are asked from
  SQL, no dirty entry is his or of an item that SQL has as his (`Settling`); a set
  leaves out no item of its player (`Covering`); the game and the store agree on
  what is in the game (`InStep`); a load that waits finds the rows that will be
  written when everything before the end of the queue is (`CurrentSql`,
  `CurrentResults`). `Settling` is why a load from SQL replaces
  nothing newer, `Covering` why a load from the set may skip SQL.
  `CacheImplementsStore`: with it each step stores one item, destroys one, brings a
  load to the game, takes items out of it, or changes nothing (`StoreStep`), which
  are the steps of `ItemStore` under the mapping of `Stored`.
- `ItemStoreProofs`. `StoreFaithful`: in `ItemStore`, what the game has of an item
  is what the store would bring back. With `CacheImplementsStore` this is what a
  player relies on. It needs no assumption.
- `AsyncSqlProofs`. `ConnectionSafe` from the invariant `IInv`: type correctness,
  `NoLostWakeUp`, `BatchCovers`, `DrainedAtEnd` and `Ended`, which says that the thread
  drains only after `m_bEnd` was set and that the main thread waits for it only
  then; without it a push could come after the drain. The assumption is that
  the semaphore takes at least one post (`SqlAssumption`). `ConnectionIsQueue`: the
  initial states and every step map to `SqlQueue`, with `Pending` (what is copied,
  then what is pushed) for the queue and a failure for `troubled`; copying and
  waiting are stutters, a retry is `Trouble`, and the top of the loop, told to end,
  `Abandon`s what a batch has left behind.
- `PriceListProofs`. `WakeUpsKept`, `BatchesCover`, `FlushesDrained`: the three
  invariants of the connection hold for what the price list does with it, whose
  handlers push several queries each and whose flush at the end comes before `Quit`
  (`IInv`).
  `TypeCorrect` and `RowsAlwaysFit` depend on each other: a list fits because the
  rows it was loaded from do, and the rows fit because lists do. `FlowInv` is about
  the stream of all queries not executed yet, what the thread has copied before what is
  pushed before what a flush still pushes: every INSERT in it is one of those behind a
  DELETE of its owner, no more than a list has entries, or what is left of such a
  flush at the front of the stream, with as many fewer rows in the table
  (`Bounded`); and what a load has answered fits (`Answered`). It holds until a DELETE is
  abandoned, and no result is handled then.
  `PricesKept` adds `Fresh`: a result of a load brings the rows as they are, unless a
  query that writes them has been executed since or is still in the stream. So a
  load that nothing has overtaken brings back what counts, and the rows after the
  whole stream (`Left`) are what a flush has taken out of the cache. What an update
  makes of a list is `UpdateMerges`.
  `PricesOverQueue`: under the price list the connection is the queue of `SqlQueue`. Each
  handler does to the connection what a user of it may (`SqlSteps`); the rest is the
  step lemma of `AsyncSqlProofs`. The assumptions are `PriceAssumption`: there is an
  update, none is empty or longer than a list.
- `LoginSessionProofs`. `TypeCorrect`, `DanglingFree` and `LogonOwned` from `SessionInv`, under
  every fault and reconnection: packets are on the connection of the client's core
  (`Routed`), queries name a peer that their core is or was (`QueryPeers`), who has an
  account table has asked for a login (`KeysKnown`), a core names a client of its own
  (`NamesBound`), and the maps of the DB server refer to allocated objects that are not
  about to be freed, the logon entry to one of a peer that exists (`Data`). Assumptions: there
  are more objects than keys and two (`MemoryAssumption`, memory does not run out), and
  the mark for a freed object is no login data (`FreedAssumption`).
  `OneSessionAlways` adds `TokenInv`, for as long as no connection has broken whose core lives: per peer
  there is a bound client, a LOGIN_SUCCESS or a LOGOUT under way, one of them only,
  and if there is one the logon entry belongs to that peer (`Tokens`), so that it is
  one of all peers; a core without a connection has nothing of the account, every other
  core's connection is in the list of peers, and no SETUP names anybody (`Clean`).
- `ExchangeProofs`. `StaysPaired`, `BlocksOffered` and `KeepsAccepted` from `IInv`: the
  types of who owns what, that no item is in two slots (`SlotsHold`), that only who is
  in an exchange has accepted (`AcceptsRun`), `Paired` and `Blocked`. `Blocked` is
  kept by a trade because what `Done` moves was offered and, by `Check`, still there,
  so that no item of a third exchange moves (`DoneMoves`, `EndOK`). `KeepsAccepted`
  needs `Paired`: the side that changes its offer takes back the accept of the
  one that names it.
  `TypeCorrect` and `StaysApart` need what the search does: after each slot, what it
  has placed is free, within a page, apart, and counted as taken (`SearchOK`,
  `SearchRuns`). That items are apart at first is assumed (`FirstAssumption`; a load
  puts them where they were).
  `TradesWhole` (`AllOrNothing`) has one hard part. `CheckSpace` of the second side has
  searched the inventory as it was, `Done` searches it when the first side's items
  have left, so that fewer cells are taken - and a first-fit search may fail with
  fewer cells taken, if sizes differ. For one size it cannot (`OneSizeFits`): let
  the first item without a place be the m-th; every item up to m had a place in
  the old search, and that place is now blocked by an item that came earlier and
  begins in it or above it (`Overlap`); m - 1 items would block m disjoint places, but
  one column of cells cannot begin in two disjoint ones of its size (`BothIn`).
  `GoldNeverMade` (`NoGoldMade`): gold is counted coin by coin, as pairs of a holder
  and a number, so that the coins of one holder can be told from those of the others
  (`CoinsApart`). A trade is the hard case, since both sides pay and are paid in one step:
  `Check` lets neither pay what it has not got, and a gain that `GOLD_MAX` or the int
  caps only loses some. It assumes finitely many characters (`ExchangeAssumption`).

Only model-checked: `Durable`, `LeftOversServed`, `QuitReturns`, `LogonFreed`, `KickedOut` and
the fairness of `ImplementsQueue`, because liveness is outside the prover. With faults,
the refinement of `ItemStore` is neither proved nor checked: two of the runs show what
happens then.

In `ListsKept` the proof corrected the property. As first stated it held in the run
and not with four queries pending: a result may set right what one that was overtaken
had set back, and one read before a flush may come after it, neither of which `Overtaken`
named. It also asked a list to be full of different prices before one is pushed out,
which is so only if no update names a kind twice; the handler does not see to that.

## What the models leave out

- `ItemIdRange`: packet framing; the leak of a spare on disconnect is in the
  model and no property is against it.
- `ItemCache`: one core, one character per account (the account that owns a
  safebox has the name of its player); the game core's delayed save
  (`ITEM_MANAGER::DelayedSave`, flushed each pulse) is immediate; the mall and
  item awards; a client that is gone before it is logged in; a crash of the DB
  server, which loses dirty entries by design; a shutdown of the DB server while
  somebody plays.
- The contents of a row other than owner and window are one value of `Data`.
- `AsyncSql`: failures that are not retried, the locale, `DirectQuery` (executed by the
  main thread on a connection of its own), the shared `CMemoryPool`; results that
  come back after the main loop has ended are never handled, in the code as here.
- `PriceList`: the answers to the core; the value of a price in an update is
  arbitrary, as the handler adds the size of a header to a pointer to one
  (`ClientManager.cpp:2033`); the cache object that a timer flush does not free.
- `LoginSession`: passwords and the auth server, billing, the creation of the row
  in `player_index`, the timers of the logout list, a restart of the DB server; the
  two queries of a login are one. `DeleteLoginKey` is never sent. Answers that change
  nothing on the core; the return from the game to the list of characters
  (`cmd_general.cpp`, PHASE_SELECT); a LOGIN_SUCCESS whose status is not OK, which
  the core answers with a LOGOUT: LOGIN_BY_KEY always sets OK
  (`ClientManagerLogin.cpp:146`), and HEADER_GD_LOGIN, which does not, is never handled.
- `Exchange`: counts of stacks, items that may not be given, the grid of the window,
  waiting times, and what the DB server is sent: nothing saves both sides together,
  so a core that crashes between the saves has moved one side only.
- Not modelled at all: creation and deletion of characters (independent queries
  without a promise), guild wars, parties, marriages and privileges (copies kept in
  step by broadcasts), shops and timed events (one thread of one core), the
  offline shop (SQL of its own), combat, quests, maps and the client.

## Plan

1. `ItemIdRange` and its proofs - done.
2. `ItemStore`, `ItemCache`, proofs of type and `SetsAgree` - done.
3. `SqlQueue`, `AsyncSql`, `PriceList`, proofs of safety and of the refinement - done.
4. `LoginSession`, proofs of type, maps and the single session - done.
5. `Exchange`, proofs of pairs, places and of all or nothing - done.
6. Proofs: the refinement of `ItemStore` without faults, exclusive ids, rows and
   prices of `PriceList`, gold of `Exchange` - done. Every safety property a run
   checks is a theorem.
7. Lemmas that several proof modules need (sequences, `NatSet`) in a module of their
   own - planned.
