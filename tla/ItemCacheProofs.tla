--------------------------- MODULE ItemCacheProofs ---------------------------
(***************************************************************************)
(* Proofs about ItemCache, for any items, players and bound of queries, and*)
(* whichever faults may happen.                                            *)
(***************************************************************************)
EXTENDS ItemCache, SequenceTheorems, FiniteSetTheorems, TLAPS

\* The types the lemmas speak of: the cache, the sets, the table, the view.
Caches == [Item -> Entry \cup {NoEntry}]
Sets == [Player -> (SUBSET Item) \cup {NoSet}]
Table == [Item -> Row \cup {NoRow}]
View == [Item -> Row \cup {Loose, Offline}]

-----------------------------------------------------------------------------
(* Lemmas about rows and entries.                                          *)

\* The fields of a row.
LEMMA RowType ==
    /\ \A row \in Row : row.owner \in Player
    /\ \A p \in Player, d \in Data : Inventory(p, d) \in Row /\ Safebox(p, d) \in Row
BY DEF Row, Inventory, Safebox

\* What PutItemCache writes into an entry is an entry.
LEMMA PutEntryType ==
    ASSUME cache \in Caches, NEW sets, NEW i \in Item, NEW row \in Row,
           NEW skip \in BOOLEAN
    PROVE  PutEntry(sets, i, row, skip) \in Entry
<1>1. NeedQuery(i) \in BOOLEAN
  BY DEF NeedQuery, Cached, Caches, Entry
<1>2. HasSet(sets, row.owner) \in BOOLEAN
  BY DEF HasSet
<1>3. PutEntry(sets, i, row, skip).m_bNeedQuery \in BOOLEAN
  BY <1>1, <1>2 DEF PutEntry
<1> QED BY <1>3 DEF PutEntry, Entry

\* PutItemCache of some rows leaves a cache.
LEMMA PutType ==
    ASSUME cache \in Caches, NEW sets, NEW rows \in Rows, NEW skip \in BOOLEAN
    PROVE  Put(sets, rows, skip) \in Caches
<1>1. \A i \in DOMAIN rows : rows[i] \in Row
  BY DEF Rows
<1>2. \A i \in Item : i \in DOMAIN rows => PutEntry(sets, i, rows[i], skip) \in Entry
  BY <1>1, PutEntryType
<1> QED BY <1>2 DEF Put, Caches

\* ... and sets.
LEMMA PutInSetsType ==
    ASSUME NEW sets \in Sets, NEW rows \in Rows
    PROVE  PutInSets(sets, rows) \in Sets
<1>1. DOMAIN rows \subseteq Item
  BY DEF Rows
<1>2. ASSUME NEW p \in Player, HasSet(sets, p) PROVE sets[p] \subseteq Item
  BY <1>2 DEF HasSet, Sets
<1> QED BY <1>1, <1>2 DEF PutInSets, Sets

\* Giving a player a set.
LEMMA WithSetType ==
    ASSUME set \in Sets, NEW p \in Player
    PROVE  WithSet(p) \in Sets /\ HasSet(WithSet(p), p)
<1>1. {} # NoSet
  BY MarkAssumption
<1> QED BY <1>1 DEF WithSet, HasSet, Sets

\* One row, as the function PutItemCache takes.
LEMMA OneRowType ==
    ASSUME NEW i \in Item, NEW row \in Row
    PROVE  [id \in {i} |-> row] \in Rows
<1>1. [id \in {i} |-> row] \in [{i} -> Row] /\ {i} \in SUBSET Item
  OBVIOUS
<1> QED BY <1>1 DEF Rows

\* Flushing entries leaves a cache.
LEMMA FlushedType ==
    ASSUME cache \in Caches, NEW items
    PROVE  Flushed(items) \in Caches
BY DEF Flushed, Caches, Cached, Entry

-----------------------------------------------------------------------------
(* Lemmas about queries, their queue and their results.                    *)

\* The queries the handlers make are queries.
LEMMA QueryType ==
    /\ \A i \in Item, row \in Row : Replace(i, row) \in Query
    /\ \A i \in Item : Delete(i) \in Query
    /\ \A op \in SelectOp, p \in Player : Select(op, p) \in Query
    /\ \A p \in Player, b \in BOOLEAN :
            [Select("BOXITEM", p) EXCEPT !.live = b] \in Query
BY DEF Replace, Delete, Select, Query, SelectOp

\* A query and the operation it has.
LEMMA QueryCases ==
    ASSUME NEW q \in Query
    PROVE  /\ q.op = "REPLACE" => q.id \in Item /\ q.row \in Row
           /\ q.op = "DELETE" => q.id \in Item
           /\ q.op \in SelectOp => /\ q.pid \in Player /\ q.live \in BOOLEAN
                                   /\ q = [op |-> q.op, pid |-> q.pid,
                                           live |-> q.live]
BY DEF Query, SelectOp, Void

\* OnFlush makes a query of a cached item.
LEMMA OnFlushType ==
    ASSUME cache \in Caches, NEW i \in Item, Cached(i)
    PROVE  OnFlush(i) \in Query
BY QueryType DEF OnFlush, Cached, Caches, Entry

\* A flush of several items makes a sequence of queries, in whichever order.
LEMMA FlushQueriesType ==
    ASSUME cache \in Caches, NEW items \in SUBSET Item,
           NEW queries \in FlushQueries(items)
    PROVE  queries \in Seq(Query)
<1> DEFINE dirty == { i \in items : NeedQuery(i) }
<1>1. PICK s \in SetToSeqs(dirty) : queries = [n \in DOMAIN s |-> OnFlush(s[n])]
  BY DEF FlushQueries
<1>2. IsFiniteSet(dirty)
  BY FiniteAssumption, FS_Subset
<1>3. Cardinality(dirty) \in Nat
  BY <1>2, FS_CardinalityType
<1>4. s \in [1..Cardinality(dirty) -> dirty]
  BY <1>1 DEF SetToSeqs
<1>5. \A n \in 1..Cardinality(dirty) : OnFlush(s[n]) \in Query
  BY <1>4, OnFlushType DEF NeedQuery
<1>6. queries \in [1..Cardinality(dirty) -> Query]
  BY <1>1, <1>4, <1>5
<1> QED BY <1>3, <1>6, SeqDef

\* A row written directly, or not.
LEMMA DirectSaveType ==
    ASSUME NEW sets, NEW i \in Item, NEW row \in Row
    PROVE  DirectSave(sets, i, row) \in Seq(Query)
BY QueryType DEF DirectSave

\* Sending queries extends the queue of the connection.
LEMMA SendType ==
    ASSUME sql \in Seq(Query), NEW queries \in Seq(Query), Send(queries)
    PROVE  sql' \in Seq(Query)
BY ConcatProperties DEF Send

\* One or two queries, sent together.
LEMMA SendOneType ==
    ASSUME sql \in Seq(Query), NEW q \in Query,
           Send(<<q>>) \/ \E r \in Query : Send(<<q, r>>)
    PROVE  sql' \in Seq(Query)
<1>1. <<q>> \in Seq(Query) /\ \A r \in Query : <<q, r>> \in Seq(Query)
  OBVIOUS
<1> QED BY <1>1, SendType

\* A queue whose peer, or whose client, is gone is still a queue.
LEMMA VoidedType ==
    ASSUME NEW queue
    PROVE  /\ queue \in Seq(Query) => Voided(queue) \in Seq(Query)
           /\ queue \in Seq(Result) => Voided(queue) \in Seq(Result)
<1>1. ASSUME NEW S, queue \in Seq(S), Void \in S
      PROVE  Voided(queue) \in Seq(S)
  <2>1. Len(queue) \in Nat /\ queue \in [1..Len(queue) -> S]
           /\ DOMAIN queue = 1..Len(queue)
    BY <1>1, LenProperties
  <2>2. Voided(queue) \in [1..Len(queue) -> S]
    BY <1>1, <2>1 DEF Voided
  <2> QED BY <2>1, <2>2, SeqDef
<1>2. Void \in Query /\ Void \in Result
  BY DEF Query, Result
<1> QED BY <1>1, <1>2

LEMMA UnhandledType ==
    ASSUME NEW queue, NEW p
    PROVE  /\ queue \in Seq(Query) => Unhandled(queue, p) \in Seq(Query)
           /\ queue \in Seq(Result) => Unhandled(queue, p) \in Seq(Result)
<1>1. ASSUME NEW S, queue \in Seq(S),
             \A q \in S : q.op \in SelectOp => [q EXCEPT !.live = FALSE] \in S
      PROVE  Unhandled(queue, p) \in Seq(S)
  <2>1. Len(queue) \in Nat /\ queue \in [1..Len(queue) -> S]
           /\ DOMAIN queue = 1..Len(queue)
    BY <1>1, LenProperties
  <2>2. Unhandled(queue, p) \in [1..Len(queue) -> S]
    BY <1>1, <2>1 DEF Unhandled
  <2> QED BY <2>1, <2>2, SeqDef
<1>2. \A q \in Query : q.op \in SelectOp => [q EXCEPT !.live = FALSE] \in Query
  BY DEF Query, SelectOp, Void
<1>3. \A q \in Result : q.op \in SelectOp => [q EXCEPT !.live = FALSE] \in Result
  BY DEF Result, SelectOp, Void
<1> QED BY <1>1, <1>2, <1>3

\* A query leaves a table.
LEMMA ApplyType ==
    ASSUME NEW tbl \in Table, NEW q \in Query
    PROVE  Apply(tbl, q) \in Table
BY QueryCases DEF Apply, Table

\* The rows a query brings are rows.
LEMMA ResultRowsType ==
    ASSUME table \in Table, NEW q \in Query
    PROVE  ResultRows(q) \in Rows
<1>1. ASSUME NEW p, NEW w PROVE RowsOf(table, p, w) \in Rows
  <2> DEFINE ids == { i \in Item : table[i] # NoRow
                          /\ table[i].owner = p /\ table[i].window = w }
  <2>1. \A i \in ids : table[i] \in Row
    BY DEF Table
  <2>2. RowsOf(table, p, w) \in [ids -> Row]
    BY <2>1 DEF RowsOf
  <2>3. ids \in SUBSET Item
    OBVIOUS
  <2> HIDE DEF ids
  <2> QED BY <2>2, <2>3 DEF Rows
<1>2. <<>> \in Rows
  BY DEF Rows
<1> QED BY <1>1, <1>2 DEF ResultRows

-----------------------------------------------------------------------------
(* Lemmas about what the game core has.                                    *)

\* Rows that enter the game where an item is missing.
LEMMA LoadedType ==
    ASSUME view \in View, NEW rows \in Rows, NEW fresh \in SUBSET (DOMAIN rows)
    PROVE  [i \in Item |-> IF i \in fresh THEN rows[i] ELSE view[i]] \in View
<1>1. \A i \in fresh : rows[i] \in Row
  BY DEF Rows
<1> QED BY <1>1 DEF View

\* Items that leave the game.
LEMMA GoOfflineType ==
    ASSUME view \in View, NEW items, GoOffline(items)
    PROVE  view' \in View
BY DEF View, GoOffline

\* An item the game core saves.
LEMMA HoldsType ==
    ASSUME view \in View, NEW i \in Item, NEW v \in Row \cup {Loose, Offline},
           Holds(i, v)
    PROVE  view' \in View
BY DEF View, Holds

\* The result that is handled, and those that wait.
LEMMA HeadResultType ==
    ASSUME results \in Seq(Result), NEW op \in SelectOp, NEW p, HasResult(op, p)
    PROVE  /\ Head(results) \in Result
           /\ Head(results).rows \in Rows /\ Head(results).live \in BOOLEAN
           /\ Tail(results) \in Seq(Result)
<1>1. Head(results) \in Result /\ Tail(results) \in Seq(Result)
  BY HeadTailProperties DEF HasResult
<1>2. Head(results).op \in SelectOp
  BY DEF HasResult
<1> QED BY <1>1, <1>2 DEF Result, SelectOp, Void

\* The rows QUERY_PLAYER_LOAD sends from a set.
LEMMA CachedRowsType ==
    ASSUME TypeOK, SetsAgree, NEW p \in Player, HasSet(set, p)
    PROVE  CachedRows(p) \in Rows
<1> DEFINE items == { i \in set[p] : ~cache[i].deleted }
<1>1. items \in SUBSET Item
  BY DEF TypeOK, HasSet
<1>2. \A i \in items : cache[i].row \in Row
  BY <1>1 DEF TypeOK, SetsAgree, Cached, Entry
<1>3. CachedRows(p) \in [items -> Row]
  BY <1>2 DEF CachedRows
<1> HIDE DEF items
<1> QED BY <1>1, <1>3 DEF Rows

-----------------------------------------------------------------------------
(* The sets refer to live entries of their owners.                         *)

\* SetsAgree of any sets and entries: a step computes new ones from old ones.
Agree(sets, entries) ==
    \A p \in Player : HasSet(sets, p) =>
        \A i \in sets[p] : entries[i] # NoEntry /\ entries[i].row.owner = p

LEMMA AgreeIsSetsAgree == SetsAgree <=> Agree(set, cache)
BY DEF SetsAgree, Agree, Cached

\* A step that changes no owner of an entry that is in a set.
LEMMA SameOwners ==
    ASSUME SetsAgree, set' = set,
           \A p \in Player, i \in Item :
               HasSet(set, p) /\ i \in set[p] =>
                   cache'[i] # NoEntry /\ cache'[i].row.owner = cache[i].row.owner,
           \A p \in Player : HasSet(set, p) => set[p] \subseteq Item
    PROVE  SetsAgree'
BY DEF SetsAgree, Cached, HasSet

\* A new set is empty.
LEMMA WithSetAgrees ==
    ASSUME SetsAgree, set \in Sets, NEW p \in Player
    PROVE  Agree(WithSet(p), cache)
BY AgreeIsSetsAgree DEF Agree, WithSet, HasSet, Sets

\* PutItemCache takes an item out of the set of its old owner, and puts it into
\* the set of its new one.
LEMMA PutAgrees ==
    ASSUME cache \in Caches, NEW sets \in Sets, NEW rows \in Rows,
           NEW skip \in BOOLEAN, Agree(sets, cache)
    PROVE  Agree(PutInSets(sets, rows), Put(sets, rows, skip))
<1> SUFFICES ASSUME NEW p \in Player, HasSet(PutInSets(sets, rows), p),
                    NEW i \in PutInSets(sets, rows)[p]
             PROVE  /\ Put(sets, rows, skip)[i] # NoEntry
                    /\ Put(sets, rows, skip)[i].row.owner = p
  BY DEF Agree
<1>1. HasSet(sets, p)
  BY DEF HasSet, PutInSets
<1>2. DOMAIN rows \subseteq Item /\ \A j \in DOMAIN rows : rows[j] \in Row
  BY DEF Rows
<1>3. i \in Item
  BY <1>1, <1>2 DEF PutInSets, HasSet, Sets
<1>4. CASE i \in DOMAIN rows
  <2>1. PutEntry(sets, i, rows[i], skip) \in Entry
    BY <1>2, <1>3, <1>4, PutEntryType
  <2>2. rows[i].owner = p
    BY <1>1, <1>4 DEF PutInSets, Agree, Cached
  <2>3. Put(sets, rows, skip)[i] = PutEntry(sets, i, rows[i], skip)
    BY <1>3, <1>4 DEF Put
  <2>4. PutEntry(sets, i, rows[i], skip).row = rows[i]
    BY DEF PutEntry
  <2> QED BY <2>1, <2>2, <2>3, <2>4, MarkAssumption
<1>5. CASE i \notin DOMAIN rows
  <2>1. i \in sets[p]
    BY <1>1, <1>5 DEF PutInSets
  <2>2. Put(sets, rows, skip)[i] = cache[i]
    BY <1>3, <1>5 DEF Put
  <2> QED BY <1>1, <2>1, <2>2 DEF Agree
<1> QED BY <1>4, <1>5

\* FlushItemCacheSet deletes the entries of one set and the set; the others do
\* not refer to them.
LEMMA FlushItemCacheSetKeeps ==
    ASSUME TypeOK, SetsAgree, NEW p \in Player, FlushItemCacheSet(p)
    PROVE  cache' \in Caches /\ set' \in Sets /\ sql' \in Seq(Query) /\ SetsAgree'
<1>0. cache \in Caches /\ set \in Sets /\ sql \in Seq(Query)
  BY DEF TypeOK, Caches, Sets
<1>1. CASE ~HasSet(set, p)
  BY <1>0, <1>1 DEF FlushItemCacheSet, SetsAgree, HasSet, Cached
<1>2. CASE HasSet(set, p)
  <2>1. set[p] \in SUBSET Item
    BY <1>0, <1>2 DEF Sets, HasSet
  <2>2. sql' \in Seq(Query)
    <3>1. PICK queries \in FlushQueries(set[p]) : Send(queries)
      BY <1>2 DEF FlushItemCacheSet
    <3> QED BY <1>0, <2>1, <3>1, FlushQueriesType, SendType
  <2>3. cache' = [i \in Item |-> IF i \in set[p] THEN NoEntry ELSE cache[i]]
           /\ set' = [set EXCEPT ![p] = NoSet]
    BY <1>2 DEF FlushItemCacheSet
  <2>4. cache' \in Caches /\ set' \in Sets
    BY <1>0, <2>3 DEF Caches, Sets
  <2>5. ASSUME NEW q \in Player, set'[q] # NoSet, NEW i \in set'[q]
        PROVE  cache'[i] # NoEntry /\ cache'[i].row.owner = q
    <3>1. q # p /\ set'[q] = set[q]
      BY <1>0, <2>3, <2>5 DEF Sets
    <3>2. i \in Item /\ cache[i] # NoEntry /\ cache[i].row.owner = q
      BY <1>0, <2>5, <3>1 DEF SetsAgree, HasSet, Cached, Sets
    <3>3. i \notin set[p]
      BY <1>2, <3>1, <3>2 DEF SetsAgree
    <3> QED BY <2>3, <3>2, <3>3
  <2>6. SetsAgree'
    BY <2>5 DEF SetsAgree, HasSet, Cached
  <2> QED BY <2>2, <2>4, <2>6
<1> QED BY <1>1, <1>2

-----------------------------------------------------------------------------
(* The inductive invariant, kept by every action.                          *)

\* The types of the rows QUERY_PLAYER_LOAD sends depend on the sets, so the two
\* are proved together.
IInv == TypeOK /\ SetsAgree

\* TypeOK by the types of the lemmas, before and after a step.
LEMMA TypeParts ==
    ASSUME IInv
    PROVE  /\ db \in {"up", "ending"} /\ phase \in [Player -> Phase]
           /\ view \in View /\ lastOwner \in [Item -> Player \cup {NoOwner}]
           /\ box \in [Player -> {"closed", "opening", "open"}]
           /\ play \subseteq Player /\ playerCache \subseteq Player
           /\ logout \subseteq Player /\ async \subseteq Item
           /\ cache \in Caches /\ set \in Sets /\ sql \in Seq(Query)
           /\ results \in Seq(Result) /\ table \in Table
           /\ TypeOK /\ SetsAgree
BY DEF IInv, TypeOK, View, Caches, Sets, Table

LEMMA IInvAfter ==
    ASSUME db' \in {"up", "ending"}, phase' \in [Player -> Phase],
           view' \in View, lastOwner' \in [Item -> Player \cup {NoOwner}],
           box' \in [Player -> {"closed", "opening", "open"}],
           play' \subseteq Player, playerCache' \subseteq Player,
           logout' \subseteq Player, async' \subseteq Item,
           cache' \in Caches, set' \in Sets, sql' \in Seq(Query),
           results' \in Seq(Result), table' \in Table, SetsAgree'
    PROVE  IInv'
BY DEF IInv, TypeOK, View, Caches, Sets, Table

\* Init satisfies it.
LEMMA InitIInv == Init => IInv
<1> SUFFICES ASSUME Init PROVE IInv
  OBVIOUS
<1>1. TypeOK
  BY EmptySeq DEF Init, TypeOK, Phase
<1>2. SetsAgree
  BY DEF Init, SetsAgree, HasSet
<1> QED BY <1>1, <1>2 DEF IInv

\* Steps that touch neither the cache nor the sets.
LEMMA CacheUntouched ==
    ASSUME SetsAgree, UNCHANGED cacheVars
    PROVE  SetsAgree'
BY DEF cacheVars, SetsAgree, HasSet, Cached

\* Logging in, selecting a character and asking for a safebox.
LEMMA RequestSteps ==
    ASSUME IInv, NEW p \in Player,
           Login(p) \/ LoadPlayerFromSql(p) \/ ReqSafeboxLoad(p) \/ SavePlayer(p)
    PROVE  IInv'
<1>1. SetsAgree'
  BY TypeParts, CacheUntouched
     DEF cacheVars, Login, LoadPlayerFromSql, ReqSafeboxLoad, SavePlayer
<1>2. Select("LOGIN", p) \in Query /\ Select("PLAYER", p) \in Query
         /\ Select("ITEM", p) \in Query /\ Select("BOX", p) \in Query
  BY QueryType DEF SelectOp
<1>3. CASE Login(p)
  <2>1. sql' \in Seq(Query)
    BY <1>2, <1>3, TypeParts, SendOneType DEF Login
  <2>2. phase' \in [Player -> Phase]
    BY <1>3, TypeParts DEF Login, Phase
  <2> QED BY <1>1, <1>3, <2>1, <2>2, TypeParts, IInvAfter
          DEF Login, cacheVars
<1>4. CASE LoadPlayerFromSql(p)
  <2>1. sql' \in Seq(Query)
    BY <1>2, <1>4, TypeParts, SendOneType DEF LoadPlayerFromSql
  <2>2. phase' \in [Player -> Phase]
    BY <1>4, TypeParts DEF LoadPlayerFromSql, Phase
  <2> QED BY <1>1, <1>4, <2>1, <2>2, TypeParts, IInvAfter
          DEF LoadPlayerFromSql, cacheVars
<1>5. CASE ReqSafeboxLoad(p)
  <2>1. sql' \in Seq(Query)
    BY <1>2, <1>5, TypeParts, SendOneType DEF ReqSafeboxLoad
  <2>2. box' \in [Player -> {"closed", "opening", "open"}]
    BY <1>5, TypeParts DEF ReqSafeboxLoad
  <2> QED BY <1>1, <1>5, <2>1, <2>2, TypeParts, IInvAfter
          DEF ReqSafeboxLoad, cacheVars, playerVars
<1>6. CASE SavePlayer(p)
  BY <1>1, <1>6, TypeParts, IInvAfter DEF SavePlayer, cacheVars, gameVars, sqlVars
<1> QED BY <1>3, <1>4, <1>5, <1>6

\* QUERY_PLAYER_LOAD of a cached player.
LEMMA LoadCachedPlayerStep ==
    ASSUME IInv, NEW p \in Player, LoadCachedPlayer(p)
    PROVE  IInv'
<1>1. UNCHANGED <<db, box, cacheVars, playerCache, results, async, table>>
         /\ logout' = logout \ {p}
  BY DEF LoadCachedPlayer
<1>2. /\ phase' \in [Player -> Phase] /\ view' \in View /\ play' \subseteq Player
      /\ lastOwner' \in [Item -> Player \cup {NoOwner}] /\ sql' \in Seq(Query)
  <2>1. CASE p \in play
    BY <2>1, TypeParts DEF LoadCachedPlayer, Phase
  <2>2. CASE p \notin play /\ HasSet(set, p)
    <3> DEFINE rows == CachedRows(p)
               fresh == { i \in DOMAIN rows : view[i] = Offline }
    <3>1. rows \in Rows
      BY <2>2, TypeParts, CachedRowsType
    <3>2. /\ view' = [i \in Item |-> IF i \in fresh THEN rows[i] ELSE view[i]]
          /\ lastOwner' = [i \in Item |-> IF i \in fresh THEN p ELSE lastOwner[i]]
          /\ phase' = [phase EXCEPT ![p] = "game"]
          /\ play' = play \cup {p} /\ sql' = sql
      BY <2>2 DEF LoadCachedPlayer
    <3> HIDE DEF rows
    <3>3. view' \in View
      BY <3>1, <3>2, TypeParts, LoadedType
    <3> QED BY <3>2, <3>3, TypeParts DEF Phase
  <2>3. CASE p \notin play /\ ~HasSet(set, p)
    <3>1. Select("ITEM", p) \in Query
      BY QueryType DEF SelectOp
    <3>2. sql' \in Seq(Query)
      BY <2>3, <3>1, TypeParts, SendOneType DEF LoadCachedPlayer
    <3> QED BY <2>3, <3>2, TypeParts DEF LoadCachedPlayer, Phase
  <2> QED BY <2>1, <2>2, <2>3
<1>3. SetsAgree'
  BY <1>1, TypeParts, CacheUntouched DEF cacheVars
<1> QED BY <1>1, <1>2, <1>3, TypeParts, IInvAfter DEF cacheVars

\* The results that carry no items, and those whose peer is gone.
LEMMA ResultSteps ==
    ASSUME IInv, NEW p \in Player,
           RESULT_LOGIN(p) \/ RESULT_PLAYER_LOAD(p) \/ RESULT_SAFEBOX(p)
               \/ CancelSafeboxLoad(p)
    PROVE  IInv'
<1>1. SetsAgree'
  BY TypeParts, CacheUntouched
     DEF cacheVars, RESULT_LOGIN, RESULT_PLAYER_LOAD, RESULT_SAFEBOX,
         CancelSafeboxLoad
<1>2. \A op \in SelectOp : HasResult(op, p) =>
           Tail(results) \in Seq(Result) /\ Head(results).live \in BOOLEAN
  BY TypeParts, HeadResultType
<1>3. CASE RESULT_LOGIN(p)
  <2>1. results' \in Seq(Result)
    BY <1>2, <1>3 DEF RESULT_LOGIN, PopResult, SelectOp
  <2>2. phase' \in [Player -> Phase]
    BY <1>3, TypeParts DEF RESULT_LOGIN, Phase
  <2> QED BY <1>1, <1>3, <2>1, <2>2, TypeParts, IInvAfter
          DEF RESULT_LOGIN, cacheVars, playerVars
<1>4. CASE RESULT_PLAYER_LOAD(p)
  <2>1. results' \in Seq(Result)
    BY <1>2, <1>4 DEF RESULT_PLAYER_LOAD, PopResult, SelectOp
  <2>2. phase' \in [Player -> Phase] /\ play' \subseteq Player
    BY <1>4, TypeParts DEF RESULT_PLAYER_LOAD, Phase
  <2> QED BY <1>1, <1>4, <2>1, <2>2, TypeParts, IInvAfter
          DEF RESULT_PLAYER_LOAD, cacheVars
<1>5. CASE RESULT_SAFEBOX(p)
  <2>1. results' \in Seq(Result) /\ Live \in BOOLEAN
    BY <1>2, <1>5 DEF RESULT_SAFEBOX, PopResult, SelectOp, Live
  <2>2. sql' \in Seq(Query)
    BY <1>5, <2>1, TypeParts, QueryType, SendOneType DEF RESULT_SAFEBOX
  <2> QED BY <1>1, <1>5, <2>1, <2>2, TypeParts, IInvAfter
          DEF RESULT_SAFEBOX, cacheVars, gameVars, playerVars
<1>6. CASE CancelSafeboxLoad(p)
  <2>1. results' \in Seq(Result)
    BY <1>2, <1>6 DEF CancelSafeboxLoad, PopResult, SelectOp
  <2>2. box' \in [Player -> {"closed", "opening", "open"}]
    BY <1>6, TypeParts DEF CancelSafeboxLoad
  <2> QED BY <1>1, <1>6, <2>1, <2>2, TypeParts, IInvAfter
          DEF CancelSafeboxLoad, cacheVars, playerVars
<1> QED BY <1>3, <1>4, <1>5, <1>6

\* RESULT_ITEM_LOAD puts the rows into the cache and into the set of the player.
LEMMA ItemLoadStep ==
    ASSUME IInv, NEW p \in Player, RESULT_ITEM_LOAD(p)
    PROVE  IInv'
<1> DEFINE rows == Head(results).rows
<1>1. HasResult("ITEM", p) /\ results' = Tail(results) /\ ItemLoad(p, rows)
         /\ cache' = Put(WithSet(p), rows, TRUE)
         /\ set' = PutInSets(WithSet(p), rows)
         /\ UNCHANGED <<db, box, playerVars, sql, async, table>>
  BY DEF RESULT_ITEM_LOAD, PopResult
<1>2. rows \in Rows /\ results' \in Seq(Result)
  <2>1. "ITEM" \in SelectOp
    BY DEF SelectOp
  <2> QED BY <1>1, <2>1, TypeParts, HeadResultType
<1> HIDE DEF rows
<1>3. WithSet(p) \in Sets /\ Agree(WithSet(p), cache)
  BY TypeParts, WithSetType, WithSetAgrees
<1>4. cache' \in Caches /\ set' \in Sets
  BY <1>1, <1>2, <1>3, TypeParts, PutType, PutInSetsType
<1>5. SetsAgree'
  <2>1. Agree(set', cache')
    BY <1>1, <1>2, <1>3, TypeParts, PutAgrees
  <2> QED BY <2>1 DEF SetsAgree, Agree, Cached, HasSet
<1>6. /\ phase' \in [Player -> Phase] /\ view' \in View
      /\ lastOwner' \in [Item -> Player \cup {NoOwner}]
  <2>1. CASE Live /\ phase[p] = "spawned"
    <3> DEFINE fresh == { i \in DOMAIN rows : view[i] = Offline }
    <3>1. /\ view' = [i \in Item |-> IF i \in fresh THEN rows[i] ELSE view[i]]
          /\ lastOwner' = [i \in Item |-> IF i \in fresh THEN p ELSE lastOwner[i]]
          /\ phase' = [phase EXCEPT ![p] = "game"]
      BY <1>1, <2>1 DEF ItemLoad
    <3>2. view' \in View
      BY <1>2, <3>1, TypeParts, LoadedType
    <3> QED BY <3>1, <3>2, TypeParts DEF Phase
  <2>2. CASE ~(Live /\ phase[p] = "spawned")
    BY <1>1, <2>2, TypeParts DEF ItemLoad
  <2> QED BY <2>1, <2>2
<1> QED BY <1>1, <1>2, <1>4, <1>5, <1>6, TypeParts, IInvAfter DEF playerVars

\* LoadSafebox: the rows enter the game, and the cache does not see them.
LEMMA SafeboxItemStep ==
    ASSUME IInv, NEW p \in Player, RESULT_SAFEBOX_ITEM(p)
    PROVE  IInv'
<1> DEFINE rows == Head(results).rows
           fresh == { i \in DOMAIN rows : view[i] = Offline }
<1>1. rows \in Rows /\ results' \in Seq(Result)
  <2>1. "BOXITEM" \in SelectOp /\ HasResult("BOXITEM", p) /\ results' = Tail(results)
    BY DEF SelectOp, RESULT_SAFEBOX_ITEM, PopResult
  <2> QED BY <2>1, TypeParts, HeadResultType
<1>2. \/ UNCHANGED <<view, lastOwner, box>>
      \/ /\ box' = [box EXCEPT ![p] = "open"]
         /\ view' = [i \in Item |-> IF i \in fresh THEN rows[i] ELSE view[i]]
         /\ lastOwner' = [i \in Item |-> IF i \in fresh THEN NoOwner ELSE lastOwner[i]]
  BY DEF RESULT_SAFEBOX_ITEM
<1>3. UNCHANGED <<db, phase, cacheVars, playerVars, sql, async, table>>
  BY DEF RESULT_SAFEBOX_ITEM
<1> HIDE DEF rows
<1>4. view' \in View
  <2>1. fresh \in SUBSET (DOMAIN rows)
    OBVIOUS
  <2> HIDE DEF fresh
  <2>2. [i \in Item |-> IF i \in fresh THEN rows[i] ELSE view[i]] \in View
    BY <1>1, <2>1, TypeParts, LoadedType
  <2> QED BY <1>2, <2>2, TypeParts
<1>5. SetsAgree'
  BY <1>3, TypeParts, CacheUntouched
<1>6. lastOwner' \in [Item -> Player \cup {NoOwner}]
         /\ box' \in [Player -> {"closed", "opening", "open"}]
  BY <1>2, TypeParts
<1> QED BY <1>1, <1>3, <1>4, <1>5, <1>6, TypeParts, IInvAfter
        DEF playerVars, cacheVars

\* A save of an item in an inventory, with the sets and entries it leaves.
LEMMA PutOneStep ==
    ASSUME IInv, NEW i \in Item, NEW row \in Row
    PROVE  LET rows == [id \in {i} |-> row]
           IN  /\ Put(set, rows, FALSE) \in Caches
               /\ Put(set, rows, FALSE)[i] \in Entry
               /\ PutInSets(set, rows) \in Sets
               /\ Agree(PutInSets(set, rows), Put(set, rows, FALSE))
<1> DEFINE rows == [id \in {i} |-> row]
<1>1. rows \in Rows /\ i \in DOMAIN rows /\ rows[i] = row
  BY OneRowType
<1> HIDE DEF rows
<1>2. Agree(set, cache)
  BY TypeParts, AgreeIsSetsAgree
<1>3. Put(set, rows, FALSE) \in Caches
  BY <1>1, TypeParts, PutType
<1>4. PutInSets(set, rows) \in Sets
  BY <1>1, TypeParts, PutInSetsType
<1>5. Agree(PutInSets(set, rows), Put(set, rows, FALSE))
  BY <1>1, <1>2, TypeParts, PutAgrees
<1>6. Put(set, rows, FALSE)[i] \in Entry
  <2>1. PutEntry(set, i, row, FALSE) \in Entry
    BY TypeParts, PutEntryType
  <2> QED BY <1>1, <2>1 DEF Put
<1> QED BY <1>3, <1>4, <1>5, <1>6 DEF rows

LEMMA SaveItemStep ==
    ASSUME IInv, NEW p \in Player, NEW i \in Item, NEW d \in Data, SaveItem(p, i, d)
    PROVE  IInv'
<1> DEFINE row == Inventory(p, d)
           rows == [id \in {i} |-> row]
<1>1. row \in Row
  BY RowType
<1>2. /\ Holds(i, row) /\ lastOwner' = [lastOwner EXCEPT ![i] = p]
      /\ cache' = Put(set, rows, FALSE) /\ set' = PutInSets(set, rows)
      /\ Send(DirectSave(set, i, row))
      /\ UNCHANGED <<db, phase, box, playerVars, results, async, table>>
  BY DEF SaveItem
<1> HIDE DEF row
<1>3. cache' \in Caches /\ set' \in Sets /\ Agree(set', cache')
  BY <1>1, <1>2, PutOneStep
<1>4. SetsAgree'
  BY <1>3 DEF SetsAgree, Agree, Cached, HasSet
<1>5. view' \in View /\ sql' \in Seq(Query)
  BY <1>1, <1>2, TypeParts, HoldsType, DirectSaveType, SendType
<1>6. lastOwner' \in [Item -> Player \cup {NoOwner}]
  BY <1>2, TypeParts
<1> QED BY <1>2, <1>3, <1>4, <1>5, <1>6, TypeParts, IInvAfter DEF playerVars

\* SafeboxCheckout: the entry is made, and flushed at once.
LEMMA SafeboxCheckoutStep ==
    ASSUME IInv, NEW p \in Player, NEW i \in Item, SafeboxCheckout(p, i)
    PROVE  IInv'
<1> DEFINE row == Inventory(p, view[i].data)
           rows == [id \in {i} |-> row]
           entries == Put(set, rows, FALSE)
<1>1. row \in Row
  BY TypeParts, RowType DEF SafeboxCheckout, Row
<1>2. /\ Holds(i, row) /\ lastOwner' = [lastOwner EXCEPT ![i] = p]
      /\ cache' = [entries EXCEPT ![i].m_bNeedQuery = FALSE]
      /\ set' = PutInSets(set, rows) /\ Send(CheckoutFlush(i, row))
      /\ UNCHANGED <<db, phase, box, playerVars, results, async, table>>
  BY DEF SafeboxCheckout
<1> HIDE DEF row
<1>3. entries \in Caches /\ entries[i] \in Entry /\ set' \in Sets
         /\ Agree(set', entries)
  BY <1>1, <1>2, PutOneStep
<1> HIDE DEF entries
<1>4. cache' \in Caches
         /\ \A j \in Item : /\ entries[j] # NoEntry => cache'[j] # NoEntry
                            /\ cache'[j].row = entries[j].row
                               \/ entries[j] = NoEntry
  BY <1>2, <1>3, MarkAssumption DEF Caches, Entry
<1>5. SetsAgree'
  <2>1. SUFFICES ASSUME NEW q \in Player, set'[q] # NoSet, NEW j \in set'[q]
                 PROVE  cache'[j] # NoEntry /\ cache'[j].row.owner = q
    BY DEF SetsAgree, HasSet, Cached
  <2>2. j \in Item /\ entries[j] # NoEntry /\ entries[j].row.owner = q
    BY <1>3, <2>1 DEF Agree, HasSet, Sets
  <2> QED BY <1>4, <2>2
<1>6. view' \in View
  BY <1>1, <1>2, TypeParts, HoldsType
<1>7. sql' \in Seq(Query)
  BY <1>1, <1>2, TypeParts, QueryType, SendOneType DEF CheckoutFlush
<1>8. lastOwner' \in [Item -> Player \cup {NoOwner}]
  BY <1>2, TypeParts
<1> QED BY <1>2, <1>3, <1>4, <1>5, <1>6, <1>7, <1>8, TypeParts, IInvAfter
        DEF playerVars

\* An item enters the safebox: its entry goes, and with it the only reference.
LEMMA SaveSafeboxItemStep ==
    ASSUME IInv, NEW p \in Player, NEW i \in Item, NEW d \in Data,
           SaveSafeboxItem(p, i, d)
    PROVE  IInv'
<1> DEFINE row == Safebox(p, d)
<1>1. row \in Row
  BY RowType
<1>2. /\ Holds(i, row) /\ cache' = [cache EXCEPT ![i] = NoEntry]
      /\ set' = IF Cached(i) /\ HasSet(set, cache[i].row.owner)
                THEN [set EXCEPT ![cache[i].row.owner] = @ \ {i}] ELSE set
      /\ Send(<<Replace(i, row)>>)
      /\ UNCHANGED <<db, phase, lastOwner, box, playerVars, results, async, table>>
  BY DEF SaveSafeboxItem, WithoutEntry
<1> HIDE DEF row
<1>3. view' \in View /\ sql' \in Seq(Query)
  BY <1>1, <1>2, TypeParts, HoldsType, QueryType, SendOneType
<1>4. cache' \in Caches
  BY <1>2, TypeParts DEF Caches
<1>5. set' \in Sets
  BY <1>2, TypeParts DEF Sets, HasSet
<1>6. SetsAgree'
  <2>1. SUFFICES ASSUME NEW q \in Player, set'[q] # NoSet, NEW j \in set'[q]
                 PROVE  cache'[j] # NoEntry /\ cache'[j].row.owner = q
    BY DEF SetsAgree, HasSet, Cached
  <2>2. set[q] # NoSet /\ j \in set[q] /\ j \in Item
    BY <1>2, <1>5, <2>1, TypeParts DEF Sets, HasSet
  <2>3. cache[j] # NoEntry /\ cache[j].row.owner = q
    BY <2>2, TypeParts DEF SetsAgree, HasSet, Cached
  <2>4. j # i
    BY <1>2, <2>1, <2>2, <2>3, TypeParts DEF Cached, HasSet, Sets
  <2> QED BY <1>2, <2>2, <2>3, <2>4, TypeParts DEF Caches
<1> QED BY <1>2, <1>3, <1>4, <1>5, <1>6, TypeParts, IInvAfter DEF playerVars

\* QUERY_ITEM_DESTROY leaves the entry, deleted, where it is.
LEMMA DestroyItemStep ==
    ASSUME IInv, NEW i \in Item, DestroyItem(i)
    PROVE  IInv'
<1>1. Holds(i, Loose) /\ set' = set
         /\ UNCHANGED <<db, phase, lastOwner, box, playerVars, results, table>>
  BY DEF DestroyItem
<1>2. view' \in View
  BY <1>1, TypeParts, HoldsType
<1>3. CASE ~Cached(i)
  <2>1. sql' \in Seq(Query) /\ async' \subseteq Item
    BY <1>3, TypeParts, QueryType, SendOneType DEF DestroyItem, DeleteUncached
  <2>2. UNCHANGED cacheVars
    BY <1>1, <1>3 DEF DestroyItem, cacheVars
  <2>3. SetsAgree'
    BY <2>2, TypeParts, CacheUntouched
  <2> QED BY <1>1, <1>2, <2>1, <2>2, <2>3, TypeParts, IInvAfter
          DEF playerVars, cacheVars
<1>4. CASE Cached(i)
  <2>1. cache' = [cache EXCEPT ![i].deleted = TRUE,
                               ![i].m_bNeedQuery = @ /\ cache[i].deleted]
           /\ Send(IF cache[i].deleted THEN <<>> ELSE <<Delete(i)>>)
           /\ async' = async
    BY <1>4 DEF DestroyItem
  <2>2. cache[i] \in Entry
    BY <1>4, TypeParts DEF Cached, Caches
  <2> DEFINE e == [cache[i] EXCEPT !.deleted = TRUE,
                                   !.m_bNeedQuery = @ /\ cache[i].deleted]
  <2>3. e \in Entry /\ e.row = cache[i].row
    <3>1. (cache[i].m_bNeedQuery /\ cache[i].deleted) \in BOOLEAN
      OBVIOUS
    <3> QED BY <2>2, <3>1 DEF Entry
  <2>4. cache' = [cache EXCEPT ![i] = e]
    BY <2>1, TypeParts DEF Caches
  <2> HIDE DEF e
  <2>5. cache' \in Caches
    BY <2>3, <2>4, TypeParts DEF Caches
  <2>6. SetsAgree'
    <3>1. \A p \in Player : HasSet(set, p) => set[p] \subseteq Item
      BY TypeParts DEF HasSet, Sets
    <3>2. ASSUME NEW p \in Player, NEW j \in Item, HasSet(set, p), j \in set[p]
          PROVE  cache'[j] # NoEntry /\ cache'[j].row.owner = cache[j].row.owner
      <4>1. cache[j] # NoEntry
        BY <3>2, TypeParts DEF SetsAgree, Cached
      <4> QED BY <2>3, <2>4, <4>1, TypeParts, MarkAssumption DEF Caches
    <3> QED BY <1>1, <3>1, <3>2, TypeParts, SameOwners
  <2>7. sql' \in Seq(Query)
    <3>1. CASE cache[i].deleted
      BY <2>1, <3>1, TypeParts, EmptySeq, SendType
    <3>2. CASE ~cache[i].deleted
      BY <2>1, <3>2, TypeParts, QueryType, SendOneType
    <3> QED BY <3>1, <3>2
  <2> QED BY <1>1, <1>2, <2>1, <2>5, <2>6, <2>7, TypeParts, IInvAfter
          DEF playerVars
<1> QED BY <1>3, <1>4

\* Players, safeboxes and game cores that leave: the cache stays as it is.
LEMMA LeaveSteps ==
    ASSUME IInv, (\E p \in Player : CloseSafebox(p) \/ Disconnect(p)) \/ CoreCrash
    PROVE  IInv'
<1>1. UNCHANGED <<db, lastOwner, cacheVars, async, table>>
  BY DEF CloseSafebox, Disconnect, CoreCrash, sqlVars
<1>2. SetsAgree'
  BY <1>1, TypeParts, CacheUntouched
<1>3. view' \in View
  BY TypeParts, GoOfflineType DEF CloseSafebox, Disconnect, CoreCrash
<1>4. ASSUME NEW p \in Player, CloseSafebox(p) PROVE IInv'
  <2>1. box' \in [Player -> {"closed", "opening", "open"}]
    BY <1>4, TypeParts DEF CloseSafebox
  <2> QED BY <1>1, <1>2, <1>3, <1>4, <2>1, TypeParts, IInvAfter
          DEF CloseSafebox, playerVars, sqlVars, cacheVars
<1>5. ASSUME NEW p \in Player, Disconnect(p) PROVE IInv'
  <2>1. /\ phase' \in [Player -> Phase]
        /\ box' \in [Player -> {"closed", "opening", "open"}]
    BY <1>5, TypeParts DEF Disconnect, Phase
  <2>2. /\ playerCache' \subseteq Player /\ logout' \subseteq Player
        /\ play' \subseteq Player
    BY <1>5, TypeParts DEF Disconnect
  <2>3. sql' \in Seq(Query) /\ results' \in Seq(Result)
    BY <1>5, TypeParts, UnhandledType DEF Disconnect
  <2> QED BY <1>1, <1>2, <1>3, <2>1, <2>2, <2>3, TypeParts, IInvAfter
          DEF cacheVars
<1>6. CASE CoreCrash
  <2>1. /\ phase' \in [Player -> Phase]
        /\ box' \in [Player -> {"closed", "opening", "open"}]
        /\ play' \subseteq Player
        /\ UNCHANGED <<playerCache, logout>>
    BY <1>6, TypeParts DEF CoreCrash, Phase
  <2>2. sql' \in Seq(Query) /\ results' \in Seq(Result)
    BY <1>6, TypeParts, VoidedType DEF CoreCrash
  <2> QED BY <1>1, <1>2, <1>3, <2>1, <2>2, TypeParts, IInvAfter
          DEF cacheVars
<1> QED BY <1>4, <1>5, <1>6

\* The timers flush entries, and leave them in their sets.
LEMMA FlushSteps ==
    ASSUME IInv,
           \/ \E p \in Player : UpdatePlayerCache(p)
           \/ \E i \in Item : UpdateItemCache(i)
    PROVE  IInv'
<1>1. /\ set' = set
      /\ UNCHANGED <<db, gameVars, playerVars, results, async, table>>
      /\ \E items \in SUBSET Item : cache' = Flushed(items)
      /\ sql' \in Seq(Query)
  <2>1. ASSUME NEW p \in Player, UpdatePlayerCache(p)
        PROVE  /\ \E items \in SUBSET Item : cache' = Flushed(items)
               /\ sql' \in Seq(Query)
    <3>1. set[p] \in SUBSET Item
      BY <2>1, TypeParts DEF UpdatePlayerCache, HasSet, Sets
    <3>2. PICK queries \in FlushQueries(set[p]) : Send(queries)
      BY <2>1 DEF UpdatePlayerCache
    <3>3. sql' \in Seq(Query)
      BY <3>1, <3>2, TypeParts, FlushQueriesType, SendType
    <3> QED BY <2>1, <3>1, <3>3 DEF UpdatePlayerCache
  <2>2. ASSUME NEW i \in Item, UpdateItemCache(i)
        PROVE  /\ \E items \in SUBSET Item : cache' = Flushed(items)
               /\ sql' \in Seq(Query)
    <3>1. Cached(i) /\ Send(<<OnFlush(i)>>) /\ cache' = Flushed({i})
      BY <2>2 DEF UpdateItemCache, NeedQuery
    <3> QED BY <3>1, TypeParts, OnFlushType, SendOneType
  <2> QED BY <2>1, <2>2 DEF UpdatePlayerCache, UpdateItemCache
<1>2. PICK items \in SUBSET Item : cache' = Flushed(items)
  BY <1>1
<1>3. cache' \in Caches
  BY <1>2, TypeParts, FlushedType
<1>4. SetsAgree'
  <2>1. \A p \in Player : HasSet(set, p) => set[p] \subseteq Item
    BY TypeParts DEF HasSet, Sets
  <2>2. ASSUME NEW p \in Player, NEW j \in Item, HasSet(set, p), j \in set[p]
        PROVE  cache'[j] # NoEntry /\ cache'[j].row.owner = cache[j].row.owner
    <3>1. Cached(j) /\ cache[j] \in Entry
      BY <2>2, TypeParts DEF SetsAgree, Cached, Caches
    <3>2. cache'[j] \in Entry /\ cache'[j].row = cache[j].row
      BY <1>2, <3>1 DEF Flushed, Entry
    <3> QED BY <3>2, MarkAssumption
  <2> QED BY <1>1, <2>1, <2>2, TypeParts, SameOwners
<1> QED BY <1>1, <1>3, <1>4, TypeParts, IInvAfter DEF gameVars, playerVars

\* A player is evicted.
LEMMA EvictSteps ==
    ASSUME IInv, NEW p \in Player, UpdateLogoutPlayer(p) \/ QUERY_FLUSH_CACHE(p)
    PROVE  IInv'
<1>1. FlushItemCacheSet(p)
  BY DEF UpdateLogoutPlayer, QUERY_FLUSH_CACHE
<1>2. cache' \in Caches /\ set' \in Sets /\ sql' \in Seq(Query) /\ SetsAgree'
  BY <1>1, TypeParts, FlushItemCacheSetKeeps
<1>3. /\ playerCache' = playerCache \ {p}
      /\ logout' = logout \/ logout' = logout \ {p}
      /\ UNCHANGED <<db, gameVars, play, results, async, table>>
  BY DEF UpdateLogoutPlayer, QUERY_FLUSH_CACHE
<1>4. playerCache' \subseteq Player /\ logout' \subseteq Player
  BY <1>3, TypeParts
<1> QED BY <1>2, <1>3, <1>4, TypeParts, IInvAfter DEF gameVars

\* The threads of the connections.
LEMMA SqlSteps ==
    ASSUME IInv, Execute \/ DropResult \/ \E i \in Item : ExecuteAsync(i)
    PROVE  IInv'
<1>1. UNCHANGED <<db, gameVars, cacheVars, playerVars>>
  BY DEF Execute, DropResult, ExecuteAsync
<1>2. SetsAgree'
  BY <1>1, TypeParts, CacheUntouched
<1>3. sql' \in Seq(Query) /\ results' \in Seq(Result) /\ async' \subseteq Item
         /\ table' \in Table
  <2>1. CASE Execute
    <3> DEFINE q == Head(sql)
               r == [op |-> q.op, pid |-> q.pid, live |-> q.live,
                     rows |-> ResultRows(q)]
    <3>1. sql' \in Seq(Query) /\ q \in Query
      BY <2>1, TypeParts, HeadTailProperties DEF Execute
    <3>2. table' \in Table /\ async' = async
      BY <2>1, <3>1, TypeParts, ApplyType DEF Execute
    <3>3. results' = IF q.op \in SelectOp THEN Append(results, r) ELSE results
      BY <2>1 DEF Execute
    <3>4. ResultRows(q) \in Rows
      BY <3>1, TypeParts, ResultRowsType
    <3>5. q.op \in SelectOp => r \in Result
      BY <3>1, <3>4, QueryCases DEF Result
    <3> HIDE DEF r
    <3>6. results' \in Seq(Result)
      BY <3>3, <3>5, TypeParts, AppendProperties
    <3> QED BY <3>1, <3>2, <3>6, TypeParts
  <2>2. CASE DropResult
    BY <2>2, TypeParts, HeadTailProperties DEF DropResult, PopResult
  <2>3. ASSUME NEW i \in Item, ExecuteAsync(i)
        PROVE  sql' = sql /\ results' = results /\ async' \subseteq Item
                  /\ table' \in Table
    BY <2>3, TypeParts DEF ExecuteAsync, Table
  <2> QED BY <2>1, <2>2, <2>3, TypeParts
<1> QED BY <1>1, <1>2, <1>3, TypeParts, IInvAfter
        DEF gameVars, cacheVars, playerVars

\* The end of the DB server and its next start.
LEMMA DbSteps ==
    ASSUME IInv, DbEnd \/ DbRestart
    PROVE  IInv'
<1>1. CASE DbEnd
  <2>1. PICK queries \in FlushQueries(Item) : Send(queries)
    BY <1>1 DEF DbEnd
  <2>2. sql' \in Seq(Query)
    BY <2>1, TypeParts, FlushQueriesType, SendType
  <2>3. results' \in Seq(Result)
    BY <1>1, TypeParts, VoidedType DEF DbEnd
  <2>4. cache' \in Caches /\ set' \in Sets /\ SetsAgree'
    BY <1>1 DEF DbEnd, Caches, Sets, SetsAgree, HasSet
  <2> QED BY <1>1, <2>2, <2>3, <2>4, TypeParts, IInvAfter DEF DbEnd, gameVars
<1>2. CASE DbRestart
  <2>1. SetsAgree'
    BY <1>2, TypeParts, CacheUntouched DEF DbRestart
  <2> QED BY <1>2, <2>1, TypeParts, IInvAfter, EmptySeq
          DEF DbRestart, gameVars, cacheVars, playerVars
<1> QED BY <1>1, <1>2

-----------------------------------------------------------------------------
\* Every step keeps the inductive invariant.
LEMMA NextIInv == IInv /\ [Next]_vars => IInv'
<1> SUFFICES ASSUME IInv, [Next]_vars PROVE IInv'
  OBVIOUS
<1>1. ASSUME NEW p \in Player, PlayerStep(p) PROVE IInv'
  BY <1>1, RequestSteps, LoadCachedPlayerStep, LeaveSteps, EvictSteps,
     SafeboxCheckoutStep, SaveItemStep, SaveSafeboxItemStep DEF PlayerStep
<1>2. ASSUME NEW p \in Player, ResultStep(p) PROVE IInv'
  BY <1>2, ResultSteps, ItemLoadStep, SafeboxItemStep DEF ResultStep
<1>3. ASSUME NEW p \in Player, UpdatePlayerCache(p) \/ UpdateLogoutPlayer(p)
      PROVE  IInv'
  BY <1>3, FlushSteps, EvictSteps
<1>4. ASSUME NEW i \in Item, DestroyItem(i) \/ UpdateItemCache(i) \/ ExecuteAsync(i)
      PROVE  IInv'
  BY <1>4, DestroyItemStep, FlushSteps, SqlSteps
<1>5. CASE Execute \/ DropResult \/ CoreCrash \/ DbEnd \/ DbRestart
  BY <1>5, SqlSteps, LeaveSteps, DbSteps
<1>6. CASE UNCHANGED vars
  <2>1. SetsAgree'
    BY <1>6, TypeParts, CacheUntouched DEF vars, cacheVars
  <2> QED BY <1>6, <2>1, TypeParts, IInvAfter DEF vars
<1> QED BY <1>1, <1>2, <1>3, <1>4, <1>5, <1>6 DEF Next

THEOREM InductiveInvariant == Spec => []IInv
BY InitIInv, NextIInv, PTL DEF Spec

\* Every reachable state of the caches, queues and game is type correct: a cache
\* entry, a queued query and a result are always whole, for any number of items
\* and players and whichever faults happen.
THEOREM CacheTypeCorrect == Spec => []TypeOK
<1>1. IInv => TypeOK
  BY DEF IInv
<1> QED BY <1>1, InductiveInvariant, PTL

\* An item cache set never refers to an entry that is gone or that belongs to
\* another player, so FlushItemCacheSet frees each entry once, and what
\* QUERY_PLAYER_LOAD sends from a set are entries of that player.
THEOREM CacheSetsAgree == Spec => []SetsAgree
<1>1. IInv => SetsAgree
  BY DEF IInv
<1> QED BY <1>1, InductiveInvariant, PTL
=============================================================================
