------------------------- MODULE ItemCacheStoreProofs -------------------------
(***************************************************************************)
(* Proofs that the caches, sets, timers and queues of ItemCache implement  *)
(* ItemStore, for any items, players and bound of queries.                 *)
(*                                                                         *)
(* The queue comes first: what a flush, a save or a SELECT at the end of   *)
(* the queue makes of the rows SQL will have (Executed, Written).  Then    *)
(* three invariants, each resting on the one before:                       *)
(*   SetInv    every entry is in the set of its owner, who has one, if     *)
(*             items come only to characters that are loaded and no cache  *)
(*             of a player who plays is flushed;                           *)
(*   TurnInv   questions and answers keep their turns: who plays waits for *)
(*             no items, and one load at most is under way for a player;   *)
(*   StoreInv  entries, queries under way and the game agree on every row. *)
(* The last two hold if Faults = {}.                                       *)
(***************************************************************************)
EXTENDS ItemCacheProofs, NaturalsInduction, WellFoundedInduction

-----------------------------------------------------------------------------
(* The table after some queries.                                           *)

\* Induction: a set with 0, closed under the successor, has every number.
LEMMA NatSet ==
    ASSUME NEW S, 0 \in S, \A n \in Nat : n \in S => n + 1 \in S
    PROVE  Nat \subseteq S
<1> DEFINE R == OpToRel(<, Nat)
           T == Nat \ S
<1>1. SUFFICES ASSUME T # {} PROVE FALSE
  OBVIOUS
<1>2. IsWellFoundedOn(R, Nat)
  BY NatLessThanWellFounded
<1>3. PICK m \in T : \A k \in T : <<k, m>> \notin R
  <2> HIDE DEF R
  <2>1. T \subseteq Nat
    OBVIOUS
  <2> HIDE DEF T
  <2> QED BY <1>1, <1>2, <2>1, WFMin
<1>4. \A k \in T : ~(k < m)
  BY <1>3 DEF OpToRel
<1>5. m \in Nat /\ m # 0 /\ m \notin S
  OBVIOUS
<1>6. m - 1 \in Nat /\ m - 1 \in S
  BY <1>4, <1>5
<1>7. (m - 1) + 1 \in S
  BY <1>6
<1> QED BY <1>5, <1>7

\* The recursion that defines Executed has a solution, and Executed is one.
LEMMA ExecutedSteps ==
    ASSUME NEW tbl, NEW queue \in Seq(Query)
    PROVE  /\ Executed(tbl, queue)[0] = tbl
           /\ \A n \in 1 .. Len(queue) :
                  Executed(tbl, queue)[n] = Apply(Executed(tbl, queue)[n - 1], queue[n])
<1> DEFINE After(x, n) == Apply(x, queue[n])
           IsTable(f, n) == f = [k \in 0 .. n |-> IF k = 0 THEN tbl ELSE After(f[k - 1], k)]
           S == { n \in Nat : \E f : IsTable(f, n) }
<1> HIDE DEF After
<1>1. 0 \in S
  <2> DEFINE f == [k \in 0 .. 0 |-> tbl]
  <2>1. IsTable(f, 0)
    OBVIOUS
  <2> QED BY <2>1
<1>2. ASSUME NEW n \in Nat, n \in S
      PROVE  n + 1 \in S
  <2>1. PICK f : IsTable(f, n)
    BY <1>2
  <2> DEFINE g == [k \in 0 .. n + 1 |-> IF k = n + 1 THEN After(f[n], n + 1) ELSE f[k]]
  <2>2. \A k \in 0 .. n + 1 : g[k] = IF k = 0 THEN tbl ELSE After(g[k - 1], k)
    <3>1. SUFFICES ASSUME NEW k \in 0 .. n + 1
                   PROVE  g[k] = IF k = 0 THEN tbl ELSE After(g[k - 1], k)
      OBVIOUS
    <3>2. CASE k = 0
      BY <2>1, <3>2
    <3>3. CASE k = n + 1
      <4>1. g[k] = After(f[n], k) /\ k # 0 /\ k - 1 = n /\ g[n] = f[n]
        BY <3>3
      <4> QED BY <4>1
    <3>4. CASE k # 0 /\ k # n + 1
      <4>1. k \in 0 .. n /\ k - 1 \in 0 .. n /\ k - 1 # n + 1
        BY <3>4
      <4>2. g[k] = f[k] /\ g[k - 1] = f[k - 1]
        BY <3>4, <4>1
      <4>3. f[k] = After(f[k - 1], k)
        BY <2>1, <3>4, <4>1
      <4> QED BY <3>4, <4>2, <4>3
    <3> QED BY <3>2, <3>3, <3>4
  <2>3. IsTable(g, n + 1)
    BY <2>2
  <2> HIDE DEF g, IsTable
  <2>4. \E h : IsTable(h, n + 1)
    BY <2>3
  <2> QED BY <2>4
<1>3. Nat \subseteq S
  <2> HIDE DEF S
  <2> QED BY <1>1, <1>2, NatSet
<1>4. Len(queue) \in Nat
  OBVIOUS
<1>5. \E f : IsTable(f, Len(queue))
  BY <1>3, <1>4
<1>6. Executed(tbl, queue) = CHOOSE f : IsTable(f, Len(queue))
  BY DEF Executed, After
<1>7. IsTable(Executed(tbl, queue), Len(queue))
  <2> HIDE DEF IsTable
  <2> QED BY <1>5, <1>6
<1> QED BY <1>4, <1>7 DEF After

\* ... and the only one.
LEMMA ExecutedUnique ==
    ASSUME NEW tbl, NEW queue \in Seq(Query), NEW f, f[0] = tbl,
           \A n \in 1 .. Len(queue) : f[n] = Apply(f[n - 1], queue[n])
    PROVE  \A n \in 0 .. Len(queue) : f[n] = Executed(tbl, queue)[n]
<1> DEFINE t == Executed(tbl, queue)
           S == { n \in Nat : n <= Len(queue) => f[n] = t[n] }
<1>1. t[0] = tbl /\ \A n \in 1 .. Len(queue) : t[n] = Apply(t[n - 1], queue[n])
  BY ExecutedSteps
<1> HIDE DEF t
<1>2. 0 \in S
  BY <1>1
<1>3. Len(queue) \in Nat
  OBVIOUS
<1>4. ASSUME NEW n \in Nat, n \in S
      PROVE  n + 1 \in S
  <2>1. SUFFICES ASSUME n + 1 <= Len(queue) PROVE f[n + 1] = t[n + 1]
    OBVIOUS
  <2>2. f[n] = t[n]
    BY <1>3, <1>4, <2>1
  <2>3. n + 1 \in 1 .. Len(queue) /\ (n + 1) - 1 = n
    BY <1>3, <2>1
  <2>4. f[n + 1] = Apply(f[n], queue[n + 1]) /\ t[n + 1] = Apply(t[n], queue[n + 1])
    BY <1>1, <2>3
  <2> QED BY <2>2, <2>4
<1>5. Nat \subseteq S
  <2> HIDE DEF S
  <2> QED BY <1>2, <1>4, NatSet
<1> QED BY <1>3, <1>5 DEF t

\* Every table on the way is a table.
LEMMA ExecutedType ==
    ASSUME NEW tbl \in Table, NEW queue \in Seq(Query)
    PROVE  \A n \in 0 .. Len(queue) : Executed(tbl, queue)[n] \in Table
<1> DEFINE t == Executed(tbl, queue)
           S == { n \in Nat : n <= Len(queue) => t[n] \in Table }
<1>1. t[0] = tbl /\ \A n \in 1 .. Len(queue) : t[n] = Apply(t[n - 1], queue[n])
  BY ExecutedSteps
<1> HIDE DEF t
<1>2. 0 \in S
  BY <1>1
<1>3. Len(queue) \in Nat /\ \A n \in 1 .. Len(queue) : queue[n] \in Query
  OBVIOUS
<1>4. ASSUME NEW n \in Nat, n \in S
      PROVE  n + 1 \in S
  <2>1. SUFFICES ASSUME n + 1 <= Len(queue) PROVE t[n + 1] \in Table
    OBVIOUS
  <2>2. t[n] \in Table
    BY <1>3, <1>4, <2>1
  <2>3. n + 1 \in 1 .. Len(queue) /\ (n + 1) - 1 = n
    BY <1>3, <2>1
  <2>4. t[n + 1] = Apply(t[n], queue[n + 1])
    BY <1>1, <2>3
  <2> QED BY <1>3, <2>2, <2>3, <2>4, ApplyType
<1>5. Nat \subseteq S
  <2> HIDE DEF S
  <2> QED BY <1>2, <1>4, NatSet
<1> QED BY <1>3, <1>5 DEF t

\* Queries that are sent come after those that wait, and change what comes out
\* of them.
LEMMA ExecutedSent ==
    ASSUME NEW tbl, NEW queue \in Seq(Query), NEW more \in Seq(Query)
    PROVE  /\ queue \o more \in Seq(Query) /\ Len(queue \o more) = Len(queue) + Len(more)
           /\ \A n \in 0 .. Len(queue) :
                  Executed(tbl, queue \o more)[n] = Executed(tbl, queue)[n]
           /\ \A n \in 0 .. Len(more) :
                  Executed(tbl, queue \o more)[Len(queue) + n]
                      = Executed(Executed(tbl, queue)[Len(queue)], more)[n]
<1> DEFINE all == queue \o more
           t == Executed(tbl, all)
           u == Executed(tbl, queue)
           f == [n \in 0 .. Len(more) |-> t[Len(queue) + n]]
<1>1. /\ all \in Seq(Query) /\ Len(all) = Len(queue) + Len(more)
      /\ Len(queue) \in Nat /\ Len(more) \in Nat
      /\ \A n \in 1 .. Len(queue) : all[n] = queue[n]
      /\ \A n \in 1 .. Len(more) : all[Len(queue) + n] = more[n]
  OBVIOUS
<1> HIDE DEF all
<1>2. t[0] = tbl /\ \A n \in 1 .. Len(all) : t[n] = Apply(t[n - 1], all[n])
  BY <1>1, ExecutedSteps
<1> HIDE DEF t
<1>3. \A n \in 1 .. Len(queue) : t[n] = Apply(t[n - 1], queue[n])
  BY <1>1, <1>2
<1>4. \A n \in 0 .. Len(queue) : t[n] = u[n]
  BY <1>2, <1>3, ExecutedUnique
<1> HIDE DEF u
<1>5. f[0] = u[Len(queue)]
  BY <1>1, <1>4
<1>6. ASSUME NEW n \in 1 .. Len(more)
      PROVE  f[n] = Apply(f[n - 1], more[n])
  <2>1. /\ Len(queue) + n \in 1 .. Len(all) /\ n \in 0 .. Len(more)
        /\ n - 1 \in 0 .. Len(more)
        /\ (Len(queue) + n) - 1 = Len(queue) + (n - 1)
    BY <1>1
  <2>2. t[Len(queue) + n] = Apply(t[Len(queue) + (n - 1)], more[n])
    BY <1>1, <1>2, <2>1
  <2> QED BY <2>1, <2>2
<1>7. \A n \in 0 .. Len(more) : f[n] = Executed(u[Len(queue)], more)[n]
  <2> HIDE DEF f
  <2> QED BY <1>5, <1>6, ExecutedUnique
<1>8. \A n \in 0 .. Len(more) : t[Len(queue) + n] = Executed(u[Len(queue)], more)[n]
  BY <1>7
<1> QED BY <1>1, <1>4, <1>8 DEF all, t, u

\* The head of the queue is executed: every later table stays as it was.
LEMMA ExecutedHead ==
    ASSUME NEW tbl, NEW queue \in Seq(Query), queue # <<>>
    PROVE  /\ Tail(queue) \in Seq(Query) /\ Len(Tail(queue)) = Len(queue) - 1
           /\ \A n \in 0 .. Len(queue) - 1 :
                  Executed(Apply(tbl, Head(queue)), Tail(queue))[n]
                      = Executed(tbl, queue)[n + 1]
<1> DEFINE rest == Tail(queue)
           t == Executed(tbl, queue)
           f == [n \in 0 .. Len(rest) |-> t[n + 1]]
<1>1. /\ rest \in Seq(Query) /\ Len(rest) = Len(queue) - 1 /\ Len(queue) \in Nat
      /\ Len(queue) # 0 /\ Head(queue) = queue[1]
      /\ \A n \in 1 .. Len(rest) : rest[n] = queue[n + 1]
  OBVIOUS
<1> HIDE DEF rest
<1>2. t[0] = tbl /\ \A n \in 1 .. Len(queue) : t[n] = Apply(t[n - 1], queue[n])
  BY ExecutedSteps
<1> HIDE DEF t
<1>3. f[0] = Apply(tbl, Head(queue))
  <2>1. 1 \in 1 .. Len(queue) /\ 1 - 1 = 0 /\ 0 \in 0 .. Len(rest) /\ 0 + 1 = 1
    BY <1>1
  <2>2. t[1] = Apply(t[0], queue[1])
    BY <1>2, <2>1
  <2> QED BY <1>1, <1>2, <2>1, <2>2
<1>4. ASSUME NEW n \in 1 .. Len(rest)
      PROVE  f[n] = Apply(f[n - 1], rest[n])
  <2>1. n + 1 \in 1 .. Len(queue) /\ (n + 1) - 1 = n /\ (n - 1) + 1 = n
           /\ n \in 0 .. Len(rest) /\ n - 1 \in 0 .. Len(rest)
    BY <1>1
  <2>2. t[n + 1] = Apply(t[n], queue[n + 1])
    BY <1>2, <2>1
  <2> QED BY <1>1, <2>1, <2>2
<1>5. \A n \in 0 .. Len(rest) : f[n] = Executed(Apply(tbl, Head(queue)), rest)[n]
  <2> HIDE DEF f
  <2> QED BY <1>1, <1>3, <1>4, ExecutedUnique
<1> QED BY <1>1, <1>5 DEF rest, t

\* Queries whose peer or client is gone change the table as before.
LEMMA ExecutedSame ==
    ASSUME NEW tbl, NEW queue \in Seq(Query), NEW other \in Seq(Query),
           Len(other) = Len(queue),
           \A n \in 1 .. Len(queue) : other[n] = queue[n]
               \/ ~(queue[n].op \in {"REPLACE", "DELETE"} \/ other[n].op \in {"REPLACE", "DELETE"})
    PROVE  \A n \in 0 .. Len(queue) : Executed(tbl, other)[n] = Executed(tbl, queue)[n]
<1> DEFINE t == Executed(tbl, queue)
<1>1. t[0] = tbl /\ \A n \in 1 .. Len(queue) : t[n] = Apply(t[n - 1], queue[n])
  BY ExecutedSteps
<1> HIDE DEF t
<1>2. \A n \in 1 .. Len(other) : t[n] = Apply(t[n - 1], other[n])
  BY <1>1 DEF Apply
<1>3. \A n \in 0 .. Len(other) : t[n] = Executed(tbl, other)[n]
  BY <1>1, <1>2, ExecutedUnique
<1> QED BY <1>3 DEF t

-----------------------------------------------------------------------------
(* What queries do to the row of one item.                                 *)

Touches(q, i) == q.op \in {"REPLACE", "DELETE"} /\ q.id = i
RowOf(q) == IF q.op = "REPLACE" THEN q.row ELSE NoRow

LEMMA ApplyAt ==
    ASSUME NEW tbl \in Table, NEW q \in Query, NEW i \in Item
    PROVE  Apply(tbl, q)[i] = IF Touches(q, i) THEN RowOf(q) ELSE tbl[i]
BY QueryCases DEF Apply, Table, Touches, RowOf

\* Queries none of which is about an item leave its row.
LEMMA ExecutedUntouched ==
    ASSUME NEW tbl \in Table, NEW queue \in Seq(Query), NEW i \in Item,
           \A n \in 1 .. Len(queue) : ~Touches(queue[n], i)
    PROVE  Executed(tbl, queue)[Len(queue)][i] = tbl[i]
<1> DEFINE t == Executed(tbl, queue)
           S == { n \in Nat : n <= Len(queue) => t[n][i] = tbl[i] }
<1>1. /\ t[0] = tbl /\ \A n \in 1 .. Len(queue) : t[n] = Apply(t[n - 1], queue[n])
      /\ \A n \in 0 .. Len(queue) : t[n] \in Table
  BY ExecutedSteps, ExecutedType
<1> HIDE DEF t
<1>2. 0 \in S
  BY <1>1
<1>3. Len(queue) \in Nat /\ \A n \in 1 .. Len(queue) : queue[n] \in Query
  OBVIOUS
<1>4. ASSUME NEW n \in Nat, n \in S
      PROVE  n + 1 \in S
  <2>1. SUFFICES ASSUME n + 1 <= Len(queue) PROVE t[n + 1][i] = tbl[i]
    OBVIOUS
  <2>2. t[n][i] = tbl[i]
    BY <1>3, <1>4, <2>1
  <2>3. n + 1 \in 1 .. Len(queue) /\ (n + 1) - 1 = n /\ n \in 0 .. Len(queue)
    BY <1>3, <2>1
  <2>4. t[n + 1] = Apply(t[n], queue[n + 1])
    BY <1>1, <2>3
  <2> QED BY <1>1, <1>3, <2>2, <2>3, <2>4, ApplyAt
<1>5. Nat \subseteq S
  <2> HIDE DEF S
  <2> QED BY <1>2, <1>4, NatSet
<1> QED BY <1>3, <1>5 DEF t

\* Queries one of which is about an item leave what that one makes of it.
LEMMA ExecutedTouched ==
    ASSUME NEW tbl \in Table, NEW queue \in Seq(Query), NEW i \in Item,
           NEW m \in 1 .. Len(queue), Touches(queue[m], i),
           \A n \in 1 .. Len(queue) : Touches(queue[n], i) => n = m
    PROVE  Executed(tbl, queue)[Len(queue)][i] = RowOf(queue[m])
<1> DEFINE t == Executed(tbl, queue)
           S == { n \in Nat : n <= Len(queue) /\ m <= n => t[n][i] = RowOf(queue[m]) }
<1>1. /\ t[0] = tbl /\ \A n \in 1 .. Len(queue) : t[n] = Apply(t[n - 1], queue[n])
      /\ \A n \in 0 .. Len(queue) : t[n] \in Table
  BY ExecutedSteps, ExecutedType
<1> HIDE DEF t
<1>2. 0 \in S
  OBVIOUS
<1>3. Len(queue) \in Nat /\ \A n \in 1 .. Len(queue) : queue[n] \in Query
  OBVIOUS
<1>4. ASSUME NEW n \in Nat, n \in S
      PROVE  n + 1 \in S
  <2>1. SUFFICES ASSUME n + 1 <= Len(queue), m <= n + 1
                 PROVE  t[n + 1][i] = RowOf(queue[m])
    OBVIOUS
  <2>2. n + 1 \in 1 .. Len(queue) /\ (n + 1) - 1 = n /\ n \in 0 .. Len(queue)
    BY <1>3, <2>1
  <2>3. t[n + 1] = Apply(t[n], queue[n + 1])
    BY <1>1, <2>2
  <2>4. t[n + 1][i] = IF Touches(queue[n + 1], i) THEN RowOf(queue[n + 1]) ELSE t[n][i]
    BY <1>1, <1>3, <2>2, <2>3, ApplyAt
  <2>5. CASE n + 1 = m
    BY <2>4, <2>5
  <2>6. CASE n + 1 # m
    <3>1. ~Touches(queue[n + 1], i)
      BY <2>2, <2>6
    <3>2. m <= n /\ n <= Len(queue)
      BY <1>3, <2>1, <2>6
    <3>3. t[n][i] = RowOf(queue[m])
      BY <1>4, <3>2
    <3> QED BY <2>4, <3>1, <3>3
  <2> QED BY <2>5, <2>6
<1>5. Nat \subseteq S
  <2> HIDE DEF S
  <2> QED BY <1>2, <1>4, NatSet
<1>6. m <= Len(queue)
  BY <1>3
<1> QED BY <1>3, <1>5, <1>6 DEF t

\* The row an entry stands for.
EntryRow(e) == IF e.deleted THEN NoRow ELSE e.row

LEMMA OnFlushTouches ==
    ASSUME NEW i
    PROVE  /\ Touches(OnFlush(i), i) /\ \A j : Touches(OnFlush(i), j) => j = i
           /\ OnFlush(i).op \notin SelectOp
           /\ RowOf(OnFlush(i)) = EntryRow(cache[i])
BY DEF Touches, OnFlush, Replace, Delete, RowOf, EntryRow, SelectOp

\* The elements of a finite set, in some order.
Orders(s, k, D) ==
    /\ s \in [1 .. k -> D]
    /\ \A n, m \in 1 .. k : s[n] = s[m] => n = m
    /\ \A x \in D : \E n \in 1 .. k : s[n] = x

LEMMA InOrder ==
    ASSUME NEW D, IsFiniteSet(D), NEW s \in SetToSeqs(D)
    PROVE  \E k \in Nat : Orders(s, k, D)
<1> DEFINE k == Cardinality(D)
<1>1. k \in Nat
  BY FS_CardinalityType
<1>2. s \in Injection(1 .. k, D)
  BY DEF SetToSeqs, Injection, IsInjective
<1>3. Cardinality(1 .. k) = k
  BY <1>1, FS_Interval
<1>4. s \in Surjection(1 .. k, D)
  BY <1>2, <1>3, FS_Injection
<1> HIDE DEF k
<1>5. Orders(s, k, D)
  BY <1>2, <1>4 DEF Injection, IsInjective, Surjection, Orders
<1> QED BY <1>1, <1>5

\* A flush writes each entry that needs it once, in whichever order, and nothing
\* else.
LEMMA FlushWrites ==
    ASSUME cache \in Caches, NEW items \in SUBSET Item, NEW tbl \in Table,
           NEW queries \in FlushQueries(items)
    PROVE  /\ queries \in Seq(Query)
           /\ \A n \in 1 .. Len(queries) : queries[n].op \notin SelectOp
           /\ \A i \in Item : Executed(tbl, queries)[Len(queries)][i] =
                  IF i \in items /\ NeedQuery(i) THEN EntryRow(cache[i]) ELSE tbl[i]
<1> DEFINE dirty == { i \in items : NeedQuery(i) }
<1>1. queries \in Seq(Query)
  BY FlushQueriesType
<1>2. PICK s \in SetToSeqs(dirty) : queries = [n \in DOMAIN s |-> OnFlush(s[n])]
  BY DEF FlushQueries
<1>3. IsFiniteSet(dirty)
  BY FiniteAssumption, FS_Subset
<1>4. \A i : i \in dirty <=> i \in items /\ NeedQuery(i)
  OBVIOUS
<1> HIDE DEF dirty
<1>4a. PICK k \in Nat : Orders(s, k, dirty)
  BY <1>2, <1>3, InOrder
<1>5. /\ s \in [1 .. k -> dirty]
      /\ \A n, m \in 1 .. k : s[n] = s[m] => n = m
      /\ \A x \in dirty : \E n \in 1 .. k : s[n] = x
  BY <1>4a DEF Orders
<1>6. Len(queries) = k /\ \A n \in 1 .. k : queries[n] = OnFlush(s[n])
  BY <1>1, <1>2, <1>5
<1>7. ASSUME NEW i \in Item
      PROVE  Executed(tbl, queries)[Len(queries)][i] =
                 IF i \in items /\ NeedQuery(i) THEN EntryRow(cache[i]) ELSE tbl[i]
  <2>1. CASE i \in dirty
    <3>1. PICK m \in 1 .. k : s[m] = i
      BY <1>5, <2>1
    <3>2. Touches(queries[m], i) /\ RowOf(queries[m]) = EntryRow(cache[i])
      BY <1>6, <3>1, OnFlushTouches
    <3>3. \A n \in 1 .. Len(queries) : Touches(queries[n], i) => n = m
      BY <1>5, <1>6, <3>1, OnFlushTouches
    <3> QED BY <1>1, <1>4, <1>6, <2>1, <3>1, <3>2, <3>3, ExecutedTouched
  <2>2. CASE i \notin dirty
    <3>1. \A n \in 1 .. Len(queries) : ~Touches(queries[n], i)
      BY <1>5, <1>6, <2>2, OnFlushTouches
    <3> QED BY <1>1, <1>4, <2>2, <3>1, ExecutedUntouched
  <2> QED BY <2>1, <2>2
<1>8. \A n \in 1 .. Len(queries) : queries[n].op \notin SelectOp
  BY <1>6, OnFlushTouches
<1> QED BY <1>1, <1>7, <1>8

-----------------------------------------------------------------------------
(* The sets are complete, unless a character gets an item before its items *)
(* are loaded, or the cache of a player who plays is flushed.              *)

InOrderOfLogin == {"early_give", "flush_online"} \cap Faults = {}

\* Every entry is of an item in an inventory, and in the set of its owner.
Whole(sets, entries) ==
    \A i \in Item : entries[i] # NoEntry =>
        /\ HasSet(sets, entries[i].row.owner)
        /\ i \in sets[entries[i].row.owner]
        /\ entries[i].row.window = "INVENTORY"

\* Who plays has a set and is not on the list of those who left.
Present ==
    \A p \in Player :
        /\ phase[p] = "game" => HasSet(set, p)
        /\ phase[p] \in {"asked", "spawned", "game"} => p \notin logout

\* The rows of a result are those of the player who asked.
Brought(r) ==
    \A i \in DOMAIN r.rows :
        /\ r.rows[i].owner = r.pid
        /\ r.rows[i].window = IF r.op = "ITEM" THEN "INVENTORY" ELSE "SAFEBOX"

Brings ==
    \A n \in 1 .. Len(results) :
        results[n].op \in {"ITEM", "BOXITEM"} => Brought(results[n])

SetInv == IInv /\ Whole(set, cache) /\ Present /\ Brings

LEMMA SetParts == SetInv => IInv /\ Whole(set, cache) /\ Present /\ Brings
BY DEF SetInv

\* Results that are handled, and results whose peer or client is gone.
LEMMA BringsTail ==
    ASSUME SetInv, results # <<>>, results' = Tail(results)
    PROVE  /\ Brings'
           /\ Head(results).op \in {"ITEM", "BOXITEM"} => Brought(Head(results))
<1>1. results \in Seq(Result)
  BY SetParts, TypeParts
<1>2. /\ Len(results') = Len(results) - 1 /\ Len(results) \in Nat /\ Len(results) # 0
      /\ \A n \in 1 .. Len(results') : results'[n] = results[n + 1]
      /\ Head(results) = results[1]
  BY <1>1
<1>3. \A n \in 1 .. Len(results') : n + 1 \in 1 .. Len(results)
  BY <1>2
<1> QED BY <1>2, <1>3 DEF SetInv, Brings, Brought

LEMMA BringsGone ==
    ASSUME SetInv, results' = Voided(results) \/ \E p \in Player : results' = Unhandled(results, p)
    PROVE  Brings'
<1>1. results \in Seq(Result) /\ \A n \in 1 .. Len(results) : results[n] \in Result
  BY SetParts, TypeParts
<1>2. Len(results) \in Nat /\ DOMAIN results = 1 .. Len(results)
  BY <1>1
<1>3. CASE results' = Voided(results)
  <2>1. Len(results') = Len(results)
    <3>1. results' \in Seq(Result) /\ DOMAIN results' = 1 .. Len(results)
      BY <1>1, <1>2, <1>3, VoidedType DEF Voided
    <3> QED BY <1>2, <3>1
  <2>2. \A n \in 1 .. Len(results') : results'[n].op \in {"ITEM", "BOXITEM"} => FALSE
    BY <1>2, <1>3, <2>1 DEF Voided, SelectOp, Void
  <2> QED BY <2>2 DEF Brings
<1>4. ASSUME NEW p \in Player, results' = Unhandled(results, p) PROVE Brings'
  <2>1. Len(results') = Len(results)
    <3>1. results' \in Seq(Result) /\ DOMAIN results' = 1 .. Len(results)
      BY <1>1, <1>2, <1>4, UnhandledType DEF Unhandled
    <3> QED BY <1>2, <3>1
  <2>2. ASSUME NEW n \in 1 .. Len(results')
        PROVE  results'[n].op = results[n].op
                  /\ (results[n].op \in SelectOp =>
                        results'[n].pid = results[n].pid /\ results'[n].rows = results[n].rows)
    BY <1>1, <1>2, <1>4, <2>1, <2>2 DEF Unhandled, Result, Void, SelectOp
  <2> QED BY <2>1, <2>2 DEF SetInv, Brings, Brought, SelectOp
<1> QED BY <1>3, <1>4

LEMMA BringsSame ==
    ASSUME SetInv, results' = results \/ results' = <<>>
    PROVE  Brings'
BY DEF SetInv, Brings

\* A SELECT brings the rows of its player and window.
LEMMA BringsExecuted ==
    ASSUME SetInv, Execute
    PROVE  Brings'
<1> DEFINE q == Head(sql)
           r == [op |-> q.op, pid |-> q.pid, live |-> q.live, rows |-> ResultRows(q)]
<1>1. results \in Seq(Result) /\ Len(results) \in Nat
  BY SetParts, TypeParts
<1>2. results' = IF q.op \in SelectOp THEN Append(results, r) ELSE results
  BY DEF Execute
<1>3. r.op \in {"ITEM", "BOXITEM"} => Brought(r)
  BY DEF Brought, ResultRows, RowsOf
<1> HIDE DEF r
<1>4. CASE results' = Append(results, r)
  <2>1. /\ Len(results') = Len(results) + 1
        /\ \A n \in 1 .. Len(results) : results'[n] = results[n]
        /\ results'[Len(results) + 1] = r
    BY <1>1, <1>4
  <2>2. ASSUME NEW n \in 1 .. Len(results') PROVE n = Len(results) + 1 \/ n \in 1 .. Len(results)
    BY <1>1, <2>1
  <2> QED BY <1>3, <2>1, <2>2 DEF SetInv, Brings
<1>5. CASE results' = results
  BY <1>5, BringsSame
<1> QED BY <1>2, <1>4, <1>5

\* PutItemCache of rows whose owners have sets.
LEMMA PutWhole ==
    ASSUME cache \in Caches, NEW sets \in Sets, NEW rows \in Rows,
           NEW skip \in BOOLEAN, Whole(sets, cache),
           \A i \in DOMAIN rows : HasSet(sets, rows[i].owner) /\ rows[i].window = "INVENTORY"
    PROVE  Whole(PutInSets(sets, rows), Put(sets, rows, skip))
<1> SUFFICES ASSUME NEW i \in Item, Put(sets, rows, skip)[i] # NoEntry
             PROVE  LET o == Put(sets, rows, skip)[i].row.owner
                    IN  /\ HasSet(PutInSets(sets, rows), o)
                        /\ i \in PutInSets(sets, rows)[o]
                        /\ Put(sets, rows, skip)[i].row.window = "INVENTORY"
  BY DEF Whole
<1>1. DOMAIN rows \subseteq Item /\ \A j \in DOMAIN rows : rows[j] \in Row
  BY DEF Rows
<1>2. \A p \in Player : HasSet(sets, p) => HasSet(PutInSets(sets, rows), p)
  BY MarkAssumption, <1>1 DEF HasSet, PutInSets, Sets
<1>3. CASE i \in DOMAIN rows
  <2>1. Put(sets, rows, skip)[i].row = rows[i]
    BY <1>3 DEF Put, PutEntry
  <2>2. rows[i].owner \in Player /\ HasSet(sets, rows[i].owner) /\ rows[i].window = "INVENTORY"
    BY <1>1, <1>3, RowType
  <2>3. i \in PutInSets(sets, rows)[rows[i].owner]
    BY <1>3, <2>2 DEF PutInSets
  <2> QED BY <1>2, <2>1, <2>2, <2>3
<1>4. CASE i \notin DOMAIN rows
  <2>1. Put(sets, rows, skip)[i] = cache[i]
    BY <1>4 DEF Put
  <2>2. cache[i] \in Entry /\ cache[i].row.owner \in Player
    BY <2>1, RowType DEF Caches, Entry
  <2>3. i \in PutInSets(sets, rows)[cache[i].row.owner]
    BY <1>4, <2>1, <2>2 DEF PutInSets, Whole
  <2> QED BY <1>2, <2>1, <2>2, <2>3 DEF Whole
<1> QED BY <1>3, <1>4

\* A step that leaves caches and sets alone, and brings nobody into the game.
LEMMA SetInvQuiet ==
    ASSUME SetInv, IInv', UNCHANGED cacheVars, Brings',
           \A p \in Player :
               /\ phase'[p] = "game" => phase[p] = "game" \/ HasSet(set, p)
               /\ phase'[p] \in {"asked", "spawned", "game"} => p \notin logout'
    PROVE  SetInv'
BY DEF SetInv, Whole, Present, cacheVars, HasSet

LEMMA SetRequests ==
    ASSUME SetInv, IInv', NEW p \in Player,
           \/ Login(p) \/ LoadPlayerFromSql(p) \/ LoadCachedPlayer(p)
           \/ ReqSafeboxLoad(p) \/ SavePlayer(p)
    PROVE  SetInv'
<1>1. UNCHANGED cacheVars /\ results' = results
  BY DEF Login, LoadPlayerFromSql, LoadCachedPlayer, ReqSafeboxLoad, SavePlayer, sqlVars
<1>2. Brings'
  BY <1>1, BringsSame
<1>3. phase \in [Player -> Phase]
  BY SetParts, TypeParts
<1>4. ASSUME NEW o \in Player
      PROVE  /\ phase'[o] = "game" => phase[o] = "game" \/ HasSet(set, o)
             /\ phase'[o] \in {"asked", "spawned", "game"} => o \notin logout'
  <2>1. Present
    BY SetParts
  <2>2. CASE Login(p)
    BY <1>3, <2>1, <2>2 DEF Login, Present
  <2>3. CASE LoadPlayerFromSql(p)
    BY <1>3, <2>1, <2>3 DEF LoadPlayerFromSql, Present
  <2>4. CASE LoadCachedPlayer(p)
    BY <1>3, <2>1, <2>4 DEF LoadCachedPlayer, Present
  <2>5. CASE ReqSafeboxLoad(p) \/ SavePlayer(p)
    BY <2>1, <2>5 DEF ReqSafeboxLoad, SavePlayer, gameVars, playerVars, Present
  <2> QED BY <2>2, <2>3, <2>4, <2>5
<1> QED BY <1>1, <1>2, <1>4, SetInvQuiet

LEMMA SetResults ==
    ASSUME SetInv, IInv', NEW p \in Player,
           \/ RESULT_LOGIN(p) \/ RESULT_PLAYER_LOAD(p) \/ RESULT_SAFEBOX(p)
           \/ RESULT_SAFEBOX_ITEM(p) \/ CancelSafeboxLoad(p)
    PROVE  SetInv'
<1>1. /\ UNCHANGED cacheVars /\ logout' = logout
      /\ results # <<>> /\ results' = Tail(results)
  BY DEF RESULT_LOGIN, RESULT_PLAYER_LOAD, RESULT_SAFEBOX, RESULT_SAFEBOX_ITEM,
         CancelSafeboxLoad, PopResult, HasResult, playerVars
<1>2. Brings'
  BY <1>1, BringsTail
<1>3. phase \in [Player -> Phase]
  BY SetParts, TypeParts
<1>4. ASSUME NEW o \in Player
      PROVE  /\ phase'[o] = "game" => phase[o] = "game"
             /\ phase'[o] \in {"asked", "spawned", "game"} => o \notin logout'
  <2>1. Present
    BY SetParts
  <2>2. CASE RESULT_LOGIN(p)
    BY <1>1, <1>3, <2>1, <2>2 DEF RESULT_LOGIN, Present
  <2>3. CASE RESULT_PLAYER_LOAD(p)
    BY <1>1, <1>3, <2>1, <2>3 DEF RESULT_PLAYER_LOAD, Present
  <2>4. CASE RESULT_SAFEBOX(p) \/ RESULT_SAFEBOX_ITEM(p) \/ CancelSafeboxLoad(p)
    BY <1>1, <2>1, <2>4
       DEF RESULT_SAFEBOX, RESULT_SAFEBOX_ITEM, CancelSafeboxLoad, gameVars, Present
  <2> QED BY <2>2, <2>3, <2>4
<1> QED BY <1>1, <1>2, <1>4, SetInvQuiet

LEMMA SetItemLoad ==
    ASSUME SetInv, IInv', NEW p \in Player, RESULT_ITEM_LOAD(p)
    PROVE  SetInv'
<1> DEFINE rows == Head(results).rows
<1>1. /\ HasResult("ITEM", p) /\ results' = Tail(results) /\ ItemLoad(p, rows)
      /\ cache' = Put(WithSet(p), rows, TRUE)
      /\ set' = PutInSets(WithSet(p), rows) /\ logout' = logout
  BY DEF RESULT_ITEM_LOAD, PopResult, playerVars
<1>2. rows \in Rows
  <2>1. "ITEM" \in SelectOp
    BY DEF SelectOp
  <2> QED BY <1>1, <2>1, SetParts, TypeParts, HeadResultType
<1>3. Brings' /\ \A i \in DOMAIN rows : rows[i].owner = p /\ rows[i].window = "INVENTORY"
  BY <1>1, BringsTail DEF HasResult, Brought
<1> HIDE DEF rows
<1>4. WithSet(p) \in Sets /\ HasSet(WithSet(p), p) /\ Whole(WithSet(p), cache)
         /\ \A o \in Player : HasSet(set, o) => HasSet(WithSet(p), o)
  <2>1. Whole(set, cache) /\ set \in Sets /\ WithSet(p) \in Sets /\ HasSet(WithSet(p), p)
           /\ cache \in Caches
    BY SetParts, TypeParts, WithSetType
  <2>2. ASSUME NEW o \in Player, HasSet(set, o)
        PROVE  HasSet(WithSet(p), o) /\ WithSet(p)[o] = set[o]
    BY <2>1, <2>2 DEF WithSet, HasSet, Sets
  <2>3. \A i \in Item : cache[i] # NoEntry => cache[i].row.owner \in Player
    BY <2>1, RowType DEF Caches, Entry
  <2> QED BY <2>1, <2>2, <2>3 DEF Whole
<1>5. Whole(set', cache')
  BY <1>1, <1>2, <1>3, <1>4, SetParts, TypeParts, PutWhole
<1>6. \A o \in Player : HasSet(WithSet(p), o) => HasSet(set', o)
  <2>1. \A i \in DOMAIN rows : i \in Item
    BY <1>2 DEF Rows
  <2> QED BY <1>1, <1>4, <2>1, MarkAssumption DEF HasSet, PutInSets, Sets
<1>7. \/ phase' = phase
      \/ phase' = [phase EXCEPT ![p] = "game"] /\ phase[p] = "spawned"
  <2>1. CASE Live /\ phase[p] = "spawned"
    BY <1>1, <2>1 DEF ItemLoad
  <2>2. CASE ~(Live /\ phase[p] = "spawned")
    BY <1>1, <2>2 DEF ItemLoad
  <2> QED BY <2>1, <2>2
<1>8. Present'
  <2>1. phase \in [Player -> Phase] /\ Present
    BY SetParts, TypeParts
  <2> QED BY <1>1, <1>4, <1>6, <1>7, <2>1 DEF Present, HasSet
<1> QED BY <1>3, <1>5, <1>8 DEF SetInv, Whole, HasSet

\* Saves: into the set of a player who plays.
LEMMA SetSaves ==
    ASSUME SetInv, IInv', InOrderOfLogin, NEW p \in Player, NEW i \in Item,
           SafeboxCheckout(p, i) \/ \E d \in Data : SaveItem(p, i, d)
    PROVE  SetInv'
<1>1. PICK d : /\ cache' = Put(set, [id \in {i} |-> Inventory(p, d)], FALSE)
                  \/ cache' = [Put(set, [id \in {i} |-> Inventory(p, d)], FALSE)
                                  EXCEPT ![i].m_bNeedQuery = FALSE]
               /\ set' = PutInSets(set, [id \in {i} |-> Inventory(p, d)])
               /\ Inventory(p, d) \in Row
  <2>1. CASE SafeboxCheckout(p, i)
    BY <2>1, SetParts, TypeParts, RowType DEF SafeboxCheckout, Row
  <2>2. CASE \E d \in Data : SaveItem(p, i, d)
    BY <2>2, RowType DEF SaveItem
  <2> QED BY <2>1, <2>2
<1> DEFINE rows == [id \in {i} |-> Inventory(p, d)]
           entries == Put(set, rows, FALSE)
<1>2. phase[p] = "game" /\ UNCHANGED <<phase, logout, results>>
  BY DEF SafeboxCheckout, SaveItem, Handles, InOrderOfLogin, playerVars
<1>3. Whole(set, cache) /\ Present /\ HasSet(set, p) /\ cache \in Caches /\ set \in Sets
  BY <1>2, SetParts, TypeParts DEF Present
<1>4. rows \in Rows /\ DOMAIN rows = {i} /\ rows[i] = Inventory(p, d)
         /\ rows[i].owner = p /\ rows[i].window = "INVENTORY"
  BY <1>1, OneRowType DEF Inventory
<1>5. cache' = entries \/ cache' = [entries EXCEPT ![i].m_bNeedQuery = FALSE]
  BY <1>1
<1>6. set' = PutInSets(set, rows) /\ entries \in Caches /\ entries[i] \in Entry
  BY <1>1, PutOneStep, SetParts
<1> HIDE DEF rows
<1>7. Whole(set', entries)
  BY <1>3, <1>4, <1>6, PutWhole
<1> HIDE DEF entries
<1>8. Whole(set', cache')
  <2>1. \A j \in Item : cache'[j] # NoEntry =>
            entries[j] # NoEntry /\ cache'[j].row = entries[j].row
    <3>1. entries[i] # NoEntry
      BY <1>6, MarkAssumption
    <3> QED BY <1>5, <1>6, <3>1 DEF Caches, Entry
  <2> QED BY <1>7, <2>1 DEF Whole
<1>9. \A o \in Player : HasSet(set, o) => HasSet(set', o)
  <2>1. \A j \in DOMAIN rows : j \in Item
    BY <1>4
  <2> QED BY <1>3, <1>6, <2>1, MarkAssumption DEF HasSet, PutInSets, Sets
<1>10. Present'
  BY <1>2, <1>3, <1>9 DEF Present, HasSet
<1>11. Brings'
  BY <1>2, BringsSame
<1> QED BY <1>8, <1>10, <1>11 DEF SetInv, Whole, HasSet

LEMMA SetSafebox ==
    ASSUME SetInv, IInv', NEW p \in Player, NEW i \in Item, NEW d \in Data,
           SaveSafeboxItem(p, i, d)
    PROVE  SetInv'
<1>1. /\ cache' = [cache EXCEPT ![i] = NoEntry]
      /\ set' = IF Cached(i) /\ HasSet(set, cache[i].row.owner)
                THEN [set EXCEPT ![cache[i].row.owner] = @ \ {i}] ELSE set
      /\ UNCHANGED <<phase, logout, results>>
  BY DEF SaveSafeboxItem, WithoutEntry, playerVars
<1>2. /\ Whole(set, cache) /\ Present /\ cache \in Caches /\ set \in Sets
      /\ \A j \in Item : cache[j] # NoEntry => cache[j].row.owner \in Player
  BY SetParts, TypeParts, RowType DEF Caches, Entry
<1>3. \A o \in Player : HasSet(set, o) => set'[o] # NoSet /\ set[o] \ {i} \subseteq set'[o]
  <2>1. ASSUME NEW o \in Player, HasSet(set, o)
        PROVE  set'[o] # NoSet /\ set[o] \ {i} \subseteq set'[o]
    <3>1. set[o] \in SUBSET Item /\ set[o] \ {i} \in SUBSET Item
      BY <1>2, <2>1 DEF Sets, HasSet
    <3>2. set'[o] = set[o] \/ set'[o] = set[o] \ {i}
      BY <1>1, <1>2, <2>1 DEF Sets
    <3> QED BY <3>1, <3>2, MarkAssumption
  <2> QED BY <2>1
<1>4. \A j \in Item : cache'[j] # NoEntry => j # i /\ cache'[j] = cache[j]
  BY <1>1, <1>2 DEF Caches
<1>5. Whole(set', cache')
  BY <1>2, <1>3, <1>4 DEF Whole, HasSet
<1>6. Present'
  BY <1>1, <1>2, <1>3 DEF Present, HasSet
<1>7. Brings'
  BY <1>1, BringsSame
<1> QED BY <1>5, <1>6, <1>7 DEF SetInv, Whole, HasSet

\* Entries that are deleted or flushed stay where they are.
LEMMA SetEntries ==
    ASSUME SetInv, IInv',
           \/ \E i \in Item : DestroyItem(i) \/ UpdateItemCache(i)
           \/ \E p \in Player : UpdatePlayerCache(p)
    PROVE  SetInv'
<1>1. UNCHANGED <<phase, logout, results, set>>
  BY DEF DestroyItem, UpdateItemCache, UpdatePlayerCache, gameVars, playerVars
<1>2. cache \in Caches /\ Whole(set, cache) /\ Present
  BY SetParts, TypeParts
<1>3. \A j \in Item : cache'[j] # NoEntry => cache[j] # NoEntry /\ cache'[j].row = cache[j].row
  <2>1. ASSUME NEW items, cache' = Flushed(items)
        PROVE  \A j \in Item : cache'[j] # NoEntry =>
                   cache[j] # NoEntry /\ cache'[j].row = cache[j].row
    BY <1>2, <2>1 DEF Flushed, Cached, Caches, Entry
  <2>2. ASSUME NEW i \in Item, DestroyItem(i), NEW j \in Item, cache'[j] # NoEntry
        PROVE  cache[j] # NoEntry /\ cache'[j].row = cache[j].row
    <3>1. CASE ~Cached(i)
      BY <2>2, <3>1 DEF DestroyItem
    <3>2. CASE Cached(i)
      <4>1. cache' = [cache EXCEPT ![i].deleted = TRUE,
                                   ![i].m_bNeedQuery = @ /\ cache[i].deleted]
        BY <2>2, <3>2 DEF DestroyItem
      <4>2. CASE j = i
        BY <1>2, <3>2, <4>1, <4>2 DEF Cached, Caches, Entry
      <4>3. CASE j # i
        BY <1>2, <2>2, <4>1, <4>3 DEF Caches
      <4> QED BY <4>2, <4>3
    <3> QED BY <3>1, <3>2
  <2> QED BY <2>1, <2>2 DEF UpdateItemCache, UpdatePlayerCache
<1>4. Whole(set', cache')
  BY <1>1, <1>2, <1>3 DEF Whole
<1>5. Present' /\ Brings'
  BY <1>1, <1>2, BringsSame DEF Present, HasSet
<1> QED BY <1>4, <1>5 DEF SetInv, Whole, HasSet

\* Players and game cores that leave.
LEMMA SetLeave ==
    ASSUME SetInv, IInv', (\E p \in Player : CloseSafebox(p) \/ Disconnect(p)) \/ CoreCrash
    PROVE  SetInv'
<1>1. UNCHANGED cacheVars
  BY DEF CloseSafebox, Disconnect, CoreCrash
<1>2. Brings'
  BY BringsSame, BringsGone DEF CloseSafebox, Disconnect, CoreCrash, sqlVars
<1>3. Present /\ phase \in [Player -> Phase]
  BY SetParts, TypeParts
<1>4. \A o \in Player : phase'[o] = "off" \/ phase'[o] = phase[o]
  BY <1>3 DEF CloseSafebox, Disconnect, CoreCrash
<1>5. \A o \in Player : phase'[o] # "off" => (o \in logout' => o \in logout)
  BY <1>3 DEF CloseSafebox, Disconnect, CoreCrash, playerVars
<1> QED BY <1>1, <1>2, <1>3, <1>4, <1>5, SetInvQuiet DEF Present

\* A player is evicted, who does not play.
LEMMA SetEvict ==
    ASSUME SetInv, IInv', InOrderOfLogin, NEW p \in Player,
           UpdateLogoutPlayer(p) \/ QUERY_FLUSH_CACHE(p)
    PROVE  SetInv'
<1>1. /\ FlushItemCacheSet(p) /\ UNCHANGED <<phase, results>>
      /\ logout' \subseteq logout
  BY DEF UpdateLogoutPlayer, QUERY_FLUSH_CACHE, gameVars
<1>2. phase[p] # "game"
  BY SetParts DEF UpdateLogoutPlayer, QUERY_FLUSH_CACHE, InOrderOfLogin, Present
<1>3. Whole(set, cache) /\ Present /\ SetsAgree /\ cache \in Caches /\ set \in Sets
  BY SetParts, TypeParts
<1>4. Brings'
  BY <1>1, BringsSame
<1>5. CASE ~HasSet(set, p)
  <2>1. UNCHANGED cacheVars
    BY <1>1, <1>5 DEF FlushItemCacheSet, cacheVars
  <2> QED BY <1>1, <1>3, <1>4, <2>1, SetInvQuiet DEF Present
<1>6. CASE HasSet(set, p)
  <2>1. /\ cache' = [i \in Item |-> IF i \in set[p] THEN NoEntry ELSE cache[i]]
        /\ set' = [set EXCEPT ![p] = NoSet]
    BY <1>1, <1>6 DEF FlushItemCacheSet
  <2>2. \A o \in Player : o # p => set'[o] = set[o]
    BY <1>3, <2>1 DEF Sets
  <2>3. ASSUME NEW i \in Item, cache'[i] # NoEntry
        PROVE  cache'[i] = cache[i] /\ cache[i].row.owner # p /\ cache[i].row.owner \in Player
    <3>1. cache'[i] = cache[i] /\ i \notin set[p] /\ cache[i] \in Entry
      BY <1>3, <2>1, <2>3 DEF Caches
    <3> QED BY <1>3, <2>3, <3>1, RowType DEF Whole, Entry
  <2>4. Whole(set', cache')
    BY <1>3, <2>2, <2>3 DEF Whole, HasSet
  <2>5. Present'
    BY <1>1, <1>2, <1>3, <2>2 DEF Present, HasSet
  <2> QED BY <1>4, <2>4, <2>5 DEF SetInv, Whole, HasSet
<1> QED BY <1>5, <1>6

\* The threads of the connections, and the DB server's end and start.
LEMMA SetServer ==
    ASSUME SetInv, IInv',
           Execute \/ DropResult \/ DbEnd \/ DbRestart \/ \E i \in Item : ExecuteAsync(i)
    PROVE  SetInv'
<1>1. Brings'
  <2>1. CASE Execute
    BY <2>1, BringsExecuted
  <2>2. CASE DropResult
    BY <2>2, BringsTail DEF DropResult, PopResult
  <2>3. CASE DbEnd
    BY <2>3, BringsGone DEF DbEnd
  <2>4. CASE DbRestart \/ \E i \in Item : ExecuteAsync(i)
    BY <2>4, BringsSame DEF DbRestart, ExecuteAsync
  <2> QED BY <2>1, <2>2, <2>3, <2>4
<1>2. phase' = phase
  BY DEF Execute, DropResult, DbEnd, DbRestart, ExecuteAsync, gameVars
<1>3. Present
  BY SetParts
<1>4. CASE DbEnd
  <2>1. Whole(set', cache')
    BY <1>4 DEF DbEnd, Whole
  <2>2. Present'
    BY <1>2, <1>4 DEF DbEnd, Present
  <2> QED BY <1>1, <2>1, <2>2 DEF SetInv, Whole, HasSet
<1>5. CASE ~DbEnd
  <2>1. UNCHANGED cacheVars /\ logout' = logout
    BY <1>5 DEF Execute, DropResult, DbRestart, ExecuteAsync, playerVars
  <2> QED BY <1>1, <1>2, <1>3, <2>1, SetInvQuiet DEF Present
<1> QED BY <1>4, <1>5

LEMMA InitSetInv == Init => SetInv
<1> SUFFICES ASSUME Init PROVE SetInv
  OBVIOUS
<1>1. IInv
  BY InitIInv
<1>2. Whole(set, cache) /\ Present
  BY DEF Init, Whole, Present
<1>3. Brings
  BY DEF Init, Brings
<1> QED BY <1>1, <1>2, <1>3 DEF SetInv

LEMMA NextSetInv == InOrderOfLogin /\ SetInv /\ [Next]_vars => SetInv'
<1> SUFFICES ASSUME InOrderOfLogin, SetInv, [Next]_vars PROVE SetInv'
  OBVIOUS
<1>1. IInv'
  BY NextIInv, SetParts
<1>2. ASSUME NEW p \in Player, PlayerStep(p) PROVE SetInv'
  BY <1>1, <1>2, SetRequests, SetLeave, SetEvict, SetSaves, SetSafebox DEF PlayerStep
<1>3. ASSUME NEW p \in Player, ResultStep(p) PROVE SetInv'
  BY <1>1, <1>3, SetResults, SetItemLoad DEF ResultStep
<1>4. ASSUME NEW p \in Player, UpdatePlayerCache(p) \/ UpdateLogoutPlayer(p)
      PROVE  SetInv'
  BY <1>1, <1>4, SetEntries, SetEvict
<1>5. ASSUME NEW i \in Item, DestroyItem(i) \/ UpdateItemCache(i) \/ ExecuteAsync(i)
      PROVE  SetInv'
  BY <1>1, <1>5, SetEntries, SetServer
<1>6. CASE Execute \/ DropResult \/ CoreCrash \/ DbEnd \/ DbRestart
  BY <1>1, <1>6, SetServer, SetLeave
<1>7. CASE UNCHANGED vars
  <2>1. Brings'
    BY <1>7, BringsSame DEF vars
  <2> QED BY <1>1, <1>7, <2>1, SetInvQuiet, SetParts DEF vars, cacheVars, Present
<1> QED BY <1>2, <1>3, <1>4, <1>5, <1>6, <1>7 DEF Next

THEOREM SetInvariant == InOrderOfLogin => (Spec => []SetInv)
<1> SUFFICES ASSUME InOrderOfLogin PROVE Spec => []SetInv
  OBVIOUS
<1>1. SetInv /\ [Next]_vars => SetInv'
  BY NextSetInv
<1> QED BY <1>1, InitSetInv, PTL DEF Spec

\* An entry is always in the item cache set of its owner, so that neither an
\* eviction nor a load from the set leaves it out: whatever else happens, unless
\* a character gets an item before its own are loaded or a game master flushes
\* the cache of a player who plays.
THEOREM SetsAlwaysComplete ==
    {"early_give", "flush_online"} \cap Faults = {} => (Spec => []SetsComplete)
<1>1. SetInv => SetsComplete
  BY DEF SetInv, Whole, SetsComplete, Cached
<1> QED BY <1>1, SetInvariant, PTL DEF InOrderOfLogin

-----------------------------------------------------------------------------
(* What is under way: first the results that wait, then the queries.       *)

\* What a query or its result asks, for whom, and whether its client waits.
Asks(q) == <<q.op, q.pid, q.live>>

\* A question a client no longer waits for is less than one it waits for.
Lasting(P) ==
    \A op \in SelectOp, p \in Player : <<op, p, FALSE>> \in P => <<op, p, TRUE>> \in P

InSql(P) == \E n \in 1 .. Len(sql) : sql[n].op \in SelectOp /\ Asks(sql[n]) \in P
InResults(P) ==
    \E n \in 1 .. Len(results) : results[n].op \in SelectOp /\ Asks(results[n]) \in P

\* Some question of P is under way.
UnderWay(P) == InSql(P) \/ InResults(P)

NoneAfter(queue, P, Q) ==
    \A m, n \in 1 .. Len(queue) :
        /\ m < n /\ queue[m].op \in SelectOp /\ Asks(queue[m]) \in P
        => ~(queue[n].op \in SelectOp /\ Asks(queue[n]) \in Q)

\* No question of Q comes after one of P.
LastWord(P, Q) ==
    /\ NoneAfter(sql, P, Q) /\ NoneAfter(results, P, Q)
    /\ InResults(P) => ~InSql(Q)

LEMMA QueueFacts ==
    ASSUME IInv
    PROVE  /\ sql \in Seq(Query) /\ Len(sql) \in Nat /\ \A n \in 1 .. Len(sql) : sql[n] \in Query
           /\ results \in Seq(Result) /\ Len(results) \in Nat
           /\ \A n \in 1 .. Len(results) : results[n] \in Result
BY TypeParts

\* A result is handled.
LEMMA ResultHandled ==
    ASSUME IInv, NEW P, NEW Q, results # <<>>, results' = Tail(results)
    PROVE  /\ InResults(P)' => InResults(P)
           /\ NoneAfter(results, P, Q) => NoneAfter(results, P, Q)'
           /\ Head(results).op \in SelectOp /\ Asks(Head(results)) \in P => InResults(P)
           /\ /\ NoneAfter(results, P, Q)
              /\ Head(results).op \in SelectOp /\ Asks(Head(results)) \in P
              => ~InResults(Q)'
<1>1. /\ Len(results') = Len(results) - 1 /\ Len(results) \in Nat /\ Len(results) # 0
      /\ \A n \in 1 .. Len(results') : results'[n] = results[n + 1]
      /\ Head(results) = results[1]
  BY QueueFacts
<1>2. /\ \A n \in 1 .. Len(results') : n + 1 \in 1 .. Len(results) /\ 1 < n + 1
      /\ \A m, n \in 1 .. Len(results') : m < n => m + 1 < n + 1
      /\ 1 \in 1 .. Len(results)
  BY <1>1
<1> QED BY <1>1, <1>2 DEF InResults, NoneAfter, Asks

LEMMA SqlSame ==
    ASSUME sql' = sql, NEW P, NEW Q
    PROVE  InSql(P)' = InSql(P) /\ NoneAfter(sql, P, Q)' = NoneAfter(sql, P, Q)
BY DEF InSql, NoneAfter, Asks

LEMMA ResultsSame ==
    ASSUME results' = results, NEW P, NEW Q
    PROVE  InResults(P)' = InResults(P) /\ NoneAfter(results, P, Q)' = NoneAfter(results, P, Q)
BY DEF InResults, NoneAfter, Asks

LEMMA HandledKeeps ==
    ASSUME IInv, NEW P, NEW Q, results # <<>>, results' = Tail(results), sql' = sql
    PROVE  /\ UnderWay(P)' => UnderWay(P)
           /\ LastWord(P, Q) => LastWord(P, Q)'
           /\ LastWord(P, Q) /\ Head(results).op \in SelectOp /\ Asks(Head(results)) \in P
                => ~UnderWay(Q)'
           /\ Head(results).op \in SelectOp /\ Asks(Head(results)) \in P => UnderWay(P)
<1>1. InSql(Q)' = InSql(Q)
  BY SqlSame
<1> QED BY <1>1, ResultHandled, SqlSame DEF UnderWay, LastWord

\* Queries are sent.
LEMMA SqlSent ==
    ASSUME IInv, NEW P, NEW Q, NEW more \in Seq(Query), Send(more)
    PROVE  /\ InSql(P)' <=> \/ InSql(P)
                            \/ \E n \in 1 .. Len(more) :
                                   more[n].op \in SelectOp /\ Asks(more[n]) \in P
           /\ /\ NoneAfter(sql, P, Q) /\ NoneAfter(more, P, Q)
              /\ InSql(P) => \A n \in 1 .. Len(more) :
                                 ~(more[n].op \in SelectOp /\ Asks(more[n]) \in Q)
              => NoneAfter(sql, P, Q)'
<1>1. /\ Len(sql') = Len(sql) + Len(more) /\ Len(sql) \in Nat /\ Len(more) \in Nat
      /\ \A n \in 1 .. Len(sql) : sql'[n] = sql[n]
      /\ \A n \in 1 .. Len(more) : sql'[Len(sql) + n] = more[n]
  BY QueueFacts DEF Send
<1>2. /\ \A n \in 1 .. Len(sql) : n \in 1 .. Len(sql')
      /\ \A n \in 1 .. Len(more) : Len(sql) + n \in 1 .. Len(sql')
      /\ \A n \in 1 .. Len(sql') :
             \/ n \in 1 .. Len(sql)
             \/ n - Len(sql) \in 1 .. Len(more) /\ Len(sql) + (n - Len(sql)) = n
  BY <1>1
<1>3. InSql(P)' <=> \/ InSql(P)
                    \/ \E n \in 1 .. Len(more) :
                           more[n].op \in SelectOp /\ Asks(more[n]) \in P
  BY <1>1, <1>2 DEF InSql, Asks
<1>4. ASSUME NoneAfter(sql, P, Q), NoneAfter(more, P, Q),
             InSql(P) => \A n \in 1 .. Len(more) :
                             ~(more[n].op \in SelectOp /\ Asks(more[n]) \in Q),
             NEW m \in 1 .. Len(sql'), NEW n \in 1 .. Len(sql'), m < n,
             sql'[m].op \in SelectOp, Asks(sql'[m]) \in P,
             sql'[n].op \in SelectOp, Asks(sql'[n]) \in Q
      PROVE  FALSE
  <2>1. CASE n \in 1 .. Len(sql)
    <3>1. m \in 1 .. Len(sql)
      BY <1>1, <1>4, <2>1
    <3> QED BY <1>1, <1>4, <2>1, <3>1 DEF NoneAfter
  <2>2. CASE n - Len(sql) \in 1 .. Len(more) /\ sql'[n] = more[n - Len(sql)]
    <3>1. CASE m \in 1 .. Len(sql)
      BY <1>1, <1>4, <2>2, <3>1 DEF InSql
    <3>2. CASE m - Len(sql) \in 1 .. Len(more) /\ sql'[m] = more[m - Len(sql)]
      <4>1. m - Len(sql) < n - Len(sql)
        BY <1>1, <1>4
      <4> QED BY <1>4, <2>2, <3>2, <4>1 DEF NoneAfter
    <3> QED BY <1>1, <1>2, <3>1, <3>2
  <2> QED BY <1>1, <1>2, <2>1, <2>2
<1> QED BY <1>3, <1>4 DEF NoneAfter, Asks

\* A query is executed: it becomes the last of the results.
LEMMA ExecutedKeeps ==
    ASSUME IInv, NEW P, NEW Q, Execute
    PROVE  /\ UnderWay(P)' => UnderWay(P)
           /\ LastWord(P, Q) => LastWord(P, Q)'
<1> DEFINE q == Head(sql)
           r == [op |-> q.op, pid |-> q.pid, live |-> q.live, rows |-> ResultRows(q)]
<1>1. /\ sql # <<>> /\ sql' = Tail(sql)
      /\ results' = IF q.op \in SelectOp THEN Append(results, r) ELSE results
  BY DEF Execute
<1>2. r.op = q.op /\ Asks(r) = Asks(q)
  BY DEF Asks
<1> HIDE DEF r
<1>3. /\ Len(sql') = Len(sql) - 1 /\ Len(sql) \in Nat /\ Len(sql) # 0
      /\ \A n \in 1 .. Len(sql') : sql'[n] = sql[n + 1]
      /\ q = sql[1] /\ 1 \in 1 .. Len(sql)
      /\ \A n \in 1 .. Len(sql') : n + 1 \in 1 .. Len(sql) /\ 1 < n + 1
      /\ \A m, n \in 1 .. Len(sql') : m < n => m + 1 < n + 1
  <2>1. /\ Len(sql') = Len(sql) - 1 /\ Len(sql) \in Nat /\ Len(sql) # 0
        /\ \A n \in 1 .. Len(sql') : sql'[n] = sql[n + 1]
        /\ q = sql[1]
    BY <1>1, QueueFacts
  <2> QED BY <2>1
<1> HIDE DEF q
<1>4. /\ InSql(P)' => InSql(P)
      /\ InSql(Q)' => InSql(Q)
      /\ NoneAfter(sql, P, Q) => NoneAfter(sql, P, Q)'
      /\ q.op \in SelectOp /\ Asks(q) \in P => InSql(P)
      /\ q.op \in SelectOp /\ Asks(q) \in Q => InSql(Q)
      /\ NoneAfter(sql, P, Q) /\ q.op \in SelectOp /\ Asks(q) \in P => ~InSql(Q)'
  BY <1>3 DEF InSql, NoneAfter, Asks
<1>5. CASE results' = results
  <2>1. /\ InResults(P)' = InResults(P) /\ InResults(Q)' = InResults(Q)
        /\ NoneAfter(results, P, Q)' = NoneAfter(results, P, Q)
    BY <1>5 DEF InResults, NoneAfter, Asks
  <2> QED BY <1>4, <2>1 DEF UnderWay, LastWord
<1>6. CASE results' = Append(results, r) /\ q.op \in SelectOp
  <2>1. /\ Len(results') = Len(results) + 1 /\ Len(results) \in Nat
        /\ \A n \in 1 .. Len(results) : results'[n] = results[n]
        /\ results'[Len(results) + 1] = r
    BY <1>6, QueueFacts
  <2>2. /\ \A n \in 1 .. Len(results') : n = Len(results) + 1 \/ n \in 1 .. Len(results)
        /\ \A m, n \in 1 .. Len(results') : m < n => m \in 1 .. Len(results)
    BY <2>1
  <2>3. \A R : InResults(R)' => InResults(R) \/ Asks(q) \in R
    BY <1>2, <2>1, <2>2 DEF InResults, Asks
  <2>4. NoneAfter(results, P, Q) /\ (InResults(P) => Asks(q) \notin Q)
           => NoneAfter(results, P, Q)'
    <3>1. SUFFICES ASSUME NoneAfter(results, P, Q), InResults(P) => Asks(q) \notin Q,
                          NEW m \in 1 .. Len(results'), NEW n \in 1 .. Len(results'), m < n,
                          results'[m].op \in SelectOp, Asks(results'[m]) \in P,
                          results'[n].op \in SelectOp, Asks(results'[n]) \in Q
                   PROVE  FALSE
      BY DEF NoneAfter, Asks
    <3>2. m \in 1 .. Len(results) /\ results'[m] = results[m]
      BY <2>1, <2>2, <3>1
    <3>3. CASE n \in 1 .. Len(results)
      BY <2>1, <3>1, <3>2, <3>3 DEF NoneAfter
    <3>4. CASE n = Len(results) + 1
      <4>1. InResults(P)
        BY <3>1, <3>2 DEF InResults
      <4> QED BY <1>2, <2>1, <3>1, <3>4, <4>1
    <3> QED BY <2>2, <3>3, <3>4
  <2> QED BY <1>4, <1>6, <2>3, <2>4 DEF UnderWay, LastWord
<1> QED BY <1>1, <1>5, <1>6

\* A SELECT is sent, and nothing else happens to the queues.
LEMMA AskKeeps ==
    ASSUME IInv, NEW P, NEW Q, NEW op \in SelectOp, NEW p \in Player,
           Send(<<Select(op, p)>>), results' = results
    PROVE  /\ UnderWay(P)' <=> UnderWay(P) \/ <<op, p, TRUE>> \in P
           /\ LastWord(P, Q) /\ (<<op, p, TRUE>> \in Q => ~UnderWay(P)) => LastWord(P, Q)'
<1> DEFINE more == <<Select(op, p)>>
<1>1. more \in Seq(Query) /\ Len(more) = 1 /\ more[1] = Select(op, p)
  BY QueryType
<1>2. Select(op, p).op = op /\ Asks(Select(op, p)) = <<op, p, TRUE>>
  BY DEF Select, Asks
<1>3. \A n \in 1 .. Len(more) : n = 1
  BY <1>1
<1>4. NoneAfter(more, P, Q)
  BY <1>3 DEF NoneAfter
<1>5. Send(more)
  OBVIOUS
<1> HIDE DEF more
<1>5a. ASSUME NEW R
       PROVE  (\E n \in 1 .. Len(more) : more[n].op \in SelectOp /\ Asks(more[n]) \in R)
                  <=> <<op, p, TRUE>> \in R
  <2>1. more[1].op \in SelectOp /\ Asks(more[1]) = <<op, p, TRUE>> /\ 1 \in 1 .. Len(more)
    BY <1>1, <1>2
  <2> QED BY <1>3, <2>1
<1>6. InSql(P)' <=> InSql(P) \/ <<op, p, TRUE>> \in P
  BY <1>1, <1>5, <1>5a, SqlSent
<1>7. InSql(Q)' <=> InSql(Q) \/ <<op, p, TRUE>> \in Q
  BY <1>1, <1>5, <1>5a, SqlSent
<1>8. NoneAfter(sql, P, Q) /\ (<<op, p, TRUE>> \in Q => ~InSql(P)) => NoneAfter(sql, P, Q)'
  BY <1>1, <1>2, <1>3, <1>4, <1>5, SqlSent
<1> QED BY <1>6, <1>7, <1>8, ResultsSame DEF UnderWay, LastWord

\* Queries that ask nothing are sent.
LEMMA WriteKeeps ==
    ASSUME IInv, NEW P, NEW Q, NEW more \in Seq(Query), Send(more), results' = results,
           \A n \in 1 .. Len(more) : more[n].op \notin SelectOp
    PROVE  /\ UnderWay(P)' <=> UnderWay(P)
           /\ LastWord(P, Q) => LastWord(P, Q)'
<1>1. NoneAfter(more, P, Q)
  BY DEF NoneAfter
<1>2. InSql(P)' <=> InSql(P)
  BY SqlSent
<1>3. InSql(Q)' <=> InSql(Q)
  BY SqlSent
<1>4. NoneAfter(sql, P, Q) => NoneAfter(sql, P, Q)'
  BY <1>1, SqlSent
<1> QED BY <1>2, <1>3, <1>4, ResultsSame DEF UnderWay, LastWord

LEMMA QueuesKeep ==
    ASSUME NEW P, NEW Q, sql' = sql, results' = results
    PROVE  /\ UnderWay(P)' <=> UnderWay(P)
           /\ LastWord(P, Q) => LastWord(P, Q)'
BY SqlSame, ResultsSame DEF UnderWay, LastWord

\* The peer is gone, or the client: questions go, or nobody waits for them.
Weaker(new, old) ==
    /\ Len(new) = Len(old)
    /\ \A n \in 1 .. Len(old) : new[n].op \in SelectOp =>
           /\ old[n].op \in SelectOp
           /\ \/ Asks(new[n]) = Asks(old[n])
              \/ /\ Asks(new[n]) = <<old[n].op, old[n].pid, FALSE>>
                 /\ Asks(old[n]) = <<old[n].op, old[n].pid, TRUE>>
                 /\ old[n].pid \in Player

LEMMA VoidedWeaker ==
    ASSUME NEW queue, queue \in Seq(Query) \/ queue \in Seq(Result)
    PROVE  /\ Weaker(Voided(queue), queue)
           /\ \A n \in 1 .. Len(queue) :
                  /\ Voided(queue)[n].op \notin SelectOp
                  /\ \/ Voided(queue)[n] = queue[n]
                     \/ queue[n].op \in SelectOp
<1>1. Len(queue) \in Nat /\ DOMAIN queue = 1 .. Len(queue)
  OBVIOUS
<1>2. Voided(queue) \in Seq(Query) \/ Voided(queue) \in Seq(Result)
  BY VoidedType
<1>3. Len(Voided(queue)) = Len(queue)
  <2>1. DOMAIN Voided(queue) = 1 .. Len(queue)
    BY <1>1 DEF Voided
  <2> QED BY <1>1, <1>2, <2>1
<1>4. \A n \in 1 .. Len(queue) :
          Voided(queue)[n] = IF queue[n].op \in SelectOp THEN Void ELSE queue[n]
  BY <1>1 DEF Voided
<1>5. Void.op \notin SelectOp
  BY DEF Void, SelectOp
<1> QED BY <1>3, <1>4, <1>5 DEF Weaker

\* A question nobody waits for any more.
LEMMA Silenced ==
    ASSUME NEW q, q.op \in SelectOp, q \in Query \/ q \in Result
    PROVE  LET r == [q EXCEPT !.live = FALSE]
           IN  /\ r.op = q.op /\ r.pid = q.pid /\ r.live = FALSE
               /\ q \in Result => r.rows = q.rows
               /\ q.pid \in Player
               /\ Asks(r) = <<q.op, q.pid, FALSE>>
               /\ Asks(q) = <<q.op, q.pid, TRUE>> \/ Asks(q) = <<q.op, q.pid, FALSE>>
<1>1. CASE q \in Query
  <2>1. /\ q \in [op : SelectOp, pid : Player, live : BOOLEAN]
        /\ q \notin Result
    BY <1>1 DEF Query, Void, SelectOp, Result
  <2> QED BY <2>1 DEF Asks
<1>2. CASE q \in Result
  <2>1. q \in [op : SelectOp, pid : Player, live : BOOLEAN, rows : Rows]
    BY <1>2 DEF Result, Void, SelectOp
  <2> QED BY <2>1 DEF Asks
<1> QED BY <1>1, <1>2

LEMMA UnhandledWeaker ==
    ASSUME NEW queue, NEW p \in Player, queue \in Seq(Query) \/ queue \in Seq(Result)
    PROVE  /\ Weaker(Unhandled(queue, p), queue)
           /\ \A n \in 1 .. Len(queue) :
                  /\ ~(/\ Unhandled(queue, p)[n].op \in SelectOp
                       /\ Unhandled(queue, p)[n].pid = p
                       /\ Unhandled(queue, p)[n].live)
                  /\ \/ Unhandled(queue, p)[n] = queue[n]
                     \/ /\ queue[n].op \in SelectOp
                        /\ Unhandled(queue, p)[n].op = queue[n].op
                        /\ Unhandled(queue, p)[n].pid = queue[n].pid
                        /\ queue \in Seq(Result) =>
                               Unhandled(queue, p)[n].rows = queue[n].rows
<1>1. /\ Len(queue) \in Nat /\ DOMAIN queue = 1 .. Len(queue)
      /\ \A n \in 1 .. Len(queue) : queue[n] \in Query \/ queue[n] \in Result
      /\ queue \in Seq(Result) => \A n \in 1 .. Len(queue) : queue[n] \in Result
  OBVIOUS
<1>2. Unhandled(queue, p) \in Seq(Query) \/ Unhandled(queue, p) \in Seq(Result)
  BY UnhandledType
<1>3. Len(Unhandled(queue, p)) = Len(queue)
  <2>1. DOMAIN Unhandled(queue, p) = 1 .. Len(queue)
    BY <1>1 DEF Unhandled
  <2> QED BY <1>1, <1>2, <2>1
<1>4. \A n \in 1 .. Len(queue) :
          Unhandled(queue, p)[n] = IF queue[n].op \in SelectOp /\ queue[n].pid = p
                                   THEN [queue[n] EXCEPT !.live = FALSE] ELSE queue[n]
  BY <1>1 DEF Unhandled
<1>5. ASSUME NEW n \in 1 .. Len(queue), queue[n].op \in SelectOp
      PROVE  LET r == [queue[n] EXCEPT !.live = FALSE]
             IN  /\ r.op = queue[n].op /\ r.pid = queue[n].pid /\ r.live = FALSE
                 /\ queue[n] \in Result => r.rows = queue[n].rows
                 /\ queue[n].pid \in Player
                 /\ Asks(r) = <<queue[n].op, queue[n].pid, FALSE>>
                 /\ \/ Asks(queue[n]) = <<queue[n].op, queue[n].pid, TRUE>>
                    \/ Asks(queue[n]) = <<queue[n].op, queue[n].pid, FALSE>>
  <2> DEFINE q == queue[n]
  <2>1. q.op \in SelectOp /\ (q \in Query \/ q \in Result)
    BY <1>1, <1>5
  <2> HIDE DEF q
  <2>2. LET r == [q EXCEPT !.live = FALSE]
        IN  /\ r.op = q.op /\ r.pid = q.pid /\ r.live = FALSE
            /\ q \in Result => r.rows = q.rows
            /\ q.pid \in Player
            /\ Asks(r) = <<q.op, q.pid, FALSE>>
            /\ Asks(q) = <<q.op, q.pid, TRUE>> \/ Asks(q) = <<q.op, q.pid, FALSE>>
    BY <2>1, Silenced
  <2> QED BY <2>2 DEF q
<1>6. Weaker(Unhandled(queue, p), queue)
  BY <1>3, <1>4, <1>5 DEF Weaker
<1>7. ASSUME NEW n \in 1 .. Len(queue)
      PROVE  /\ ~(/\ Unhandled(queue, p)[n].op \in SelectOp
                  /\ Unhandled(queue, p)[n].pid = p
                  /\ Unhandled(queue, p)[n].live)
             /\ \/ Unhandled(queue, p)[n] = queue[n]
                \/ /\ queue[n].op \in SelectOp
                   /\ Unhandled(queue, p)[n].op = queue[n].op
                   /\ Unhandled(queue, p)[n].pid = queue[n].pid
                   /\ queue \in Seq(Result) =>
                          Unhandled(queue, p)[n].rows = queue[n].rows
  <2>1. CASE queue[n].op \in SelectOp
    <3> DEFINE r == [queue[n] EXCEPT !.live = FALSE]
    <3>1. /\ r.op = queue[n].op /\ r.pid = queue[n].pid /\ r.live = FALSE
          /\ queue \in Seq(Result) => r.rows = queue[n].rows
      BY <1>1, <1>5, <2>1
    <3>2. Unhandled(queue, p)[n] = IF queue[n].pid = p THEN r ELSE queue[n]
      BY <1>4, <2>1
    <3> HIDE DEF r
    <3> QED BY <2>1, <3>1, <3>2
  <2>2. CASE queue[n].op \notin SelectOp
    BY <1>4, <2>2
  <2> QED BY <2>1, <2>2
<1> QED BY <1>6, <1>7

LEMMA WeakerKeeps ==
    ASSUME IInv, NEW P, NEW Q, Lasting(P), Lasting(Q),
           Weaker(sql', sql), Weaker(results', results)
    PROVE  /\ UnderWay(P)' => UnderWay(P)
           /\ LastWord(P, Q) => LastWord(P, Q)'
<1>1. ASSUME NEW R, Lasting(R), NEW new, NEW old, Weaker(new, old), NEW n \in 1 .. Len(new),
             new[n].op \in SelectOp, Asks(new[n]) \in R
      PROVE  n \in 1 .. Len(old) /\ old[n].op \in SelectOp /\ Asks(old[n]) \in R
  BY <1>1 DEF Lasting, Weaker
<1>2. InSql(P)' => InSql(P)
  BY <1>1 DEF InSql, Asks
<1>3. InSql(Q)' => InSql(Q)
  BY <1>1 DEF InSql, Asks
<1>4. InResults(P)' => InResults(P)
  BY <1>1 DEF InResults, Asks
<1>5. NoneAfter(sql, P, Q) => NoneAfter(sql, P, Q)'
  BY <1>1 DEF NoneAfter, Asks
<1>6. NoneAfter(results, P, Q) => NoneAfter(results, P, Q)'
  BY <1>1 DEF NoneAfter, Asks
<1> QED BY <1>2, <1>3, <1>4, <1>5, <1>6 DEF UnderWay, LastWord

LEMMA SameWeaker == ASSUME NEW queue PROVE Weaker(queue, queue)
BY DEF Weaker

\* The character is asked for, and its items.
LEMMA AskTwoKeeps ==
    ASSUME IInv, NEW P, NEW Q, NEW p \in Player,
           Send(<<Select("PLAYER", p), Select("ITEM", p)>>), results' = results,
           <<"PLAYER", p, TRUE>> \notin P, <<"PLAYER", p, TRUE>> \notin Q
    PROVE  /\ UnderWay(P)' <=> UnderWay(P) \/ <<"ITEM", p, TRUE>> \in P
           /\ LastWord(P, Q) /\ (<<"ITEM", p, TRUE>> \in Q => ~UnderWay(P)) => LastWord(P, Q)'
<1> DEFINE more == <<Select("PLAYER", p), Select("ITEM", p)>>
<1>1. /\ Select("PLAYER", p) \in Query /\ Select("ITEM", p) \in Query
      /\ "ITEM" \in SelectOp
  BY QueryType DEF SelectOp
<1>2. more \in Seq(Query) /\ Len(more) = 2
  BY <1>1
<1>3. /\ Asks(more[1]) = <<"PLAYER", p, TRUE>>
      /\ Asks(more[2]) = <<"ITEM", p, TRUE>> /\ more[2].op \in SelectOp
  BY <1>1 DEF Select, Asks
<1>4. Send(more)
  OBVIOUS
<1> HIDE DEF more
<1>5. 2 \in 1 .. Len(more) /\ \A n \in 1 .. Len(more) : n = 1 \/ n = 2
  BY <1>2
<1>6. NoneAfter(more, P, Q)
  <2>1. \A m, n \in 1 .. Len(more) : m < n => m = 1
    BY <1>2
  <2>2. Asks(more[1]) \notin P
    BY <1>3
  <2> QED BY <2>1, <2>2 DEF NoneAfter
<1>7. ASSUME NEW R, <<"PLAYER", p, TRUE>> \notin R
      PROVE  (\E n \in 1 .. Len(more) : more[n].op \in SelectOp /\ Asks(more[n]) \in R)
                 <=> <<"ITEM", p, TRUE>> \in R
  BY <1>3, <1>5, <1>7
<1>8. InSql(P)' <=> InSql(P) \/ <<"ITEM", p, TRUE>> \in P
  BY <1>2, <1>4, <1>7, SqlSent
<1>9. InSql(Q)' <=> InSql(Q) \/ <<"ITEM", p, TRUE>> \in Q
  BY <1>2, <1>4, <1>7, SqlSent
<1>10. NoneAfter(sql, P, Q) /\ (<<"ITEM", p, TRUE>> \in Q => ~InSql(P))
          => NoneAfter(sql, P, Q)'
  BY <1>2, <1>3, <1>4, <1>5, <1>6, SqlSent
<1> QED BY <1>8, <1>9, <1>10, ResultsSame DEF UnderWay, LastWord

-----------------------------------------------------------------------------
(* Who waits for what, in which phase.  From here on no fault happens.     *)

\* A login that a client waits for; loads of items; a safebox a client waits for.
Logins(p) == {<<"LOGIN", p, TRUE>>}
Loads(p) == {<<"ITEM", p, TRUE>>, <<"ITEM", p, FALSE>>}
Boxes(p) == {<<"BOX", p, TRUE>>, <<"BOXITEM", p, TRUE>>}

\* A login is the last thing that is asked for a player, and no two loads of
\* items are under way; who has selected nothing yet, or plays, waits for none.
Turns ==
    \A p \in Player :
        /\ LastWord(Logins(p), Logins(p)) /\ LastWord(Logins(p), Loads(p))
        /\ UnderWay(Logins(p)) => phase[p] = "login"
        /\ phase[p] \in {"select", "game"} => ~UnderWay(Loads(p))
        /\ phase[p] \in {"asked", "spawned"} => LastWord(Loads(p), Loads(p))

\* One load of the safebox at most, while the safebox is opening.
Opened ==
    \A p \in Player :
        /\ LastWord(Boxes(p), Boxes(p))
        /\ UnderWay(Boxes(p)) => box[p] = "opening"

\* Safeboxes are of those who play, and who plays needs the DB server.
Up == \A p \in Player : /\ phase[p] # "game" => box[p] = "closed"
                        /\ phase[p] # "off" => db = "up"

\* The core has the items of those who play and of open safeboxes.
Shown ==
    \A i \in Item : view[i] \in Row =>
        IF view[i].window = "INVENTORY" THEN phase[view[i].owner] = "game"
        ELSE box[view[i].owner] = "open"

TurnInv == SetInv /\ Turns /\ Opened /\ Up /\ Shown

LEMMA TurnParts ==
    TurnInv => SetInv /\ IInv /\ Turns /\ Opened /\ Up /\ Shown
BY DEF TurnInv, SetInv

LEMMA AskSets ==
    ASSUME NEW p
    PROVE  Lasting(Logins(p)) /\ Lasting(Loads(p)) /\ Lasting(Boxes(p))
BY DEF Lasting, Logins, Loads, Boxes

\* A step after which less is under way for a player.
Fewer(p) ==
    /\ UnderWay(Logins(p))' => UnderWay(Logins(p))
    /\ UnderWay(Loads(p))' => UnderWay(Loads(p))
    /\ UnderWay(Boxes(p))' => UnderWay(Boxes(p))
    /\ LastWord(Logins(p), Logins(p)) => LastWord(Logins(p), Logins(p))'
    /\ LastWord(Logins(p), Loads(p)) => LastWord(Logins(p), Loads(p))'
    /\ LastWord(Loads(p), Loads(p)) => LastWord(Loads(p), Loads(p))'
    /\ LastWord(Boxes(p), Boxes(p)) => LastWord(Boxes(p), Boxes(p))'

LEMMA HandledFewer ==
    ASSUME IInv, NEW p, results # <<>>, results' = Tail(results), sql' = sql
    PROVE  Fewer(p)
BY HandledKeeps DEF Fewer

LEMMA ExecutedFewer ==
    ASSUME IInv, NEW p, Execute
    PROVE  Fewer(p)
BY ExecutedKeeps DEF Fewer

LEMMA WriteFewer ==
    ASSUME IInv, NEW p, NEW more \in Seq(Query), Send(more), results' = results,
           \A n \in 1 .. Len(more) : more[n].op \notin SelectOp
    PROVE  Fewer(p)
BY WriteKeeps DEF Fewer

LEMMA SameFewer ==
    ASSUME NEW p, sql' = sql, results' = results
    PROVE  Fewer(p)
BY QueuesKeep DEF Fewer

LEMMA GoneFewer ==
    ASSUME IInv, NEW p, Weaker(sql', sql), Weaker(results', results)
    PROVE  Fewer(p)
BY AskSets, WeakerKeeps DEF Fewer

LEMMA AskFewer ==
    ASSUME IInv, NEW o, NEW op \in SelectOp, NEW p \in Player,
           Send(<<Select(op, p)>>), results' = results,
           <<op, p, TRUE>> \notin Logins(o) \cup Loads(o) \cup Boxes(o)
    PROVE  Fewer(o)
<1>1. ASSUME NEW P, NEW Q, <<op, p, TRUE>> \notin P, <<op, p, TRUE>> \notin Q
      PROVE  (UnderWay(P)' => UnderWay(P)) /\ (LastWord(P, Q) => LastWord(P, Q)')
  BY <1>1, AskKeeps
<1> QED BY <1>1 DEF Fewer

LEMMA AskTwoFewer ==
    ASSUME IInv, NEW o, NEW p \in Player, o # p,
           Send(<<Select("PLAYER", p), Select("ITEM", p)>>), results' = results
    PROVE  Fewer(o)
<1>1. /\ <<"PLAYER", p, TRUE>> \notin Logins(o) \cup Loads(o) \cup Boxes(o)
      /\ <<"ITEM", p, TRUE>> \notin Logins(o) \cup Loads(o) \cup Boxes(o)
  BY DEF Logins, Loads, Boxes
<1>2. ASSUME NEW P, NEW Q, <<"PLAYER", p, TRUE>> \notin P, <<"PLAYER", p, TRUE>> \notin Q,
             <<"ITEM", p, TRUE>> \notin P, <<"ITEM", p, TRUE>> \notin Q
      PROVE  (UnderWay(P)' => UnderWay(P)) /\ (LastWord(P, Q) => LastWord(P, Q)')
  BY <1>2, AskTwoKeeps
<1> QED BY <1>1, <1>2 DEF Fewer

\* A step in which less is under way and nobody changes his phase or safebox.
LEMMA TurnsKept ==
    ASSUME Turns, \A p \in Player : Fewer(p), phase' = phase
    PROVE  Turns'
BY DEF Turns, Fewer

LEMMA OpenedKept ==
    ASSUME Opened, \A p \in Player : Fewer(p), box' = box
    PROVE  Opened'
BY DEF Opened, Fewer

LEMMA UpKept ==
    ASSUME Up, UNCHANGED <<phase, box>>, db' = "up" \/ db' = db
    PROVE  Up'
BY DEF Up

LEMMA ShownKept ==
    ASSUME Shown, UNCHANGED view,
           \A p \in Player : (phase[p] = "game" => phase'[p] = "game")
                                /\ (box[p] = "open" => box'[p] = "open")
    PROVE  Shown'
<1>1. \A i \in Item : view[i] \in Row => view[i].owner \in Player
  BY RowType
<1> QED BY <1>1 DEF Shown

LEMMA TurnTypes ==
    ASSUME TurnInv
    PROVE  /\ phase \in [Player -> Phase] /\ box \in [Player -> {"closed", "opening", "open"}]
           /\ view \in View /\ db \in {"up", "ending"} /\ cache \in Caches /\ set \in Sets
           /\ sql \in Seq(Query)
           /\ \A i \in Item : view[i] \in Row => view[i].owner \in Player
BY TurnParts, TypeParts, RowType

\* QUERY_LOGIN_BY_KEY.
LEMMA TurnLogin ==
    ASSUME TurnInv, NEW p \in Player, Login(p)
    PROVE  Turns' /\ Opened' /\ Up' /\ Shown'
<1>1. /\ db = "up" /\ phase[p] = "off" /\ phase' = [phase EXCEPT ![p] = "login"]
      /\ Send(<<Select("LOGIN", p)>>)
      /\ UNCHANGED <<db, view, box, results>> /\ "LOGIN" \in SelectOp
  BY DEF Login, SelectOp
<1>2. \A o \in Player : o # p => Fewer(o)
  <2>1. \A o \in Player : o # p => <<"LOGIN", p, TRUE>> \notin Logins(o) \cup Loads(o) \cup Boxes(o)
    BY DEF Logins, Loads, Boxes
  <2> QED BY <1>1, <2>1, TurnParts, AskFewer
<1>3. /\ <<"LOGIN", p, TRUE>> \notin Loads(p) /\ <<"LOGIN", p, TRUE>> \notin Boxes(p)
      /\ <<"LOGIN", p, TRUE>> \in Logins(p)
  BY DEF Logins, Loads, Boxes
<1>4. /\ UnderWay(Loads(p))' <=> UnderWay(Loads(p))
      /\ UnderWay(Boxes(p))' <=> UnderWay(Boxes(p))
      /\ LastWord(Boxes(p), Boxes(p)) => LastWord(Boxes(p), Boxes(p))'
      /\ LastWord(Logins(p), Loads(p)) => LastWord(Logins(p), Loads(p))'
      /\ LastWord(Logins(p), Logins(p)) /\ ~UnderWay(Logins(p)) => LastWord(Logins(p), Logins(p))'
  BY <1>1, <1>3, TurnParts, AskKeeps
<1>5. /\ phase'[p] = "login" /\ \A o \in Player : o # p => phase'[o] = phase[o]
      /\ ~UnderWay(Logins(p))
  BY <1>1, TurnTypes, TurnParts DEF Turns
<1>6. Turns'
  <2>1. ASSUME NEW o \in Player
        PROVE  /\ LastWord(Logins(o), Logins(o))' /\ LastWord(Logins(o), Loads(o))'
               /\ UnderWay(Logins(o))' => phase'[o] = "login"
               /\ phase'[o] \in {"select", "game"} => ~UnderWay(Loads(o))'
               /\ phase'[o] \in {"asked", "spawned"} => LastWord(Loads(o), Loads(o))'
    <3>1. CASE o = p
      BY <1>4, <1>5, <3>1, TurnParts DEF Turns
    <3>2. CASE o # p
      BY <1>2, <1>5, <3>2, TurnParts DEF Turns, Fewer
    <3> QED BY <3>1, <3>2
  <2> QED BY <2>1 DEF Turns
<1>7. Opened'
  <2>1. ASSUME NEW o \in Player
        PROVE  /\ LastWord(Boxes(o), Boxes(o))'
               /\ UnderWay(Boxes(o))' => box'[o] = "opening"
    <3>1. CASE o = p
      BY <1>1, <1>4, <3>1, TurnParts DEF Opened
    <3>2. CASE o # p
      BY <1>1, <1>2, <3>2, TurnParts DEF Opened, Fewer
    <3> QED BY <3>1, <3>2
  <2> QED BY <2>1 DEF Opened
<1>8. Up' /\ Shown'
  BY <1>1, <1>5, TurnParts, ShownKept DEF Up
<1> QED BY <1>6, <1>7, <1>8

\* QUERY_PLAYER_LOAD of a player that is not cached.
LEMMA TurnLoadSql ==
    ASSUME TurnInv, Faults = {}, NEW p \in Player, LoadPlayerFromSql(p)
    PROVE  Turns' /\ Opened' /\ Up' /\ Shown'
<1>1. /\ phase[p] = "select" /\ phase' = [phase EXCEPT ![p] = "asked"]
      /\ Send(<<Select("PLAYER", p), Select("ITEM", p)>>)
      /\ UNCHANGED <<db, view, box, results>>
  BY DEF LoadPlayerFromSql, MaySelect
<1>2. \A o \in Player : o # p => Fewer(o)
  BY <1>1, TurnParts, AskTwoFewer
<1>3. /\ <<"PLAYER", p, TRUE>> \notin Loads(p) /\ <<"PLAYER", p, TRUE>> \notin Boxes(p)
      /\ <<"PLAYER", p, TRUE>> \notin Logins(p)
      /\ <<"ITEM", p, TRUE>> \notin Boxes(p) /\ <<"ITEM", p, TRUE>> \notin Logins(p)
  BY DEF Logins, Loads, Boxes
<1>4. /\ UnderWay(Logins(p))' <=> UnderWay(Logins(p))
      /\ UnderWay(Boxes(p))' <=> UnderWay(Boxes(p))
      /\ LastWord(Boxes(p), Boxes(p)) => LastWord(Boxes(p), Boxes(p))'
      /\ LastWord(Logins(p), Logins(p)) => LastWord(Logins(p), Logins(p))'
      /\ LastWord(Logins(p), Loads(p)) /\ ~UnderWay(Logins(p)) => LastWord(Logins(p), Loads(p))'
      /\ LastWord(Loads(p), Loads(p)) /\ ~UnderWay(Loads(p)) => LastWord(Loads(p), Loads(p))'
  BY <1>1, <1>3, TurnParts, AskTwoKeeps
<1>5. /\ phase'[p] = "asked" /\ \A o \in Player : o # p => phase'[o] = phase[o]
      /\ ~UnderWay(Logins(p)) /\ ~UnderWay(Loads(p))
  BY <1>1, TurnTypes, TurnParts DEF Turns
<1>5a. LastWord(Loads(p), Loads(p))
  BY <1>5 DEF UnderWay, LastWord, NoneAfter, InSql, InResults
<1>6. Turns'
  <2>1. ASSUME NEW o \in Player
        PROVE  /\ LastWord(Logins(o), Logins(o))' /\ LastWord(Logins(o), Loads(o))'
               /\ UnderWay(Logins(o))' => phase'[o] = "login"
               /\ phase'[o] \in {"select", "game"} => ~UnderWay(Loads(o))'
               /\ phase'[o] \in {"asked", "spawned"} => LastWord(Loads(o), Loads(o))'
    <3>1. CASE o = p
      BY <1>4, <1>5, <1>5a, <3>1, TurnParts DEF Turns
    <3>2. CASE o # p
      BY <1>2, <1>5, <3>2, TurnParts DEF Turns, Fewer
    <3> QED BY <3>1, <3>2
  <2> QED BY <2>1 DEF Turns
<1>7. Opened'
  <2>1. ASSUME NEW o \in Player
        PROVE  /\ LastWord(Boxes(o), Boxes(o))'
               /\ UnderWay(Boxes(o))' => box'[o] = "opening"
    <3>1. CASE o = p
      BY <1>1, <1>4, <3>1, TurnParts DEF Opened
    <3>2. CASE o # p
      BY <1>1, <1>2, <3>2, TurnParts DEF Opened, Fewer
    <3> QED BY <3>1, <3>2
  <2> QED BY <2>1 DEF Opened
<1>8. Up' /\ Shown'
  BY <1>1, <1>5, TurnParts, ShownKept DEF Up
<1> QED BY <1>6, <1>7, <1>8

\* ... and of one that is.
LEMMA TurnLoadCached ==
    ASSUME TurnInv, Faults = {}, NEW p \in Player, LoadCachedPlayer(p)
    PROVE  Turns' /\ Opened' /\ Up' /\ Shown'
<1>1. phase[p] = "select" /\ UNCHANGED <<db, box, results>>
  BY DEF LoadCachedPlayer, MaySelect
<1>2. ~UnderWay(Loads(p)) /\ ~UnderWay(Logins(p)) /\ db = "up" /\ box[p] = "closed"
  BY <1>1, TurnParts DEF Turns, Up
<1>2a. LastWord(Loads(p), Loads(p))
  BY <1>2 DEF UnderWay, LastWord, NoneAfter, InSql, InResults
<1>3. \/ sql' = sql /\ phase' = [phase EXCEPT ![p] = "asked"] /\ view' = view
      \/ sql' = sql /\ phase' = [phase EXCEPT ![p] = "game"] /\ HasSet(set, p)
           /\ view' = [i \in Item |->
                         IF i \in { j \in DOMAIN CachedRows(p) : view[j] = Offline }
                         THEN CachedRows(p)[i] ELSE view[i]]
      \/ Send(<<Select("ITEM", p)>>) /\ phase' = [phase EXCEPT ![p] = "spawned"]
           /\ view' = view
  <2>1. CASE p \in play
    BY <2>1 DEF LoadCachedPlayer
  <2>2. CASE p \notin play /\ HasSet(set, p)
    BY <2>2 DEF LoadCachedPlayer
  <2>3. CASE p \notin play /\ ~HasSet(set, p)
    BY <2>3 DEF LoadCachedPlayer
  <2> QED BY <2>1, <2>2, <2>3
<1>4. \A o \in Player : o # p => Fewer(o)
  <2>1. \A o \in Player : o # p => <<"ITEM", p, TRUE>> \notin Logins(o) \cup Loads(o) \cup Boxes(o)
    BY DEF Logins, Loads, Boxes
  <2>2. "ITEM" \in SelectOp
    BY DEF SelectOp
  <2> QED BY <1>1, <1>3, <2>1, <2>2, TurnParts, AskFewer, SameFewer
<1>5. \A o \in Player : o # p => phase'[o] = phase[o]
  BY <1>3, TurnTypes
<1>6. /\ UnderWay(Logins(p))' <=> UnderWay(Logins(p))
      /\ UnderWay(Boxes(p))' <=> UnderWay(Boxes(p))
      /\ LastWord(Boxes(p), Boxes(p)) => LastWord(Boxes(p), Boxes(p))'
      /\ LastWord(Logins(p), Logins(p)) => LastWord(Logins(p), Logins(p))'
      /\ LastWord(Logins(p), Loads(p)) => LastWord(Logins(p), Loads(p))'
      /\ LastWord(Loads(p), Loads(p)) => LastWord(Loads(p), Loads(p))'
      /\ sql' = sql => ~UnderWay(Loads(p))'
  <2>1. CASE sql' = sql
    BY <1>1, <1>2, <2>1, QueuesKeep
  <2>2. CASE Send(<<Select("ITEM", p)>>)
    <3>1. /\ <<"ITEM", p, TRUE>> \notin Boxes(p) /\ <<"ITEM", p, TRUE>> \notin Logins(p)
          /\ "ITEM" \in SelectOp
      BY DEF Logins, Boxes, SelectOp
    <3>2. /\ UnderWay(Logins(p))' <=> UnderWay(Logins(p))
          /\ UnderWay(Boxes(p))' <=> UnderWay(Boxes(p))
          /\ LastWord(Boxes(p), Boxes(p)) => LastWord(Boxes(p), Boxes(p))'
          /\ LastWord(Logins(p), Logins(p)) => LastWord(Logins(p), Logins(p))'
          /\ LastWord(Logins(p), Loads(p)) => LastWord(Logins(p), Loads(p))'
          /\ LastWord(Loads(p), Loads(p)) => LastWord(Loads(p), Loads(p))'
      BY <1>1, <1>2, <2>2, <3>1, TurnParts, AskKeeps
    <3>3. ASSUME sql' = sql PROVE FALSE
      <4>1. Len(sql') = Len(sql) + 1 /\ Len(sql) \in Nat
        <5>1. <<Select("ITEM", p)>> \in Seq(Query)
          BY <3>1, QueryType
        <5> QED BY <2>2, <5>1, TurnTypes DEF Send
      <4> QED BY <3>3, <4>1
    <3> QED BY <3>2, <3>3
  <2> QED BY <1>3, <2>1, <2>2
<1>7. Turns'
  <2>1. ASSUME NEW o \in Player
        PROVE  /\ LastWord(Logins(o), Logins(o))' /\ LastWord(Logins(o), Loads(o))'
               /\ UnderWay(Logins(o))' => phase'[o] = "login"
               /\ phase'[o] \in {"select", "game"} => ~UnderWay(Loads(o))'
               /\ phase'[o] \in {"asked", "spawned"} => LastWord(Loads(o), Loads(o))'
    <3>1. CASE o = p
      <4>1. phase'[p] = "asked" \/ (phase'[p] = "game" /\ sql' = sql) \/ phase'[p] = "spawned"
        BY <1>3, TurnTypes
      <4> QED BY <1>2, <1>2a, <1>6, <3>1, <4>1, TurnParts DEF Turns
    <3>2. CASE o # p
      BY <1>4, <1>5, <3>2, TurnParts DEF Turns, Fewer
    <3> QED BY <3>1, <3>2
  <2> QED BY <2>1 DEF Turns
<1>8. Opened'
  <2>1. ASSUME NEW o \in Player
        PROVE  /\ LastWord(Boxes(o), Boxes(o))'
               /\ UnderWay(Boxes(o))' => box'[o] = "opening"
    <3>1. CASE o = p
      BY <1>1, <1>6, <3>1, TurnParts DEF Opened
    <3>2. CASE o # p
      BY <1>1, <1>4, <3>2, TurnParts DEF Opened, Fewer
    <3> QED BY <3>1, <3>2
  <2> QED BY <2>1 DEF Opened
<1>9. Up'
  BY <1>1, <1>2, <1>5, TurnParts DEF Up
<1>10. Shown'
  <2>1. CASE view' = view
    BY <1>1, <1>5, <2>1, TurnParts, ShownKept
  <2>2. CASE /\ HasSet(set, p) /\ phase' = [phase EXCEPT ![p] = "game"]
             /\ view' = [i \in Item |->
                           IF i \in { j \in DOMAIN CachedRows(p) : view[j] = Offline }
                           THEN CachedRows(p)[i] ELSE view[i]]
    <3>1. ASSUME NEW i \in DOMAIN CachedRows(p), i \in Item
          PROVE  CachedRows(p)[i].owner = p /\ CachedRows(p)[i].window = "INVENTORY"
      <4>1. CachedRows(p)[i] = cache[i].row /\ i \in set[p]
        BY DEF CachedRows
      <4>2. cache[i] # NoEntry /\ cache[i].row.owner = p
        BY <2>2, <4>1, TurnParts, TypeParts DEF SetsAgree, Cached
      <4> QED BY <3>1, <4>1, <4>2, TurnParts, SetParts DEF Whole
    <3>2. ASSUME NEW i \in Item
          PROVE  view'[i] = view[i] \/ (i \in DOMAIN CachedRows(p) /\ view'[i] = CachedRows(p)[i])
      BY <2>2
    <3>3. phase'[p] = "game"
      BY <2>2, TurnTypes
    <3> QED BY <1>1, <1>5, <3>1, <3>2, <3>3, TurnTypes, TurnParts DEF Shown
  <2> QED BY <1>3, <2>1, <2>2
<1> QED BY <1>7, <1>8, <1>9, <1>10

\* A player changes his phase or safebox, and for the others less is under way.
LEMMA TurnsAfter ==
    ASSUME TurnInv, NEW p \in Player,
           \A o \in Player : o # p => Fewer(o) /\ phase'[o] = phase[o],
           LastWord(Logins(p), Logins(p))', LastWord(Logins(p), Loads(p))',
           UnderWay(Logins(p))' => phase'[p] = "login",
           phase'[p] \in {"select", "game"} => ~UnderWay(Loads(p))',
           phase'[p] \in {"asked", "spawned"} => LastWord(Loads(p), Loads(p))'
    PROVE  Turns'
<1>1. ASSUME NEW o \in Player
      PROVE  /\ LastWord(Logins(o), Logins(o))' /\ LastWord(Logins(o), Loads(o))'
             /\ UnderWay(Logins(o))' => phase'[o] = "login"
             /\ phase'[o] \in {"select", "game"} => ~UnderWay(Loads(o))'
             /\ phase'[o] \in {"asked", "spawned"} => LastWord(Loads(o), Loads(o))'
  <2>1. CASE o = p
    BY <2>1
  <2>2. CASE o # p
    BY <2>2, TurnParts DEF Turns, Fewer
  <2> QED BY <2>1, <2>2
<1> QED BY <1>1 DEF Turns

LEMMA OpenedAfter ==
    ASSUME TurnInv, NEW p \in Player,
           \A o \in Player : o # p => Fewer(o) /\ box'[o] = box[o],
           LastWord(Boxes(p), Boxes(p))',
           UnderWay(Boxes(p))' => box'[p] = "opening"
    PROVE  Opened'
<1>1. ASSUME NEW o \in Player
      PROVE  LastWord(Boxes(o), Boxes(o))' /\ (UnderWay(Boxes(o))' => box'[o] = "opening")
  <2>1. CASE o = p
    BY <2>1
  <2>2. CASE o # p
    BY <2>2, TurnParts DEF Opened, Fewer
  <2> QED BY <2>1, <2>2
<1> QED BY <1>1 DEF Opened

\* The safebox is asked for.
LEMMA TurnReqSafeboxLoad ==
    ASSUME TurnInv, NEW p \in Player, ReqSafeboxLoad(p)
    PROVE  Turns' /\ Opened' /\ Up' /\ Shown'
<1>1. /\ phase[p] = "game" /\ box[p] = "closed" /\ box' = [box EXCEPT ![p] = "opening"]
      /\ Send(<<Select("BOX", p)>>) /\ UNCHANGED <<db, phase, view, results>>
      /\ "BOX" \in SelectOp
  BY DEF ReqSafeboxLoad, SelectOp
<1>2. \A o \in Player : o # p => Fewer(o) /\ phase'[o] = phase[o] /\ box'[o] = box[o]
  <2>1. \A o \in Player : o # p => <<"BOX", p, TRUE>> \notin Logins(o) \cup Loads(o) \cup Boxes(o)
    BY DEF Logins, Loads, Boxes
  <2> QED BY <1>1, <2>1, TurnParts, TurnTypes, AskFewer
<1>3. /\ <<"BOX", p, TRUE>> \notin Loads(p) /\ <<"BOX", p, TRUE>> \notin Logins(p)
      /\ ~UnderWay(Boxes(p))
  BY <1>1, TurnParts DEF Logins, Loads, Opened
<1>4. /\ UnderWay(Loads(p))' <=> UnderWay(Loads(p))
      /\ UnderWay(Logins(p))' <=> UnderWay(Logins(p))
      /\ LastWord(Logins(p), Logins(p)) => LastWord(Logins(p), Logins(p))'
      /\ LastWord(Logins(p), Loads(p)) => LastWord(Logins(p), Loads(p))'
      /\ LastWord(Boxes(p), Boxes(p)) => LastWord(Boxes(p), Boxes(p))'
  BY <1>1, <1>3, TurnParts, AskKeeps
<1>5. phase'[p] = "game" /\ box'[p] = "opening"
  BY <1>1, TurnTypes
<1>6. Turns'
  BY <1>1, <1>2, <1>4, <1>5, TurnParts, TurnsAfter DEF Turns
<1>7. Opened'
  BY <1>2, <1>4, <1>5, TurnParts, OpenedAfter DEF Opened
<1>8. Up' /\ Shown'
  BY <1>1, <1>2, <1>5, TurnParts, ShownKept DEF Up
<1> QED BY <1>6, <1>7, <1>8

\* A result of p is handled: its head, and what is under way then.
LEMMA HandledOf ==
    ASSUME TurnInv, NEW p \in Player, NEW op \in SelectOp, HasResult(op, p),
           results' = Tail(results)
    PROVE  /\ results # <<>> /\ Head(results).op = op /\ Head(results).rows \in Rows
           /\ Head(results).live \in BOOLEAN
           /\ Asks(Head(results)) = <<op, p, Head(results).live>>
           /\ db = "up"
BY TurnTypes, TurnParts, TypeParts, HeadResultType DEF HasResult, Asks

LEMMA TurnResultLogin ==
    ASSUME TurnInv, NEW p \in Player, RESULT_LOGIN(p)
    PROVE  Turns' /\ Opened' /\ Up' /\ Shown'
<1>1. /\ HasResult("LOGIN", p) /\ results' = Tail(results)
      /\ phase' = IF Live /\ phase[p] = "login" THEN [phase EXCEPT ![p] = "select"]
                  ELSE phase
      /\ UNCHANGED <<db, view, box, sql>> /\ "LOGIN" \in SelectOp
  BY DEF RESULT_LOGIN, PopResult, SelectOp
<1>2. /\ results # <<>> /\ Head(results).op = "LOGIN" /\ db = "up"
      /\ Asks(Head(results)) = <<"LOGIN", p, Head(results).live>>
      /\ Head(results).live \in BOOLEAN
  BY <1>1, HandledOf
<1>3. \A o \in Player : Fewer(o)
  BY <1>1, <1>2, TurnParts, HandledFewer
<1>4. Opened'
  BY <1>1, <1>3, TurnParts, OpenedKept
<1>5. CASE phase' = phase
  BY <1>1, <1>3, <1>4, <1>5, TurnParts, TurnsKept, UpKept, ShownKept
<1>6. CASE Live /\ phase[p] = "login" /\ phase' = [phase EXCEPT ![p] = "select"]
  <2>1. Asks(Head(results)) \in Logins(p)
    BY <1>2, <1>6 DEF Live, Logins
  <2>2. ~UnderWay(Logins(p))' /\ ~UnderWay(Loads(p))'
    BY <1>1, <1>2, <2>1, TurnParts, HandledKeeps DEF Turns
  <2>3. phase'[p] = "select" /\ \A o \in Player : o # p => phase'[o] = phase[o]
    BY <1>6, TurnTypes
  <2>4. Turns'
    BY <1>3, <2>2, <2>3, TurnParts, TurnsAfter DEF Turns, Fewer
  <2>5. Up'
    BY <1>1, <1>2, <1>6, <2>3, TurnParts DEF Up
  <2>6. Shown'
    BY <1>1, <1>6, <2>3, TurnParts, ShownKept
  <2> QED BY <1>4, <2>4, <2>5, <2>6
<1> QED BY <1>1, <1>5, <1>6

LEMMA TurnResultPlayerLoad ==
    ASSUME TurnInv, NEW p \in Player, RESULT_PLAYER_LOAD(p)
    PROVE  Turns' /\ Opened' /\ Up' /\ Shown'
<1>1. /\ HasResult("PLAYER", p) /\ results' = Tail(results)
      /\ \/ phase' = phase
         \/ phase[p] = "asked" /\ phase' = [phase EXCEPT ![p] = "spawned"]
      /\ UNCHANGED <<db, view, box, sql>> /\ "PLAYER" \in SelectOp
  BY DEF RESULT_PLAYER_LOAD, PopResult, SelectOp
<1>2. results # <<>> /\ db = "up"
  BY <1>1, HandledOf
<1>3. \A o \in Player : Fewer(o)
  BY <1>1, <1>2, TurnParts, HandledFewer
<1>4. Opened'
  BY <1>1, <1>3, TurnParts, OpenedKept
<1>5. CASE phase' = phase
  BY <1>1, <1>3, <1>4, <1>5, TurnParts, TurnsKept, UpKept, ShownKept
<1>6. CASE phase[p] = "asked" /\ phase' = [phase EXCEPT ![p] = "spawned"]
  <2>3. phase'[p] = "spawned" /\ \A o \in Player : o # p => phase'[o] = phase[o]
    BY <1>6, TurnTypes
  <2>4. Turns'
    BY <1>3, <1>6, <2>3, TurnParts, TurnsAfter DEF Turns, Fewer
  <2>5. Up'
    BY <1>1, <1>2, <1>6, <2>3, TurnParts DEF Up
  <2>6. Shown'
    BY <1>1, <1>6, <2>3, TurnParts, ShownKept
  <2> QED BY <1>4, <2>4, <2>5, <2>6
<1> QED BY <1>1, <1>5, <1>6

\* Rows of a player and window that enter the game.
LEMMA ShownLoaded ==
    ASSUME TurnInv, NEW p \in Player, NEW rows,
           \A i \in Item : view'[i] = view[i] \/ (i \in DOMAIN rows /\ view'[i] = rows[i]),
           \A i \in DOMAIN rows :
               /\ rows[i].owner = p
               /\ IF rows[i].window = "INVENTORY" THEN phase'[p] = "game" ELSE box'[p] = "open",
           \A o \in Player : (phase[o] = "game" => phase'[o] = "game")
                                /\ (box[o] = "open" => box'[o] = "open")
    PROVE  Shown'
BY TurnParts, TurnTypes DEF Shown

\* The items of a player.
LEMMA TurnResultItemLoad ==
    ASSUME TurnInv, NEW p \in Player, RESULT_ITEM_LOAD(p)
    PROVE  Turns' /\ Opened' /\ Up' /\ Shown'
<1> DEFINE rows == Head(results).rows
           fresh == { i \in Item : i \in DOMAIN rows /\ view[i] = Offline }
<1>1. /\ HasResult("ITEM", p) /\ results' = Tail(results) /\ ItemLoad(p, rows)
      /\ UNCHANGED <<db, box, sql>> /\ "ITEM" \in SelectOp
  BY DEF RESULT_ITEM_LOAD, PopResult, SelectOp
<1>2. /\ results # <<>> /\ Head(results).op = "ITEM" /\ db = "up" /\ rows \in Rows
      /\ Asks(Head(results)) = <<"ITEM", p, Head(results).live>>
      /\ Head(results).live \in BOOLEAN
  BY <1>1, HandledOf
<1>3. \A o \in Player : Fewer(o)
  BY <1>1, <1>2, TurnParts, HandledFewer
<1>4. Opened'
  BY <1>1, <1>3, TurnParts, OpenedKept
<1>5. CASE ~(Live /\ phase[p] = "spawned")
  <2>1. phase' = phase /\ view' = view
    BY <1>1, <1>5 DEF ItemLoad
  <2> QED BY <1>1, <1>3, <1>4, <2>1, TurnParts, TurnsKept, UpKept, ShownKept
<1>6. CASE Live /\ phase[p] = "spawned"
  <2>1. /\ phase' = [phase EXCEPT ![p] = "game"]
        /\ view' = [i \in Item |-> IF i \in fresh THEN rows[i] ELSE view[i]]
    BY <1>1, <1>6 DEF ItemLoad
  <2>2. ~UnderWay(Loads(p))'
    <3>1. Asks(Head(results)) \in Loads(p)
      BY <1>2 DEF Loads
    <3> QED BY <1>1, <1>2, <1>6, <3>1, TurnParts, HandledKeeps DEF Turns
  <2>3. phase'[p] = "game" /\ \A o \in Player : o # p => phase'[o] = phase[o]
    BY <2>1, TurnTypes
  <2>4. Turns'
    BY <1>3, <1>6, <2>2, <2>3, TurnParts, TurnsAfter DEF Turns, Fewer
  <2>5. Up'
    BY <1>1, <1>2, <2>3, TurnParts DEF Up
  <2>6. \A i \in DOMAIN rows : rows[i].owner = p /\ rows[i].window = "INVENTORY"
    BY <1>1, <1>2, TurnParts, BringsTail DEF Brought, HasResult
  <2>7. \A i \in Item : view'[i] = view[i] \/ (i \in DOMAIN rows /\ view'[i] = rows[i])
    BY <2>1
  <2> HIDE DEF rows, fresh
  <2>8. Shown'
    <3>1. \A i \in DOMAIN rows :
              /\ rows[i].owner = p
              /\ IF rows[i].window = "INVENTORY" THEN phase'[p] = "game" ELSE box'[p] = "open"
      BY <2>3, <2>6
    <3>2. \A o \in Player : (phase[o] = "game" => phase'[o] = "game")
                                /\ (box[o] = "open" => box'[o] = "open")
      BY <1>1, <2>3
    <3> QED BY <2>7, <3>1, <3>2, ShownLoaded
  <2> QED BY <1>4, <2>4, <2>5, <2>8
<1> QED BY <1>5, <1>6

\* A question is asked in the place of one that is answered.
LEMMA RelayKeeps ==
    ASSUME IInv, NEW P, NEW Q, NEW q \in Query, q.op \in SelectOp,
           results # <<>>, results' = Tail(results), Send(<<q>>),
           \/ Asks(q) \notin P /\ Asks(q) \notin Q
           \/ P = Q /\ Head(results).op \in SelectOp /\ Asks(Head(results)) \in P
    PROVE  /\ UnderWay(P)' => UnderWay(P)
           /\ LastWord(P, Q) => LastWord(P, Q)'
<1> DEFINE more == <<q>>
<1>1. more \in Seq(Query) /\ Len(more) = 1 /\ more[1] = q /\ Send(more)
  OBVIOUS
<1> HIDE DEF more
<1>2. (\A n \in 1 .. Len(more) : n = 1) /\ 1 \in 1 .. Len(more)
  BY <1>1
<1>3. NoneAfter(more, P, Q)
  BY <1>2 DEF NoneAfter
<1>4. ASSUME NEW R PROVE InSql(R)' <=> InSql(R) \/ Asks(q) \in R
  BY <1>1, <1>2, SqlSent
<1>5. NoneAfter(sql, P, Q) /\ (InSql(P) => Asks(q) \notin Q) => NoneAfter(sql, P, Q)'
  BY <1>1, <1>2, <1>3, SqlSent
<1>6. CASE Asks(q) \notin P /\ Asks(q) \notin Q
  BY <1>4, <1>5, <1>6, ResultHandled DEF UnderWay, LastWord
<1>7. CASE P = Q /\ Head(results).op \in SelectOp /\ Asks(Head(results)) \in P
  <2>1. InResults(P) /\ (NoneAfter(results, P, P) => ~InResults(P)')
    BY <1>7, ResultHandled
  <2> QED BY <1>4, <1>5, <1>7, <2>1, ResultHandled DEF UnderWay, LastWord
<1> QED BY <1>6, <1>7

LEMMA BoxAsk ==
    ASSUME NEW o, NEW p, NEW b \in BOOLEAN, NEW op, <<op, p, b>> \in Boxes(o)
    PROVE  o = p /\ b = TRUE
BY DEF Boxes

\* The safebox has been found; its items are asked for.
LEMMA TurnResultSafebox ==
    ASSUME TurnInv, NEW p \in Player, RESULT_SAFEBOX(p)
    PROVE  Turns' /\ Opened' /\ Up' /\ Shown'
<1> DEFINE q == [Select("BOXITEM", p) EXCEPT !.live = Live]
<1>1. /\ HasResult("BOX", p) /\ results' = Tail(results) /\ Send(<<q>>)
      /\ UNCHANGED <<db, phase, view, box>> /\ "BOX" \in SelectOp
  BY DEF RESULT_SAFEBOX, PopResult, gameVars, SelectOp
<1>2. /\ results # <<>> /\ Head(results).op = "BOX"
      /\ Asks(Head(results)) = <<"BOX", p, Head(results).live>>
      /\ Head(results).live \in BOOLEAN
  BY <1>1, HandledOf
<1>3. /\ q \in Query /\ q.op \in SelectOp /\ q.op = "BOXITEM" /\ q.pid = p
      /\ Asks(q) = <<"BOXITEM", p, Head(results).live>>
  <2>1. q \in Query
    BY <1>2, QueryType DEF Live
  <2> QED BY <2>1 DEF Select, Asks, Live, SelectOp
<1> HIDE DEF q
<1>4. ASSUME NEW o \in Player PROVE Fewer(o)
  <2>1. Asks(q) \notin Logins(o) /\ Asks(q) \notin Loads(o)
    BY <1>3 DEF Logins, Loads
  <2>2. Asks(q) \notin Boxes(o) \/ (Head(results).op \in SelectOp /\ Asks(Head(results)) \in Boxes(o))
    <3>1. CASE o = p /\ Head(results).live = TRUE
      BY <1>1, <1>2, <3>1 DEF Boxes
    <3>2. CASE ~(o = p /\ Head(results).live = TRUE)
      <4>1. ASSUME Asks(q) \in Boxes(o) PROVE o = p /\ Head(results).live = TRUE
        <5> DEFINE b == Head(results).live
        <5>1. b \in BOOLEAN /\ <<"BOXITEM", p, b>> \in Boxes(o)
          BY <1>2, <1>3, <4>1
        <5> HIDE DEF b
        <5>2. o = p /\ b = TRUE
          BY <5>1, BoxAsk
        <5> QED BY <5>2 DEF b
      <4> QED BY <3>2, <4>1
    <3> QED BY <3>1, <3>2
  <2> QED BY <1>1, <1>2, <1>3, <2>1, <2>2, TurnParts, RelayKeeps DEF Fewer
<1> QED BY <1>1, <1>4, TurnParts, TurnsKept, OpenedKept, UpKept, ShownKept

\* The items of the safebox.
LEMMA TurnResultSafeboxItem ==
    ASSUME TurnInv, NEW p \in Player, RESULT_SAFEBOX_ITEM(p)
    PROVE  Turns' /\ Opened' /\ Up' /\ Shown'
<1> DEFINE rows == Head(results).rows
           fresh == { i \in DOMAIN rows : view[i] = Offline }
<1>1. /\ HasResult("BOXITEM", p) /\ results' = Tail(results)
      /\ UNCHANGED <<db, phase, sql>> /\ "BOXITEM" \in SelectOp
  BY DEF RESULT_SAFEBOX_ITEM, PopResult, SelectOp
<1>2. /\ results # <<>> /\ Head(results).op = "BOXITEM" /\ db = "up" /\ rows \in Rows
      /\ Asks(Head(results)) = <<"BOXITEM", p, Head(results).live>>
      /\ Head(results).live \in BOOLEAN
  BY <1>1, HandledOf
<1>3. \A o \in Player : Fewer(o)
  BY <1>1, <1>2, TurnParts, HandledFewer
<1>4. Turns'
  BY <1>1, <1>3, TurnParts, TurnsKept
<1>5. CASE ~Live \/ box[p] = "open"
  <2>1. view' = view /\ box' = box
    BY <1>5 DEF RESULT_SAFEBOX_ITEM
  <2> QED BY <1>1, <1>3, <1>4, <2>1, TurnParts, OpenedKept, UpKept, ShownKept
<1>6. CASE ~(~Live \/ box[p] = "open")
  <2>1. /\ box' = [box EXCEPT ![p] = "open"]
        /\ view' = [i \in Item |-> IF i \in fresh THEN rows[i] ELSE view[i]]
    BY <1>6 DEF RESULT_SAFEBOX_ITEM
  <2>2. Asks(Head(results)) \in Boxes(p)
    BY <1>2, <1>6 DEF Boxes, Live
  <2>3. UnderWay(Boxes(p)) /\ ~UnderWay(Boxes(p))'
    BY <1>1, <1>2, <2>2, TurnParts, HandledKeeps DEF Opened
  <2>4. box'[p] = "open" /\ \A o \in Player : o # p => box'[o] = box[o]
    BY <2>1, TurnTypes
  <2>5. box[p] = "opening" /\ phase[p] = "game"
    BY <2>3, TurnParts DEF Opened, Up
  <2>6. Opened'
    BY <1>3, <2>3, <2>4, TurnParts, OpenedAfter DEF Opened, Fewer
  <2>7. Up'
    BY <1>1, <2>4, <2>5, TurnParts DEF Up
  <2>8. \A i \in DOMAIN rows : rows[i].owner = p /\ rows[i].window = "SAFEBOX"
    BY <1>1, <1>2, TurnParts, BringsTail DEF Brought, HasResult
  <2>9. \A i \in Item : view'[i] = view[i] \/ (i \in DOMAIN rows /\ view'[i] = rows[i])
    BY <2>1
  <2> HIDE DEF rows, fresh
  <2>10. Shown'
    <3>1. \A i \in DOMAIN rows :
              /\ rows[i].owner = p
              /\ IF rows[i].window = "INVENTORY" THEN phase'[p] = "game" ELSE box'[p] = "open"
      BY <2>4, <2>8
    <3>2. \A o \in Player : (phase[o] = "game" => phase'[o] = "game")
                                /\ (box[o] = "open" => box'[o] = "open")
      BY <1>1, <2>4
    <3> QED BY <2>9, <3>1, <3>2, ShownLoaded
  <2> QED BY <1>4, <2>6, <2>7, <2>10
<1> QED BY <1>5, <1>6

LEMMA TurnCancelSafeboxLoad ==
    ASSUME TurnInv, NEW p \in Player, CancelSafeboxLoad(p)
    PROVE  Turns' /\ Opened' /\ Up' /\ Shown'
<1>1. /\ HasResult("BOX", p) \/ HasResult("BOXITEM", p)
      /\ results' = Tail(results) /\ Live
      /\ box' = [box EXCEPT ![p] = IF @ = "opening" THEN "closed" ELSE @]
      /\ UNCHANGED <<db, phase, view, sql>>
      /\ "BOX" \in SelectOp /\ "BOXITEM" \in SelectOp
  BY DEF CancelSafeboxLoad, PopResult, SelectOp
<1>2. /\ results # <<>> /\ Asks(Head(results)) \in Boxes(p) /\ Head(results).op \in SelectOp
  BY <1>1, HandledOf DEF Live, Boxes
<1>3. \A o \in Player : Fewer(o)
  BY <1>1, <1>2, TurnParts, HandledFewer
<1>4. Turns'
  BY <1>1, <1>3, TurnParts, TurnsKept
<1>5. UnderWay(Boxes(p)) /\ ~UnderWay(Boxes(p))'
  BY <1>1, <1>2, TurnParts, HandledKeeps DEF Opened
<1>6. /\ box[p] = "opening" /\ phase[p] = "game"
      /\ box'[p] = "closed" /\ \A o \in Player : o # p => box'[o] = box[o]
  BY <1>1, <1>5, TurnTypes, TurnParts DEF Opened, Up
<1>7. Opened'
  BY <1>3, <1>5, <1>6, TurnParts, OpenedAfter DEF Opened, Fewer
<1>8. Up' /\ Shown'
  BY <1>1, <1>6, TurnParts, ShownKept DEF Up
<1> QED BY <1>4, <1>7, <1>8

\* Rows are written, and some items change hands or leave the game.
LEMMA TurnWrites ==
    ASSUME TurnInv, NEW more \in Seq(Query), Send(more),
           \A n \in 1 .. Len(more) : more[n].op \notin SelectOp,
           UNCHANGED <<db, phase, box, results>>,
           \A i \in Item : view'[i] \in Row =>
               \/ view'[i] = view[i]
               \/ IF view'[i].window = "INVENTORY" THEN phase[view'[i].owner] = "game"
                  ELSE box[view'[i].owner] = "open"
    PROVE  Turns' /\ Opened' /\ Up' /\ Shown'
<1>1. \A o \in Player : Fewer(o)
  BY TurnParts, WriteFewer
<1>2. Shown'
  BY TurnParts DEF Shown
<1> QED BY <1>1, <1>2, TurnParts, TurnsKept, OpenedKept, UpKept

LEMMA OneWrite ==
    ASSUME NEW q \in Query, q.op \notin SelectOp
    PROVE  <<q>> \in Seq(Query) /\ \A n \in 1 .. Len(<<q>>) : <<q>>[n].op \notin SelectOp
<1>1. \A n \in 1 .. Len(<<q>>) : n = 1
  OBVIOUS
<1> QED BY <1>1

LEMMA NoWrite == <<>> \in Seq(Query) /\ \A n \in 1 .. Len(<<>>) : <<>>[n].op \notin SelectOp
<1>1. \A n \in 1 .. Len(<<>>) : FALSE
  OBVIOUS
<1> QED BY <1>1

LEMMA WriteOps ==
    ASSUME NEW i \in Item, NEW row \in Row
    PROVE  /\ Replace(i, row) \in Query /\ Replace(i, row).op \notin SelectOp
           /\ Delete(i) \in Query /\ Delete(i).op \notin SelectOp
BY QueryType DEF Replace, Delete, SelectOp

\* The writes of a handler: none, or one.
Writes(queries) ==
    queries = <<>> \/ \E q \in Query : q.op \notin SelectOp /\ queries = <<q>>

LEMMA WritesSeq ==
    ASSUME NEW queries, Writes(queries)
    PROVE  queries \in Seq(Query) /\ \A n \in 1 .. Len(queries) : queries[n].op \notin SelectOp
BY OneWrite, NoWrite DEF Writes

\* Saves of items.
LEMMA TurnSaves ==
    ASSUME TurnInv, Faults = {}, NEW p \in Player, NEW i \in Item,
           \/ SafeboxCheckout(p, i)
           \/ \E d \in Data : SaveItem(p, i, d) \/ SaveSafeboxItem(p, i, d)
    PROVE  Turns' /\ Opened' /\ Up' /\ Shown'
<1>1. PICK row, queries :
          /\ row \in Row
          /\ phase[p] = "game" /\ row.owner = p
          /\ row.window = "INVENTORY" \/ box[p] = "open"
          /\ Holds(i, row) /\ Send(queries) /\ Writes(queries)
          /\ UNCHANGED <<db, phase, box, results>>
  <2>1. CASE SafeboxCheckout(p, i)
    <3> DEFINE row == Inventory(p, view[i].data)
    <3>1. row \in Row /\ row.owner = p /\ row.window = "INVENTORY"
      BY <2>1, RowType DEF SafeboxCheckout, Row, Inventory
    <3>2. Replace(i, row) \in Query /\ Replace(i, row).op \notin SelectOp
      BY <3>1, WriteOps
    <3>3. Writes(<<Replace(i, row)>>)
      BY <3>2 DEF Writes
    <3> QED BY <2>1, <3>1, <3>3 DEF SafeboxCheckout, CheckoutFlush
  <2>2. CASE \E d \in Data : SaveItem(p, i, d)
    <3>1. PICK d \in Data : SaveItem(p, i, d)
      BY <2>2
    <3> DEFINE row == Inventory(p, d)
    <3>2. row \in Row /\ row.owner = p /\ row.window = "INVENTORY"
      BY RowType DEF Inventory
    <3>3. Writes(DirectSave(set, i, row))
      BY <3>2, WriteOps DEF DirectSave, Writes
    <3> QED BY <3>1, <3>2, <3>3 DEF SaveItem, Handles
  <2>3. CASE \E d \in Data : SaveSafeboxItem(p, i, d)
    <3>1. PICK d \in Data : SaveSafeboxItem(p, i, d)
      BY <2>3
    <3> DEFINE row == Safebox(p, d)
    <3>2. row \in Row /\ row.owner = p
      BY RowType DEF Safebox
    <3>3. Writes(<<Replace(i, row)>>)
      BY <3>2, WriteOps DEF Writes
    <3> QED BY <3>1, <3>2, <3>3 DEF SaveSafeboxItem
  <2> QED BY <2>1, <2>2, <2>3
<1>2. ASSUME NEW j \in Item, view'[j] \in Row
      PROVE  \/ view'[j] = view[j]
             \/ IF view'[j].window = "INVENTORY" THEN phase[view'[j].owner] = "game"
                ELSE box[view'[j].owner] = "open"
  BY <1>1, TurnTypes DEF Holds, View, Row
<1> QED BY <1>1, <1>2, TurnWrites, WritesSeq

\* An item is destroyed.
LEMMA TurnDestroy ==
    ASSUME TurnInv, Faults = {}, NEW i \in Item, DestroyItem(i)
    PROVE  Turns' /\ Opened' /\ Up' /\ Shown'
<1>1. Writes(<<Delete(i)>>) /\ Writes(<<>>)
  BY QueryType DEF Writes, Delete, SelectOp
<1>2. PICK queries : Send(queries) /\ Writes(queries)
  <2>1. CASE Cached(i)
    BY <1>1, <2>1 DEF DestroyItem
  <2>2. CASE ~Cached(i)
    BY <1>1, <2>2 DEF DestroyItem, DeleteUncached
  <2> QED BY <2>1, <2>2
<1>3. /\ Holds(i, Loose) /\ UNCHANGED <<db, phase, box, results>>
  BY DEF DestroyItem
<1>4. \A j \in Item : view'[j] \in Row => view'[j] = view[j]
  BY <1>3, MarkAssumption, TurnTypes DEF Holds, View
<1> QED BY <1>2, <1>3, <1>4, TurnWrites, WritesSeq

\* Entries are flushed.
LEMMA TurnFlush ==
    ASSUME TurnInv,
           \/ \E i \in Item : UpdateItemCache(i)
           \/ \E p \in Player :
                  UpdatePlayerCache(p) \/ UpdateLogoutPlayer(p) \/ QUERY_FLUSH_CACHE(p)
    PROVE  Turns' /\ Opened' /\ Up' /\ Shown'
<1>1. UNCHANGED <<db, phase, box, results, view>>
  BY DEF UpdateItemCache, UpdatePlayerCache, UpdateLogoutPlayer, QUERY_FLUSH_CACHE, gameVars
<1>2. table \in Table
  BY TurnParts, TypeParts
<1>3. ASSUME NEW items \in SUBSET Item, NEW queries \in FlushQueries(items), Send(queries)
      PROVE  Turns' /\ Opened' /\ Up' /\ Shown'
  <2>1. queries \in Seq(Query) /\ \A n \in 1 .. Len(queries) : queries[n].op \notin SelectOp
    BY <1>2, <1>3, TurnTypes, FlushWrites
  <2> QED BY <1>1, <1>3, <2>1, TurnWrites
<1>4. ASSUME NEW i \in Item, UpdateItemCache(i)
      PROVE  Turns' /\ Opened' /\ Up' /\ Shown'
  <2>1. Writes(<<OnFlush(i)>>) /\ Send(<<OnFlush(i)>>)
    BY <1>4, TurnTypes, OnFlushType, OnFlushTouches DEF UpdateItemCache, NeedQuery, Writes
  <2> QED BY <1>1, <2>1, TurnWrites, WritesSeq
<1>5. ASSUME NEW p \in Player, HasSet(set, p) PROVE set[p] \in SUBSET Item
  BY <1>5, TurnTypes DEF Sets, HasSet
<1>6. ASSUME sql' = sql
      PROVE  Turns' /\ Opened' /\ Up' /\ Shown'
  <2>1. \A o \in Player : Fewer(o)
    BY <1>1, <1>6, SameFewer
  <2> QED BY <1>1, <2>1, TurnParts, TurnsKept, OpenedKept, UpKept, ShownKept
<1>7. ASSUME NEW p \in Player, FlushItemCacheSet(p)
      PROVE  Turns' /\ Opened' /\ Up' /\ Shown'
  BY <1>3, <1>5, <1>6, <1>7 DEF FlushItemCacheSet
<1>8. ASSUME NEW p \in Player, UpdatePlayerCache(p)
      PROVE  Turns' /\ Opened' /\ Up' /\ Shown'
  BY <1>3, <1>5, <1>8 DEF UpdatePlayerCache
<1> QED BY <1>4, <1>7, <1>8 DEF UpdateLogoutPlayer, QUERY_FLUSH_CACHE

LEMMA LastOfNone ==
    ASSUME NEW P, NEW Q, ~UnderWay(P)
    PROVE  LastWord(P, Q)
BY DEF UnderWay, LastWord, NoneAfter, InSql, InResults

\* Nobody plays and no question is left.
LEMMA TurnsEmpty ==
    ASSUME \A p \in Player : ~UnderWay(Logins(p)) /\ ~UnderWay(Boxes(p)),
           \A p \in Player : phase[p] = "off"
    PROVE  Turns /\ Opened
<1>1. \A p \in Player : LastWord(Logins(p), Logins(p)) /\ LastWord(Logins(p), Loads(p))
                           /\ LastWord(Boxes(p), Boxes(p))
  BY LastOfNone
<1> QED BY <1>1 DEF Turns, Opened

\* ... any more.
LEMMA TurnsEmptied ==
    ASSUME \A p \in Player : ~UnderWay(Logins(p))' /\ ~UnderWay(Boxes(p))',
           \A p \in Player : phase'[p] = "off"
    PROVE  Turns' /\ Opened'
<1>1. ASSUME NEW P, NEW Q, ~UnderWay(P)' PROVE LastWord(P, Q)'
  BY <1>1 DEF UnderWay, LastWord, NoneAfter, InSql, InResults, Asks
<1>2. \A p \in Player : /\ LastWord(Logins(p), Logins(p))' /\ LastWord(Logins(p), Loads(p))'
                        /\ LastWord(Boxes(p), Boxes(p))'
  BY <1>1
<1> QED BY <1>2 DEF Turns, Opened

LEMMA AskOf ==
    ASSUME NEW o, NEW q, Asks(q) \in Boxes(o)
    PROVE  q.pid = o /\ q.live = TRUE
BY DEF Asks, Boxes

\* The safebox is closed.
LEMMA TurnClose ==
    ASSUME TurnInv, NEW p \in Player, CloseSafebox(p)
    PROVE  Turns' /\ Opened' /\ Up' /\ Shown'
<1>1. /\ box[p] = "open" /\ box' = [box EXCEPT ![p] = "closed"] /\ GoOffline(InBox(p))
      /\ UNCHANGED <<db, phase, sql, results>>
  BY DEF CloseSafebox, sqlVars
<1>2. \A o \in Player : Fewer(o)
  BY <1>1, SameFewer
<1>3. Turns'
  BY <1>1, <1>2, TurnParts, TurnsKept
<1>4. ~UnderWay(Boxes(p)) /\ LastWord(Boxes(p), Boxes(p))
  BY <1>1, TurnParts DEF Opened
<1>5. box'[p] = "closed" /\ \A o \in Player : o # p => box'[o] = box[o]
  BY <1>1, TurnTypes
<1>6. Opened'
  BY <1>2, <1>4, <1>5, TurnParts, OpenedAfter DEF Fewer
<1>7. Up'
  BY <1>1, <1>5, TurnParts DEF Up
<1>8. \A i \in Item : view'[i] \in Row =>
          view'[i] = view[i] /\ ~(view[i].owner = p /\ view[i].window = "SAFEBOX")
  BY <1>1, MarkAssumption, TurnTypes DEF GoOffline, InBox, View
<1>8a. \A i \in Item : view'[i] \in Row =>
           view'[i].window = "INVENTORY" \/ view'[i].window = "SAFEBOX"
  BY DEF Row
<1>9. Shown'
  BY <1>1, <1>5, <1>8, <1>8a, TurnParts, TurnTypes DEF Shown
<1> QED BY <1>3, <1>6, <1>7, <1>9

\* A client is gone.
LEMMA TurnDisconnect ==
    ASSUME TurnInv, NEW p \in Player, Disconnect(p)
    PROVE  Turns' /\ Opened' /\ Up' /\ Shown'
<1>1. /\ phase[p] \in {"select", "asked", "spawned", "game"}
      /\ phase' = [phase EXCEPT ![p] = "off"] /\ box' = [box EXCEPT ![p] = "closed"]
      /\ GoOffline({ i \in Item : view[i] \in Row /\ view[i].owner = p })
      /\ sql' = Unhandled(sql, p) /\ results' = Unhandled(results, p) /\ db' = db
  BY DEF Disconnect
<1>2. /\ Weaker(sql', sql) /\ Weaker(results', results)
      /\ \A n \in 1 .. Len(sql) : ~(/\ sql'[n].op \in SelectOp
                                    /\ sql'[n].pid = p /\ sql'[n].live)
      /\ \A n \in 1 .. Len(results) : ~(/\ results'[n].op \in SelectOp
                                        /\ results'[n].pid = p /\ results'[n].live)
      /\ Len(sql') = Len(sql) /\ Len(results') = Len(results)
  BY <1>1, TurnParts, QueueFacts, UnhandledWeaker DEF Weaker
<1>3. \A o \in Player : Fewer(o)
  BY <1>2, TurnParts, GoneFewer
<1>4. /\ phase'[p] = "off" /\ \A o \in Player : o # p => phase'[o] = phase[o]
      /\ box'[p] = "closed" /\ \A o \in Player : o # p => box'[o] = box[o]
  BY <1>1, TurnTypes
<1>5. Turns'
  BY <1>1, <1>3, <1>4, TurnParts, TurnsAfter DEF Turns, Fewer
<1>6. ~UnderWay(Boxes(p))'
  BY <1>2, AskOf DEF UnderWay, InSql, InResults, Asks
<1>7. Opened'
  BY <1>3, <1>4, <1>6, TurnParts, OpenedAfter DEF Fewer, Opened
<1>8. Up'
  BY <1>1, <1>4, TurnParts DEF Up
<1>9. \A i \in Item : view'[i] \in Row => view'[i] = view[i] /\ view[i].owner # p
  BY <1>1, MarkAssumption, TurnTypes DEF GoOffline, View
<1>10. Shown'
  BY <1>4, <1>9, TurnParts, TurnTypes DEF Shown
<1> QED BY <1>5, <1>7, <1>8, <1>10

\* The game core crashes.
LEMMA TurnCrash ==
    ASSUME TurnInv, CoreCrash
    PROVE  Turns' /\ Opened' /\ Up' /\ Shown'
<1>1. /\ phase' = [p \in Player |-> "off"] /\ box' = [p \in Player |-> "closed"]
      /\ GoOffline(Item) /\ sql' = Voided(sql) /\ results' = Voided(results)
  BY DEF CoreCrash
<1>2. /\ \A n \in 1 .. Len(sql) : sql'[n].op \notin SelectOp
      /\ \A n \in 1 .. Len(results) : results'[n].op \notin SelectOp
      /\ Len(sql') = Len(sql) /\ Len(results') = Len(results)
  BY <1>1, TurnParts, QueueFacts, VoidedWeaker DEF Weaker
<1>3. \A o \in Player : ~UnderWay(Logins(o))' /\ ~UnderWay(Boxes(o))'
  BY <1>2 DEF UnderWay, InSql, InResults, Asks
<1>4. \A o \in Player : phase'[o] = "off" /\ box'[o] = "closed"
  BY <1>1
<1>5. Turns' /\ Opened'
  BY <1>3, <1>4, TurnsEmptied
<1>6. Up'
  BY <1>4 DEF Up
<1>7. Shown'
  BY <1>1, MarkAssumption DEF GoOffline, Shown
<1> QED BY <1>5, <1>6, <1>7

\* The connections, and the end and start of the DB server.
LEMMA TurnServer ==
    ASSUME TurnInv,
           Execute \/ DropResult \/ DbEnd \/ DbRestart \/ \E i \in Item : ExecuteAsync(i)
    PROVE  Turns' /\ Opened' /\ Up' /\ Shown'
<1>1. UNCHANGED <<phase, box, view>>
  BY DEF Execute, DropResult, DbEnd, DbRestart, ExecuteAsync, gameVars
<1>2. CASE Execute \/ DropResult \/ \E i \in Item : ExecuteAsync(i)
  <2>1. db' = db
    BY <1>2 DEF Execute, DropResult, ExecuteAsync
  <2>2. \A o \in Player : Fewer(o)
    <3>1. CASE Execute
      BY <3>1, TurnParts, ExecutedFewer
    <3>2. CASE DropResult
      BY <3>2, TurnParts, HandledFewer DEF DropResult, PopResult
    <3>3. CASE \E i \in Item : ExecuteAsync(i)
      BY <3>3, SameFewer DEF ExecuteAsync
    <3> QED BY <1>2, <3>1, <3>2, <3>3
  <2> QED BY <1>1, <2>1, <2>2, TurnParts, TurnsKept, OpenedKept, UpKept, ShownKept
<1>3. Shown'
  BY <1>1, TurnParts, ShownKept
<1>4. CASE DbEnd \/ DbRestart
  <2>1. \A p \in Player : phase[p] = "off" /\ box[p] = "closed"
    BY <1>4, TurnParts DEF DbEnd, DbRestart, Up
  <2>2. \A p \in Player : ~UnderWay(Logins(p)) /\ ~UnderWay(Boxes(p))
    BY <2>1, TurnParts DEF Turns, Opened
  <2>3. \A p \in Player : ~UnderWay(Logins(p))' /\ ~UnderWay(Boxes(p))'
    <3>1. CASE DbEnd
      <4>1. PICK queries \in FlushQueries(Item) : Send(queries)
        BY <3>1 DEF DbEnd
      <4>2. queries \in Seq(Query) /\ \A n \in 1 .. Len(queries) : queries[n].op \notin SelectOp
        <5>1. table \in Table
          BY TurnParts, TypeParts
        <5> QED BY <5>1, TurnTypes, FlushWrites
      <4>3. ASSUME NEW P, ~InSql(P) PROVE ~InSql(P)'
        BY <4>1, <4>2, <4>3, TurnParts, SqlSent
      <4>4. ASSUME NEW P PROVE ~InResults(P)'
        <5>1. results' = Voided(results)
          BY <3>1 DEF DbEnd
        <5>2. /\ \A n \in 1 .. Len(results) : results'[n].op \notin SelectOp
              /\ Len(results') = Len(results)
          BY <5>1, TurnParts, QueueFacts, VoidedWeaker DEF Weaker
        <5> QED BY <5>2 DEF InResults, Asks
      <4> QED BY <2>2, <4>3, <4>4 DEF UnderWay
    <3>2. CASE DbRestart
      <4>1. ASSUME NEW P, ~InSql(P) PROVE ~InSql(P)'
        BY <3>2, <4>1, SqlSame DEF DbRestart
      <4>2. ASSUME NEW P PROVE ~InResults(P)'
        BY <3>2 DEF DbRestart, InResults
      <4> QED BY <2>2, <4>1, <4>2 DEF UnderWay
    <3> QED BY <1>4, <3>1, <3>2
  <2>4. Turns' /\ Opened'
    BY <1>1, <2>1, <2>3, TurnsEmptied
  <2>5. Up'
    BY <1>1, <2>1 DEF Up
  <2> QED BY <1>3, <2>4, <2>5
<1> QED BY <1>2, <1>4

LEMMA InitTurnInv == Init => TurnInv
<1> SUFFICES ASSUME Init PROVE TurnInv
  OBVIOUS
<1>1. sql = <<>> /\ results = <<>> /\ \A p \in Player : phase[p] = "off" /\ box[p] = "closed"
  BY DEF Init
<1>2. Turns /\ Opened
  <2>1. \A p \in Player : ~UnderWay(Logins(p)) /\ ~UnderWay(Boxes(p))
    BY <1>1 DEF UnderWay, InSql, InResults
  <2> QED BY <1>1, <2>1, TurnsEmpty
<1>3. Up /\ Shown
  BY <1>1, MarkAssumption DEF Init, Up, Shown
<1> QED BY <1>2, <1>3, InitSetInv DEF TurnInv

LEMMA NextTurnInv == Faults = {} /\ TurnInv /\ [Next]_vars => TurnInv'
<1> SUFFICES ASSUME Faults = {}, TurnInv, [Next]_vars PROVE TurnInv'
  OBVIOUS
<1>1. SetInv'
  BY TurnParts, NextSetInv DEF InOrderOfLogin
<1> SUFFICES Turns' /\ Opened' /\ Up' /\ Shown'
  BY <1>1 DEF TurnInv
<1>2. ASSUME NEW p \in Player, PlayerStep(p) PROVE Turns' /\ Opened' /\ Up' /\ Shown'
  <2>1. CASE SavePlayer(p)
    <3>1. UNCHANGED <<db, phase, box, view, sql, results>>
      BY <2>1 DEF SavePlayer, gameVars, sqlVars
    <3>2. \A o \in Player : Fewer(o)
      BY <3>1, SameFewer
    <3> QED BY <3>1, <3>2, TurnParts, TurnsKept, OpenedKept, UpKept, ShownKept
  <2> QED BY <1>2, <2>1, TurnLogin, TurnLoadSql, TurnLoadCached, TurnReqSafeboxLoad, TurnClose,
             TurnDisconnect, TurnFlush, TurnSaves DEF PlayerStep
<1>3. ASSUME NEW p \in Player, ResultStep(p) PROVE Turns' /\ Opened' /\ Up' /\ Shown'
  BY <1>3, TurnResultLogin, TurnResultPlayerLoad, TurnResultItemLoad, TurnResultSafebox,
     TurnResultSafeboxItem, TurnCancelSafeboxLoad DEF ResultStep
<1>4. ASSUME NEW p \in Player, UpdatePlayerCache(p) \/ UpdateLogoutPlayer(p)
      PROVE  Turns' /\ Opened' /\ Up' /\ Shown'
  BY <1>4, TurnFlush
<1>5. ASSUME NEW i \in Item, DestroyItem(i) \/ UpdateItemCache(i) \/ ExecuteAsync(i)
      PROVE  Turns' /\ Opened' /\ Up' /\ Shown'
  BY <1>5, TurnDestroy, TurnFlush, TurnServer
<1>6. CASE Execute \/ DropResult \/ CoreCrash \/ DbEnd \/ DbRestart
  BY <1>6, TurnServer, TurnCrash
<1>7. CASE UNCHANGED vars
  <2>1. UNCHANGED <<db, phase, box, view, sql, results>>
    BY <1>7 DEF vars
  <2>2. \A o \in Player : Fewer(o)
    BY <2>1, SameFewer
  <2> QED BY <2>1, <2>2, TurnParts, TurnsKept, OpenedKept, UpKept, ShownKept
<1> QED BY <1>2, <1>3, <1>4, <1>5, <1>6, <1>7 DEF Next

-----------------------------------------------------------------------------
(* What SELECTs that are under way will bring, and what is written by then. *)

\* A load of items, or of a safebox that its client waits for.
Awaited(q) == q.op = "ITEM" \/ (q.op = "BOXITEM" /\ q.live)

Belongs(row, p, window) == row # NoRow /\ row.owner = p /\ row.window = window

\* Two rows of an item that are the same to the query.
Alike(q, row, other) ==
    LET window == IF q.op = "ITEM" THEN "INVENTORY" ELSE "SAFEBOX"
    IN  Belongs(row, q.pid, window) \/ Belongs(other, q.pid, window) => row = other

RowIn(rows, i) == IF i \in DOMAIN rows THEN rows[i] ELSE NoRow

CurrentSql ==
    \A n \in 1 .. Len(sql), i \in Item :
        Awaited(sql[n]) => Alike(sql[n], Executed(table, sql)[n][i], Written(i))
CurrentResults ==
    \A n \in 1 .. Len(results), i \in Item :
        Awaited(results[n]) => Alike(results[n], RowIn(results[n].rows, i), Written(i))

\* Rows that no load under way is about.
Aside(row) ==
    \A p \in Player :
        /\ UnderWay(Loads(p)) => ~Belongs(row, p, "INVENTORY")
        /\ UnderWay(Boxes(p)) => ~Belongs(row, p, "SAFEBOX")

LEMMA AwaitedUnderWay ==
    ASSUME IInv, NEW q, Awaited(q),
           \/ \E n \in 1 .. Len(sql) : q = sql[n]
           \/ \E n \in 1 .. Len(results) : q = results[n]
    PROVE  /\ q.pid \in Player
           /\ q.op = "ITEM" => UnderWay(Loads(q.pid))
           /\ q.op # "ITEM" => UnderWay(Boxes(q.pid))
<1>1. q \in Query \/ q \in Result
  BY QueueFacts
<1>2. q.op \in SelectOp
  BY DEF Awaited, SelectOp
<1>3. /\ q.pid \in Player
      /\ Asks(q) = <<q.op, q.pid, TRUE>> \/ Asks(q) = <<q.op, q.pid, FALSE>>
  BY <1>1, <1>2, Silenced
<1>4. ASSUME NEW P, Asks(q) \in P PROVE UnderWay(P)
  BY <1>2, <1>4 DEF UnderWay, InSql, InResults
<1>5. CASE q.op = "ITEM"
  <2>1. Asks(q) \in Loads(q.pid)
    BY <1>3, <1>5 DEF Loads
  <2> QED BY <1>3, <1>4, <1>5, <2>1
<1>6. CASE q.op # "ITEM"
  <2>1. q.op = "BOXITEM" /\ q.live
    BY <1>6 DEF Awaited
  <2>2. Asks(q) = <<"BOXITEM", q.pid, TRUE>>
    BY <1>3, <2>1 DEF Asks
  <2>3. Asks(q) \in Boxes(q.pid)
    BY <2>2 DEF Boxes
  <2> QED BY <1>3, <1>4, <1>6, <2>3
<1> QED BY <1>5, <1>6

\* Results that wait after a step waited before it.
LessResults ==
    \A n \in 1 .. Len(results') : Awaited(results'[n]) =>
        \E m \in 1 .. Len(results) :
            /\ Awaited(results[m]) /\ results[m].op = results'[n].op
            /\ results[m].pid = results'[n].pid /\ results[m].rows = results'[n].rows

LEMMA CurrentResultsKept ==
    ASSUME IInv, CurrentResults, LessResults,
           \A i \in Item : Written(i)' = Written(i) \/ (Aside(Written(i)) /\ Aside(Written(i)'))
    PROVE  CurrentResults'
<1> SUFFICES ASSUME NEW n \in 1 .. Len(results'), NEW i \in Item, Awaited(results'[n])
             PROVE  Alike(results'[n], RowIn(results'[n].rows, i), Written(i)')
  BY DEF CurrentResults, Awaited, Alike, RowIn, Belongs
<1>1. PICK m \in 1 .. Len(results) :
          /\ Awaited(results[m]) /\ results[m].op = results'[n].op
          /\ results[m].pid = results'[n].pid /\ results[m].rows = results'[n].rows
  BY DEF LessResults
<1>2. Alike(results[m], RowIn(results[m].rows, i), Written(i))
  BY <1>1 DEF CurrentResults
<1> DEFINE new == Written(i)'
           old == Written(i)
<1>3. new = old \/ (Aside(old) /\ Aside(new))
  OBVIOUS
<1> HIDE DEF new, old
<1>4. Alike(results[m], RowIn(results[m].rows, i), new)
  <2>1. CASE new = old
    BY <1>2, <2>1 DEF old
  <2>2. CASE Aside(old) /\ Aside(new)
    <3>1. Alike(results[m], RowIn(results[m].rows, i), old)
      BY <1>2 DEF old
    <3>2. /\ results[m].pid \in Player
          /\ results[m].op = "ITEM" => UnderWay(Loads(results[m].pid))
          /\ results[m].op # "ITEM" => UnderWay(Boxes(results[m].pid))
      BY <1>1, AwaitedUnderWay
    <3> QED BY <2>2, <3>1, <3>2 DEF Alike, Aside
  <2> QED BY <1>3, <2>1, <2>2
<1> QED BY <1>1, <1>4 DEF Alike, new

\* Queries are sent: what they change comes after what is under way.
LEMMA WrittenSent ==
    ASSUME IInv, NEW more \in Seq(Query), Send(more), table' = table
    PROVE  /\ \A n \in 0 .. Len(sql) : Executed(table', sql')[n] = Executed(table, sql)[n]
           /\ \A i \in Item : Written(i)' =
                  Executed(Executed(table, sql)[Len(sql)], more)[Len(more)][i]
           /\ Executed(table, sql)[Len(sql)] \in Table
<1>1. sql \in Seq(Query) /\ table \in Table /\ Len(sql) \in Nat
  BY TypeParts, QueueFacts
<1>2. sql' = sql \o more /\ Len(more) \in Nat
  BY DEF Send
<1>3. /\ Len(sql \o more) = Len(sql) + Len(more)
      /\ \A n \in 0 .. Len(sql) : Executed(table, sql \o more)[n] = Executed(table, sql)[n]
      /\ \A n \in 0 .. Len(more) : Executed(table, sql \o more)[Len(sql) + n]
             = Executed(Executed(table, sql)[Len(sql)], more)[n]
  BY <1>1, ExecutedSent
<1>4. Len(more) \in 0 .. Len(more) /\ Len(sql) \in 0 .. Len(sql)
  BY <1>1, <1>2
<1>5. Executed(table, sql)[Len(sql)] \in Table
  BY <1>1, <1>4, ExecutedType
<1>6. \A i \in Item : Written(i)' =
          Executed(Executed(table, sql)[Len(sql)], more)[Len(more)][i]
  BY <1>2, <1>3, <1>4 DEF Written
<1> QED BY <1>2, <1>3, <1>5, <1>6

LEMMA WrittenType ==
    ASSUME IInv, NEW i \in Item
    PROVE  Written(i) \in Row \cup {NoRow}
<1>1. sql \in Seq(Query) /\ table \in Table /\ Len(sql) \in 0 .. Len(sql)
  BY TypeParts, QueueFacts
<1>2. Executed(table, sql)[Len(sql)] \in Table
  BY <1>1, ExecutedType
<1> QED BY <1>2 DEF Written, Table

\* One write, or none.
LEMMA WrittenOne ==
    ASSUME IInv, NEW q \in Query, Send(<<q>>), table' = table, NEW i \in Item
    PROVE  Written(i)' = IF Touches(q, i) THEN RowOf(q) ELSE Written(i)
<1> DEFINE more == <<q>>
           now == Executed(table, sql)[Len(sql)]
<1>1. more \in Seq(Query) /\ Len(more) = 1 /\ more[1] = q /\ Send(more)
  OBVIOUS
<1> HIDE DEF more
<1>2. 1 \in 1 .. Len(more) /\ \A n \in 1 .. Len(more) : n = 1
  BY <1>1
<1>3. now \in Table /\ Written(i)' = Executed(now, more)[Len(more)][i] /\ Written(i) = now[i]
  BY <1>1, WrittenSent DEF Written
<1> HIDE DEF now
<1>4. CASE Touches(q, i)
  BY <1>1, <1>2, <1>3, <1>4, ExecutedTouched
<1>5. CASE ~Touches(q, i)
  <2>1. \A n \in 1 .. Len(more) : ~Touches(more[n], i)
    BY <1>1, <1>2, <1>5
  <2>2. Executed(now, more)[Len(more)][i] = now[i]
    BY <1>1, <1>3, <2>1, ExecutedUntouched
  <2> QED BY <1>3, <1>5, <2>2
<1> QED BY <1>4, <1>5

LEMMA WrittenSame ==
    ASSUME IInv, sql' = sql \/ Send(<<>>), table' = table
    PROVE  \A i \in Item : Written(i)' = Written(i)
<1>1. sql' = sql
  BY QueueFacts DEF Send
<1> QED BY <1>1 DEF Written

\* A flush of some items.
LEMMA WrittenFlushed ==
    ASSUME IInv, NEW items \in SUBSET Item, NEW queries \in FlushQueries(items),
           Send(queries), table' = table, NEW i \in Item
    PROVE  Written(i)' = IF i \in items /\ NeedQuery(i) THEN EntryRow(cache[i]) ELSE Written(i)
<1> DEFINE now == Executed(table, sql)[Len(sql)]
<1>1. cache \in Caches /\ table \in Table
  BY TypeParts
<1>2. queries \in Seq(Query)
  BY <1>1, FlushWrites
<1>3. now \in Table /\ Written(i)' = Executed(now, queries)[Len(queries)][i] /\ Written(i) = now[i]
  BY <1>2, WrittenSent DEF Written
<1> HIDE DEF now
<1> QED BY <1>1, <1>3, FlushWrites

\* Queries that ask change nothing.
LEMMA ExecutedAsks ==
    ASSUME NEW tbl, NEW queue \in Seq(Query), \A n \in 1 .. Len(queue) : queue[n].op \in SelectOp
    PROVE  \A n \in 0 .. Len(queue) : Executed(tbl, queue)[n] = tbl
<1> DEFINE f == [n \in 0 .. Len(queue) |-> tbl]
<1>1. Len(queue) \in Nat
  OBVIOUS
<1>2. f[0] = tbl
  BY <1>1
<1>3. \A n \in 1 .. Len(queue) : f[n] = Apply(f[n - 1], queue[n])
  <2>1. ASSUME NEW n \in 1 .. Len(queue) PROVE f[n] = Apply(f[n - 1], queue[n])
    <3>1. n \in 0 .. Len(queue) /\ n - 1 \in 0 .. Len(queue)
      BY <1>1
    <3>2. f[n] = tbl /\ f[n - 1] = tbl
      BY <3>1
    <3>3. queue[n].op # "REPLACE" /\ queue[n].op # "DELETE"
      BY DEF SelectOp
    <3> HIDE DEF f
    <3> QED BY <3>2, <3>3 DEF Apply
  <2> QED BY <2>1
<1> HIDE DEF f
<1>4. \A n \in 0 .. Len(queue) : f[n] = Executed(tbl, queue)[n]
  BY <1>2, <1>3, ExecutedUnique
<1> QED BY <1>4 DEF f

LEMMA AsksWrite ==
    ASSUME IInv, NEW more \in Seq(Query), Send(more), table' = table,
           \A n \in 1 .. Len(more) : more[n].op \in SelectOp
    PROVE  /\ \A i \in Item : Written(i)' = Written(i)
           /\ CurrentSql => CurrentSql'
<1> DEFINE now == Executed(table, sql)[Len(sql)]
<1>1. /\ Len(sql') = Len(sql) + Len(more) /\ Len(sql) \in Nat /\ Len(more) \in Nat
      /\ \A n \in 1 .. Len(sql) : sql'[n] = sql[n]
  BY QueueFacts DEF Send
<1>2. /\ now \in Table
      /\ \A i \in Item : Written(i)' = Executed(now, more)[Len(more)][i] /\ Written(i) = now[i]
      /\ \A n \in 0 .. Len(sql) : Executed(table', sql')[n] = Executed(table, sql)[n]
  BY WrittenSent DEF Written
<1>3. \A n \in 0 .. Len(more) : Executed(now, more)[n] = now
  BY ExecutedAsks
<1>4. \A n \in 0 .. Len(more) : Executed(table', sql')[Len(sql) + n] = now
  <2>1. \A n \in 0 .. Len(more) :
            Executed(table, sql \o more)[Len(sql) + n] = Executed(now, more)[n]
    BY QueueFacts, ExecutedSent
  <2> QED BY <1>3, <2>1 DEF Send
<1>5. \A i \in Item : Written(i)' = Written(i)
  BY <1>1, <1>2, <1>3
<1>6. ASSUME CurrentSql, NEW n \in 1 .. Len(sql'), NEW i \in Item, Awaited(sql'[n])
      PROVE  Alike(sql'[n], Executed(table', sql')[n][i], Written(i))
  <2>1. CASE n \in 1 .. Len(sql)
    <3>1. Executed(table', sql')[n] = Executed(table, sql)[n] /\ sql'[n] = sql[n]
      BY <1>1, <1>2, <2>1
    <3> QED BY <1>6, <2>1, <3>1 DEF CurrentSql
  <2>2. CASE n \notin 1 .. Len(sql)
    <3>1. n - Len(sql) \in 0 .. Len(more) /\ Len(sql) + (n - Len(sql)) = n
      BY <1>1, <2>2
    <3>2. Executed(table', sql')[n] = now
      BY <1>4, <3>1
    <3> QED BY <1>2, <3>2 DEF Alike
  <2> QED BY <2>1, <2>2
<1>7. CurrentSql => CurrentSql'
  <2>1. SUFFICES ASSUME CurrentSql, NEW n \in 1 .. Len(sql'), NEW i \in Item, Awaited(sql'[n])
                 PROVE  Alike(sql'[n], Executed(table', sql')[n][i], Written(i)')
    BY DEF CurrentSql, Awaited, Alike, Belongs
  <2>2. Alike(sql'[n], Executed(table', sql')[n][i], Written(i))
    BY <1>6, <2>1
  <2> QED BY <1>5, <2>2 DEF Alike
<1> QED BY <1>5, <1>7

\* Rows are written that no load under way is about.
LEMMA CurrentSqlSent ==
    ASSUME IInv, CurrentSql, NEW more \in Seq(Query), Send(more), table' = table,
           \A n \in 1 .. Len(more) : more[n].op \notin SelectOp,
           \A i \in Item : Written(i)' = Written(i) \/ (Aside(Written(i)) /\ Aside(Written(i)'))
    PROVE  CurrentSql'
<1> SUFFICES ASSUME NEW n \in 1 .. Len(sql'), NEW i \in Item, Awaited(sql'[n])
             PROVE  Alike(sql'[n], Executed(table', sql')[n][i], Written(i)')
  BY DEF CurrentSql, Awaited, Alike, Belongs
<1>1. /\ Len(sql') = Len(sql) + Len(more) /\ Len(sql) \in Nat /\ Len(more) \in Nat
      /\ \A m \in 1 .. Len(sql) : sql'[m] = sql[m]
      /\ \A m \in 1 .. Len(more) : sql'[Len(sql) + m] = more[m]
  BY QueueFacts DEF Send
<1>2. n \in 1 .. Len(sql)
  <2>1. SUFFICES ASSUME n \notin 1 .. Len(sql) PROVE FALSE
    OBVIOUS
  <2>2. n - Len(sql) \in 1 .. Len(more) /\ Len(sql) + (n - Len(sql)) = n
    BY <1>1, <2>1
  <2>3. sql'[n] = more[n - Len(sql)]
    BY <1>1, <2>2
  <2> QED BY <2>2, <2>3 DEF Awaited, SelectOp
<1>3. Executed(table', sql')[n] = Executed(table, sql)[n] /\ sql'[n] = sql[n]
  BY <1>1, <1>2, WrittenSent
<1>4. Awaited(sql[n]) /\ Alike(sql[n], Executed(table, sql)[n][i], Written(i))
  BY <1>2, <1>3 DEF CurrentSql
<1> DEFINE new == Written(i)'
           row == Executed(table, sql)[n][i]
<1>5. new = Written(i) \/ (Aside(Written(i)) /\ Aside(new))
  OBVIOUS
<1> HIDE DEF new, row
<1>6. Alike(sql[n], row, new)
  <2>1. CASE new = Written(i)
    BY <1>4, <2>1 DEF row
  <2>2. CASE Aside(Written(i)) /\ Aside(new)
    <3>1. /\ sql[n].pid \in Player
          /\ sql[n].op = "ITEM" => UnderWay(Loads(sql[n].pid))
          /\ sql[n].op # "ITEM" => UnderWay(Boxes(sql[n].pid))
      BY <1>2, <1>4, AwaitedUnderWay
    <3> QED BY <1>4, <2>2, <3>1 DEF Alike, Aside, row
  <2> QED BY <1>5, <2>1, <2>2
<1> QED BY <1>3, <1>6 DEF new, row

\* A query is executed.
LEMMA CurrentExecuted ==
    ASSUME IInv, Execute
    PROVE  /\ \A i \in Item : Written(i)' = Written(i)
           /\ CurrentSql => CurrentSql'
           /\ CurrentSql /\ CurrentResults => CurrentResults'
<1> DEFINE q == Head(sql)
           r == [op |-> q.op, pid |-> q.pid, live |-> q.live, rows |-> ResultRows(q)]
<1>1. /\ sql # <<>> /\ sql' = Tail(sql) /\ table' = Apply(table, q)
      /\ results' = IF q.op \in SelectOp THEN Append(results, r) ELSE results
  BY DEF Execute
<1>2. /\ Len(sql') = Len(sql) - 1 /\ Len(sql) \in Nat /\ Len(sql) # 0
      /\ \A n \in 1 .. Len(sql') : sql'[n] = sql[n + 1]
      /\ q = sql[1] /\ q \in Query
  BY <1>1, QueueFacts
<1>3. \A n \in 0 .. Len(sql) - 1 : Executed(table', sql')[n] = Executed(table, sql)[n + 1]
  BY <1>1, QueueFacts, ExecutedHead
<1>4. \A i \in Item : Written(i)' = Written(i)
  <2>1. Len(sql') \in 0 .. Len(sql) - 1 /\ Len(sql') + 1 = Len(sql)
    BY <1>2
  <2>2. Executed(table', sql')[Len(sql')] = Executed(table, sql)[Len(sql)]
    BY <1>3, <2>1
  <2> QED BY <2>2 DEF Written
<1>5. CurrentSql => CurrentSql'
  <2>1. SUFFICES ASSUME CurrentSql, NEW n \in 1 .. Len(sql'), NEW i \in Item, Awaited(sql'[n])
                 PROVE  Alike(sql'[n], Executed(table', sql')[n][i], Written(i)')
    BY DEF CurrentSql, Awaited, Alike, Belongs
  <2>2. n \in 0 .. Len(sql) - 1 /\ n + 1 \in 1 .. Len(sql)
    BY <1>2
  <2>3. sql'[n] = sql[n + 1] /\ Executed(table', sql')[n] = Executed(table, sql)[n + 1]
    BY <1>2, <1>3, <2>2
  <2>4. Alike(sql[n + 1], Executed(table, sql)[n + 1][i], Written(i))
    BY <2>1, <2>2, <2>3 DEF CurrentSql
  <2> QED BY <1>4, <2>3, <2>4 DEF Alike
<1>6. ASSUME CurrentSql, CurrentResults PROVE CurrentResults'
  <2>1. CASE q.op \notin SelectOp
    <3>1. results' = results
      BY <1>1, <2>1
    <3>2. LessResults
      BY <3>1 DEF LessResults
    <3> QED BY <1>4, <1>6, <3>2, CurrentResultsKept
  <2>2. CASE q.op \in SelectOp
    <3>1. /\ r.op = q.op /\ r.pid = q.pid /\ r.live = q.live /\ r.rows = ResultRows(q)
          /\ results' = Append(results, r)
      BY <1>1, <2>2
    <3> HIDE DEF r
    <3>2. /\ Len(results') = Len(results) + 1 /\ Len(results) \in Nat
          /\ \A n \in 1 .. Len(results) : results'[n] = results[n]
          /\ results'[Len(results) + 1] = r
      BY <3>1, QueueFacts
    <3>3. SUFFICES ASSUME NEW n \in 1 .. Len(results'), NEW i \in Item, Awaited(results'[n])
                   PROVE  Alike(results'[n], RowIn(results'[n].rows, i), Written(i))
      BY <1>4 DEF CurrentResults, Awaited, Alike, RowIn, Belongs
    <3>4. CASE n \in 1 .. Len(results)
      BY <1>6, <3>2, <3>3, <3>4 DEF CurrentResults
    <3>5. CASE n \notin 1 .. Len(results)
      <4>1. results'[n] = r
        <5>1. n = Len(results) + 1
          BY <3>2, <3>5
        <5> QED BY <3>2, <5>1
      <4>2. Awaited(q)
        BY <3>1, <3>3, <4>1 DEF Awaited
      <4>3. Executed(table, sql)[1] = table
        <5>1. 1 \in 1 .. Len(sql) /\ 1 - 1 = 0
          BY <1>2
        <5>2. Executed(table, sql)[1] = Apply(Executed(table, sql)[0], sql[1])
                 /\ Executed(table, sql)[0] = table
          BY <5>1, QueueFacts, ExecutedSteps
        <5> QED BY <1>2, <2>2, <5>2 DEF Apply, SelectOp
      <4>4. Alike(q, table[i], Written(i))
        BY <1>2, <1>6, <4>2, <4>3 DEF CurrentSql
      <4>5. RowIn(ResultRows(q), i) =
                IF Belongs(table[i], q.pid, IF q.op = "ITEM" THEN "INVENTORY" ELSE "SAFEBOX")
                THEN table[i] ELSE NoRow
        BY <4>2 DEF Awaited, ResultRows, RowsOf, RowIn, Belongs
      <4> QED BY <3>1, <4>1, <4>4, <4>5 DEF Alike, Belongs
    <3> QED BY <3>4, <3>5
  <2> QED BY <2>1, <2>2
<1> QED BY <1>4, <1>5, <1>6

\* Clients are gone.
LEMMA CurrentSqlGone ==
    ASSUME IInv, NEW p \in Player, sql' = Voided(sql) \/ sql' = Unhandled(sql, p), table' = table
    PROVE  /\ \A i \in Item : Written(i)' = Written(i)
           /\ CurrentSql => CurrentSql'
<1>1. /\ sql \in Seq(Query) /\ Len(sql) \in Nat /\ DOMAIN sql = 1 .. Len(sql)
      /\ \A n \in 1 .. Len(sql) : sql[n] \in Query
  BY QueueFacts
<1>2. sql' \in Seq(Query) /\ Len(sql') = Len(sql)
  <2>1. sql' \in Seq(Query)
    BY <1>1, VoidedType, UnhandledType
  <2>2. Weaker(Voided(sql), sql) /\ Weaker(Unhandled(sql, p), sql)
    BY <1>1, VoidedWeaker, UnhandledWeaker
  <2>3. Weaker(sql', sql)
    BY <2>2
  <2> QED BY <2>1, <2>3 DEF Weaker
<1>3. ASSUME NEW n \in 1 .. Len(sql)
      PROVE  \/ sql'[n] = sql[n]
             \/ /\ sql[n].op \in SelectOp /\ sql'[n].op \in SelectOp \cup {"VOID"}
                /\ Awaited(sql'[n]) =>
                       Awaited(sql[n]) /\ sql'[n].op = sql[n].op /\ sql'[n].pid = sql[n].pid
  <2>1. CASE sql' = Voided(sql)
    <3>1. sql'[n] = IF sql[n].op \in SelectOp THEN Void ELSE sql[n]
      BY <1>1, <2>1 DEF Voided
    <3>2. Void.op = "VOID" /\ ~Awaited(Void)
      BY DEF Void, Awaited
    <3> QED BY <3>1, <3>2
  <2>2. CASE sql' = Unhandled(sql, p)
    <3>1. sql'[n] = IF sql[n].op \in SelectOp /\ sql[n].pid = p
                    THEN [sql[n] EXCEPT !.live = FALSE] ELSE sql[n]
      BY <1>1, <2>2 DEF Unhandled
    <3>2. CASE sql[n].op \in SelectOp /\ sql[n].pid = p
      <4> DEFINE q == sql[n]
                 r == [q EXCEPT !.live = FALSE]
      <4>1. q \in Query /\ q.op \in SelectOp
        BY <1>1, <3>2
      <4> HIDE DEF q
      <4>2. r.op = q.op /\ r.pid = q.pid /\ r.live = FALSE
        BY <4>1, Silenced
      <4> HIDE DEF r
      <4>3. Awaited(r) => Awaited(q)
        BY <4>2 DEF Awaited
      <4>4. sql'[n] = r
        BY <3>1, <3>2 DEF q, r
      <4> QED BY <3>2, <4>2, <4>3, <4>4 DEF q
    <3> QED BY <3>1, <3>2
  <2> QED BY <2>1, <2>2
<1>4. \A n \in 0 .. Len(sql) : Executed(table, sql')[n] = Executed(table, sql)[n]
  <2>1. \A n \in 1 .. Len(sql) : sql'[n] = sql[n]
            \/ ~(sql[n].op \in {"REPLACE", "DELETE"} \/ sql'[n].op \in {"REPLACE", "DELETE"})
    BY <1>3 DEF SelectOp
  <2> DEFINE other == sql'
  <2>2. /\ other \in Seq(Query) /\ Len(other) = Len(sql)
        /\ \A n \in 1 .. Len(sql) : other[n] = sql[n]
            \/ ~(sql[n].op \in {"REPLACE", "DELETE"} \/ other[n].op \in {"REPLACE", "DELETE"})
    BY <1>2, <2>1
  <2> HIDE DEF other
  <2>3. \A n \in 0 .. Len(sql) : Executed(table, other)[n] = Executed(table, sql)[n]
    BY <1>1, <2>2, ExecutedSame
  <2> QED BY <2>3 DEF other
<1>5. \A i \in Item : Written(i)' = Written(i)
  BY <1>1, <1>2, <1>4 DEF Written
<1>6. CurrentSql => CurrentSql'
  <2>1. SUFFICES ASSUME CurrentSql, NEW n \in 1 .. Len(sql'), NEW i \in Item, Awaited(sql'[n])
                 PROVE  Alike(sql'[n], Executed(table', sql')[n][i], Written(i)')
    BY DEF CurrentSql, Awaited, Alike, Belongs
  <2>2. n \in 1 .. Len(sql) /\ n \in 0 .. Len(sql)
    BY <1>1, <1>2
  <2>3. Awaited(sql[n]) /\ sql'[n].op = sql[n].op /\ sql'[n].pid = sql[n].pid
    BY <1>3, <2>1, <2>2
  <2>4. Alike(sql[n], Executed(table, sql)[n][i], Written(i))
    BY <2>1, <2>2, <2>3 DEF CurrentSql
  <2> QED BY <1>4, <1>5, <2>2, <2>3, <2>4 DEF Alike
<1> QED BY <1>5, <1>6

LEMMA ResultsLess ==
    ASSUME IInv,
           \/ results' = results \/ results' = <<>>
           \/ results # <<>> /\ results' = Tail(results)
           \/ results' = Voided(results) \/ \E p \in Player : results' = Unhandled(results, p)
    PROVE  LessResults
<1>1. /\ results \in Seq(Result) /\ Len(results) \in Nat /\ DOMAIN results = 1 .. Len(results)
      /\ \A n \in 1 .. Len(results) : results[n] \in Result
  BY QueueFacts
<1>2. CASE results' = results \/ results' = <<>>
  BY <1>2 DEF LessResults
<1>3. CASE results # <<>> /\ results' = Tail(results)
  <2>1. /\ Len(results') = Len(results) - 1
        /\ \A n \in 1 .. Len(results') : results'[n] = results[n + 1]
    BY <1>3, QueueFacts
  <2>2. \A n \in 1 .. Len(results') : n + 1 \in 1 .. Len(results)
    BY <1>1, <2>1
  <2> QED BY <2>1, <2>2 DEF LessResults
<1>4. CASE results' = Voided(results)
  <2>1. /\ \A n \in 1 .. Len(results) : results'[n].op \notin SelectOp
        /\ Len(results') = Len(results)
    BY <1>1, <1>4, VoidedWeaker DEF Weaker
  <2>2. \A n \in 1 .. Len(results') : ~Awaited(results'[n])
    BY <2>1 DEF Awaited, SelectOp
  <2> QED BY <2>2 DEF LessResults
<1>5. ASSUME NEW p \in Player, results' = Unhandled(results, p) PROVE LessResults
  <2>1. Len(results') = Len(results)
    BY <1>1, <1>5, UnhandledWeaker DEF Weaker
  <2>2. SUFFICES ASSUME NEW n \in 1 .. Len(results), Awaited(results'[n])
                 PROVE  /\ Awaited(results[n]) /\ results[n].op = results'[n].op
                        /\ results[n].pid = results'[n].pid
                        /\ results[n].rows = results'[n].rows
    BY <2>1 DEF LessResults
  <2>3. results'[n] = IF results[n].op \in SelectOp /\ results[n].pid = p
                      THEN [results[n] EXCEPT !.live = FALSE] ELSE results[n]
    BY <1>1, <1>5 DEF Unhandled
  <2>4. CASE results[n].op \in SelectOp /\ results[n].pid = p
    <3> DEFINE q == results[n]
               r == [q EXCEPT !.live = FALSE]
    <3>1. q \in Result /\ q.op \in SelectOp
      BY <1>1, <2>4
    <3>2. results'[n] = r
      BY <2>3, <2>4
    <3> HIDE DEF q
    <3>3. r.op = q.op /\ r.pid = q.pid /\ r.live = FALSE /\ r.rows = q.rows
      BY <3>1, Silenced
    <3> HIDE DEF r
    <3>4. Awaited(r) => Awaited(q)
      BY <3>3 DEF Awaited
    <3> QED BY <2>2, <3>2, <3>3, <3>4 DEF q
  <2>5. CASE ~(results[n].op \in SelectOp /\ results[n].pid = p)
    BY <2>2, <2>3, <2>5
  <2> QED BY <2>4, <2>5
<1> QED BY <1>2, <1>3, <1>4, <1>5

-----------------------------------------------------------------------------
(* What is stored is what the cache and the queries under way make of it.  *)

\* An entry that needs no query is written; one that is deleted needs none; and
\* an item with an entry is in no safebox.
Resolved ==
    \A i \in Item : Cached(i) =>
        /\ NeedQuery(i) => ~cache[i].deleted
        /\ ~NeedQuery(i) => Written(i) = EntryRow(cache[i])
        /\ Written(i) # NoRow => Written(i).window = "INVENTORY"

\* A player whose items are asked from SQL, or will be.
Asking(p) ==
    \/ UnderWay(Loads(p))
    \/ p \notin playerCache /\ phase[p] \notin {"spawned", "game"}
    \/ ~HasSet(set, p)

\* No entry that is still to be written is p's, or of an item that is p's in SQL.
Settled(p) ==
    \A i \in Item : NeedQuery(i) =>
        cache[i].row.owner # p /\ (Written(i) # NoRow => Written(i).owner # p)

Settling == \A p \in Player : Asking(p) => Settled(p)

\* The set of a player leaves out no item of the player.
Covering ==
    \A p \in Player, i \in Item :
        HasSet(set, p) /\ ~Cached(i) => ~Belongs(Written(i), p, "INVENTORY")

\* The game and the store agree on every item that is in the game.
InStep ==
    \A i \in Item :
        \/ view[i] = Offline
        \/ view[i] = Loose /\ Stored(i) = NoRow
        \/ view[i] \in Row /\ Stored(i) = view[i]

Sound == Resolved /\ Settling /\ Covering /\ InStep /\ CurrentSql /\ CurrentResults

StoreInv == TurnInv /\ async = {} /\ Sound

LEMMA StoreParts ==
    StoreInv => /\ TurnInv /\ SetInv /\ IInv /\ async = {}
                /\ Resolved /\ Settling /\ Covering /\ InStep /\ CurrentSql /\ CurrentResults
                /\ Turns /\ Opened /\ Up /\ Shown /\ Whole(set, cache) /\ Present /\ Brings
BY TurnParts, SetParts DEF StoreInv, Sound

LEMMA StoreTypes ==
    ASSUME StoreInv
    PROVE  /\ phase \in [Player -> Phase] /\ view \in View /\ cache \in Caches /\ set \in Sets
           /\ table \in Table /\ sql \in Seq(Query)
           /\ \A i \in Item : cache[i] = NoEntry \/ cache[i] \in Entry
           /\ \A i \in Item : Cached(i) =>
                  /\ cache[i] \in Entry /\ cache[i].row \in Row /\ cache[i].row.owner \in Player
                  /\ cache[i].deleted \in BOOLEAN /\ cache[i].m_bNeedQuery \in BOOLEAN
           /\ \A i \in Item : Written(i) \in Row \cup {NoRow} /\ Stored(i) \in Row \cup {NoRow}
           /\ \A row \in Row : row # NoRow /\ row # Loose /\ row # Offline /\ row.owner \in Player
                                  /\ row.window \in {"INVENTORY", "SAFEBOX"}
<1>1. IInv
  BY StoreParts
<1>2. /\ phase \in [Player -> Phase] /\ view \in View /\ cache \in Caches /\ set \in Sets
      /\ table \in Table /\ sql \in Seq(Query)
  BY <1>1, TypeParts
<1>3. \A i \in Item : cache[i] = NoEntry \/ cache[i] \in Entry
  BY <1>2 DEF Caches
<1>4. \A e \in Entry : /\ e.row \in Row /\ e.row.owner \in Player
                       /\ e.deleted \in BOOLEAN /\ e.m_bNeedQuery \in BOOLEAN
  BY RowType DEF Entry
<1>5. \A i \in Item : Written(i) \in Row \cup {NoRow}
  BY <1>1, WrittenType
<1>6. \A i \in Item : Stored(i) \in Row \cup {NoRow}
  BY <1>3, <1>4, <1>5 DEF Stored, Cached
<1>7. \A row \in Row : row # NoRow /\ row # Loose /\ row # Offline /\ row.owner \in Player
                          /\ row.window \in {"INVENTORY", "SAFEBOX"}
  BY MarkAssumption DEF Row
<1> QED BY <1>2, <1>3, <1>4, <1>5, <1>6, <1>7 DEF Cached

\* What is stored of an item with an entry, and of one without.
LEMMA StoredCases ==
    ASSUME NEW i
    PROVE  /\ Cached(i) => Stored(i) = EntryRow(cache[i])
           /\ ~Cached(i) => Stored(i) = Written(i)
BY DEF Stored, EntryRow

\* A step that changes neither entries nor what will be written.
LEMMA QuietStep ==
    ASSUME StoreInv, UNCHANGED cacheVars, \A i \in Item : Written(i)' = Written(i),
           CurrentSql', CurrentResults', \A p \in Player : Asking(p)' => Settled(p),
           \A i \in Item : view'[i] \in {view[i], Offline}
                              \/ (view'[i] \in Row /\ view'[i] = Stored(i))
    PROVE  Sound' /\ \A i \in Item : Stored(i)' = Stored(i)
<1>1. cache' = cache /\ set' = set
  BY DEF cacheVars
<1>2. \A i \in Item : Stored(i)' = Stored(i)
  BY <1>1 DEF Stored, Cached
<1>3. Resolved'
  BY <1>1, StoreParts DEF Resolved, Cached, NeedQuery
<1>4. \A p \in Player : Settled(p) => Settled(p)'
  BY <1>1 DEF Settled, NeedQuery, Cached
<1>5. Settling'
  BY <1>4 DEF Settling
<1>6. Covering'
  BY <1>1, StoreParts DEF Covering, Cached, HasSet, Belongs
<1>7. InStep'
  BY <1>2, StoreParts DEF InStep
<1> QED BY <1>2, <1>3, <1>5, <1>6, <1>7 DEF Sound

\* An entry that is to be written is of an item that no load under way is about.
LEMMA FlushAside ==
    ASSUME StoreInv, NEW i \in Item, NeedQuery(i)
    PROVE  Aside(Written(i)) /\ Aside(EntryRow(cache[i])) /\ EntryRow(cache[i]) = cache[i].row
<1>1. Cached(i) /\ ~cache[i].deleted /\ cache[i].row.window = "INVENTORY"
         /\ (Written(i) # NoRow => Written(i).window = "INVENTORY")
  BY StoreParts DEF NeedQuery, Resolved, Whole, Cached
<1>2. EntryRow(cache[i]) = cache[i].row
  BY <1>1 DEF EntryRow
<1>3. ASSUME NEW p \in Player, UnderWay(Loads(p))
      PROVE  cache[i].row.owner # p /\ (Written(i) # NoRow => Written(i).owner # p)
  BY <1>3, StoreParts DEF Settling, Asking, Settled
<1> QED BY <1>1, <1>2, <1>3 DEF Aside, Belongs

\* Some entries are written.
LEMMA CurrentFlushed ==
    ASSUME StoreInv, NEW items \in SUBSET Item,
           NEW more \in Seq(Query), Send(more), table' = table, LessResults,
           \A n \in 1 .. Len(more) : more[n].op \notin SelectOp,
           \A i \in Item : Written(i)' = IF i \in items /\ NeedQuery(i)
                                         THEN EntryRow(cache[i]) ELSE Written(i)
    PROVE  CurrentSql' /\ CurrentResults'
<1>1. \A i \in Item : Written(i)' = Written(i) \/ (Aside(Written(i)) /\ Aside(Written(i)'))
  <2>1. ASSUME NEW i \in Item, i \in items, NeedQuery(i)
        PROVE  Aside(Written(i)) /\ Aside(Written(i)')
    <3>1. Written(i)' = EntryRow(cache[i]) /\ Aside(Written(i)) /\ Aside(EntryRow(cache[i]))
      BY <2>1, FlushAside
    <3> QED BY <3>1
  <2> QED BY <2>1
<1> QED BY <1>1, StoreParts, CurrentSqlSent, CurrentResultsKept

\* Questions are asked.
LEMMA AskStep ==
    ASSUME StoreInv, NEW more \in Seq(Query), Send(more), table' = table, LessResults,
           \A n \in 1 .. Len(more) : more[n].op \in SelectOp
    PROVE  (\A i \in Item : Written(i)' = Written(i)) /\ CurrentSql' /\ CurrentResults'
BY StoreParts, AsksWrite, CurrentResultsKept

\* One question.
Question(queries) == \E q \in Query : q.op \in SelectOp /\ queries = <<q>>

LEMMA QuestionSeq ==
    ASSUME NEW queries, Question(queries)
    PROVE  queries \in Seq(Query) /\ \A n \in 1 .. Len(queries) : queries[n].op \in SelectOp
<1>1. PICK q \in Query : q.op \in SelectOp /\ queries = <<q>>
  BY DEF Question
<1>2. \A n \in 1 .. Len(queries) : n = 1
  BY <1>1
<1> QED BY <1>1, <1>2

LEMMA SelectTwoSeq ==
    ASSUME NEW q \in Query, q.op \in SelectOp, NEW r \in Query, r.op \in SelectOp
    PROVE  <<q, r>> \in Seq(Query) /\ \A n \in 1 .. Len(<<q, r>>) : <<q, r>>[n].op \in SelectOp
<1>1. \A n \in 1 .. Len(<<q, r>>) : n = 1 \/ n = 2
  OBVIOUS
<1> QED BY <1>1

LEMMA SelectOps ==
    ASSUME NEW op \in SelectOp, NEW p \in Player
    PROVE  Select(op, p) \in Query /\ Select(op, p).op \in SelectOp
BY QueryType DEF Select

\* Somebody logs in or asks for a safebox: nobody's items are asked.
LEMMA SoundRequest ==
    ASSUME StoreInv, NEW p \in Player, Login(p) \/ ReqSafeboxLoad(p)
    PROVE  Sound' /\ (\A i \in Item : Stored(i)' = Stored(i)) /\ view' = view
<1>1. PICK op \in {"LOGIN", "BOX"} :
          /\ Send(<<Select(op, p)>>)
          /\ UNCHANGED <<view, cacheVars, playerCache, results, table>>
          /\ \A o \in Player : phase'[o] = phase[o] \/ (phase[o] = "off" /\ phase'[o] = "login")
  BY StoreTypes DEF Login, ReqSafeboxLoad, playerVars
<1>2. op \in SelectOp /\ Select(op, p) \in Query /\ Select(op, p).op \in SelectOp
  BY SelectOps DEF SelectOp
<1>3. Question(<<Select(op, p)>>)
  BY <1>2 DEF Question
<1>4. LessResults
  BY <1>1, StoreParts, ResultsLess
<1>5. (\A i \in Item : Written(i)' = Written(i)) /\ CurrentSql' /\ CurrentResults'
  BY <1>1, <1>3, <1>4, QuestionSeq, AskStep
<1>6. ASSUME NEW o \in Player, Asking(o)' PROVE Settled(o)
  <2>1. <<op, p, TRUE>> \notin Loads(o)
    BY DEF Loads
  <2>2. UnderWay(Loads(o))' => UnderWay(Loads(o))
    BY <1>1, <1>2, <2>1, StoreParts, AskKeeps
  <2>3. Asking(o)
    BY <1>1, <1>6, <2>2 DEF Asking, HasSet, cacheVars
  <2> QED BY <2>3, StoreParts DEF Settling
<1> QED BY <1>1, <1>5, <1>6, QuietStep

\* A character that is not cached is asked for: it was to be asked for already.
LEMMA SoundLoadSql ==
    ASSUME StoreInv, Faults = {}, NEW p \in Player, LoadPlayerFromSql(p)
    PROVE  Sound' /\ (\A i \in Item : Stored(i)' = Stored(i)) /\ view' = view
<1> DEFINE q == Select("PLAYER", p)
           r == Select("ITEM", p)
<1>1. /\ phase[p] = "select" /\ p \notin playerCache /\ Send(<<q, r>>)
      /\ UNCHANGED <<view, cacheVars, playerCache, results, table>>
      /\ \A o \in Player : o # p => phase'[o] = phase[o]
  BY StoreTypes DEF LoadPlayerFromSql, MaySelect
<1>2. /\ q \in Query /\ q.op \in SelectOp /\ r \in Query /\ r.op \in SelectOp
      /\ "PLAYER" \in SelectOp /\ "ITEM" \in SelectOp
  BY SelectOps DEF SelectOp
<1>3. <<q, r>> \in Seq(Query) /\ \A n \in 1 .. Len(<<q, r>>) : <<q, r>>[n].op \in SelectOp
  BY <1>2, SelectTwoSeq
<1>4. LessResults
  BY <1>1, StoreParts, ResultsLess
<1>5. (\A i \in Item : Written(i)' = Written(i)) /\ CurrentSql' /\ CurrentResults'
  BY <1>1, <1>3, <1>4, AskStep
<1>6. ASSUME NEW o \in Player, Asking(o)' PROVE Settled(o)
  <2>1. CASE o = p
    <3>1. Asking(p)
      BY <1>1 DEF Asking
    <3> QED BY <2>1, <3>1, StoreParts DEF Settling
  <2>2. CASE o # p
    <3>1. /\ <<"PLAYER", p, TRUE>> \notin Loads(o) /\ <<"ITEM", p, TRUE>> \notin Loads(o)
      BY <2>2 DEF Loads
    <3>2. UnderWay(Loads(o))' => UnderWay(Loads(o))
      BY <1>1, <3>1, StoreParts, AskTwoKeeps
    <3>3. Asking(o)
      BY <1>1, <1>6, <2>2, <3>2 DEF Asking, HasSet, cacheVars
    <3> QED BY <3>3, StoreParts DEF Settling
  <2> QED BY <2>1, <2>2
<1> QED BY <1>1, <1>5, <1>6, QuietStep

\* The rows a load brings to the game: those the store has of the player.
LoadOf(p, window) ==
    /\ \A i \in Item : Belongs(Stored(i), p, window) => view[i] = Offline
    /\ view' = [i \in Item |-> IF Belongs(Stored(i), p, window) THEN Stored(i) ELSE view[i]]

\* The load that answers from the set of the player brings them.
LEMMA CachedRowsStored ==
    ASSUME StoreInv, NEW p \in Player, HasSet(set, p), phase[p] # "game"
    PROVE  \A i \in Item :
               /\ Belongs(Stored(i), p, "INVENTORY") => view[i] = Offline
               /\ i \in DOMAIN CachedRows(p) <=> Belongs(Stored(i), p, "INVENTORY")
               /\ i \in DOMAIN CachedRows(p) => CachedRows(p)[i] = Stored(i)
<1> SUFFICES ASSUME NEW i \in Item
             PROVE  /\ Belongs(Stored(i), p, "INVENTORY") => view[i] = Offline
                    /\ i \in DOMAIN CachedRows(p) <=> Belongs(Stored(i), p, "INVENTORY")
                    /\ i \in DOMAIN CachedRows(p) => CachedRows(p)[i] = Stored(i)
  OBVIOUS
<1>1. Belongs(Stored(i), p, "INVENTORY") => view[i] = Offline
  BY StoreParts, StoreTypes DEF InStep, Shown, Belongs
<1>2. i \in DOMAIN CachedRows(p) <=> i \in set[p] /\ ~cache[i].deleted
  BY DEF CachedRows
<1>3. i \in DOMAIN CachedRows(p) => CachedRows(p)[i] = cache[i].row
  BY DEF CachedRows
<1>4. CASE i \in set[p]
  <2>1. Cached(i) /\ cache[i].row.owner = p /\ cache[i].row.window = "INVENTORY"
    BY <1>4, StoreParts, TypeParts DEF SetsAgree, Whole, Cached
  <2> QED BY <1>1, <1>2, <1>3, <1>4, <2>1, StoreTypes, StoredCases DEF EntryRow, Belongs
<1>5. CASE i \notin set[p]
  <2>1. Cached(i) => cache[i].row.owner # p
    BY <1>5, StoreParts DEF Whole, Cached
  <2>2. ~Belongs(Stored(i), p, "INVENTORY")
    <3>1. CASE Cached(i)
      BY <2>1, <3>1, StoredCases DEF EntryRow, Belongs
    <3>2. CASE ~Cached(i)
      BY <3>2, StoreParts, StoredCases DEF Covering
    <3> QED BY <3>1, <3>2
  <2> QED BY <1>1, <1>2, <1>3, <1>5, <2>2
<1> QED BY <1>4, <1>5

\* A character that is cached.
LEMMA SoundLoadCached ==
    ASSUME StoreInv, Faults = {}, NEW p \in Player, LoadCachedPlayer(p)
    PROVE  /\ Sound' /\ \A i \in Item : Stored(i)' = Stored(i)
           /\ view' = view \/ LoadOf(p, "INVENTORY")
<1>1. /\ phase[p] = "select" /\ p \in playerCache
      /\ UNCHANGED <<cacheVars, playerCache, results, table>>
  BY DEF LoadCachedPlayer, MaySelect
<1>2. LessResults
  BY <1>1, StoreParts, ResultsLess
<1>3. \/ /\ sql' = sql /\ phase' = [phase EXCEPT ![p] = "asked"] /\ view' = view
      \/ /\ sql' = sql /\ phase' = [phase EXCEPT ![p] = "game"] /\ HasSet(set, p)
         /\ view' = [i \in Item |->
                       IF i \in { j \in DOMAIN CachedRows(p) : view[j] = Offline }
                       THEN CachedRows(p)[i] ELSE view[i]]
      \/ /\ Send(<<Select("ITEM", p)>>) /\ phase' = [phase EXCEPT ![p] = "spawned"]
         /\ view' = view /\ ~HasSet(set, p)
  <2>1. CASE p \in play
    BY <2>1 DEF LoadCachedPlayer
  <2>2. CASE p \notin play /\ HasSet(set, p)
    BY <2>2 DEF LoadCachedPlayer
  <2>3. CASE p \notin play /\ ~HasSet(set, p)
    BY <2>3 DEF LoadCachedPlayer
  <2> QED BY <2>1, <2>2, <2>3
<1>4. \A o \in Player : o # p => phase'[o] = phase[o]
  BY <1>3, StoreTypes
<1>5. (\A i \in Item : Written(i)' = Written(i)) /\ CurrentSql' /\ CurrentResults'
  <2>1. CASE sql' = sql
    <3>1. \A i \in Item : Written(i)' = Written(i)
      BY <1>1, <2>1, StoreParts, WrittenSame
    <3>2. CurrentSql'
      BY <1>1, <2>1, StoreParts DEF CurrentSql, Awaited, Alike, Belongs, Written
    <3> QED BY <1>2, <3>1, <3>2, StoreParts, CurrentResultsKept
  <2>2. CASE Send(<<Select("ITEM", p)>>)
    <3>1. Select("ITEM", p) \in Query /\ Select("ITEM", p).op \in SelectOp
      BY SelectOps DEF SelectOp
    <3>2. Question(<<Select("ITEM", p)>>)
      BY <3>1 DEF Question
    <3> QED BY <1>1, <1>2, <2>2, <3>2, QuestionSeq, AskStep
  <2> QED BY <1>3, <2>1, <2>2
<1>6. ASSUME NEW o \in Player, Asking(o)' PROVE Settled(o)
  <2>1. UnderWay(Loads(o))' => UnderWay(Loads(o)) \/ (o = p /\ ~HasSet(set, p))
    <3>1. CASE sql' = sql
      BY <1>1, <3>1, QueuesKeep
    <3>2. CASE Send(<<Select("ITEM", p)>>) /\ ~HasSet(set, p)
      <4>1. "ITEM" \in SelectOp /\ (o # p => <<"ITEM", p, TRUE>> \notin Loads(o))
        BY DEF SelectOp, Loads
      <4> QED BY <1>1, <3>2, <4>1, StoreParts, AskKeeps
    <3> QED BY <1>3, <3>1, <3>2
  <2>2. Asking(o)
    BY <1>1, <1>4, <1>6, <2>1 DEF Asking, HasSet, cacheVars
  <2> QED BY <2>2, StoreParts DEF Settling
<1>7. CASE view' = view
  BY <1>1, <1>5, <1>6, <1>7, QuietStep
<1>8. CASE /\ HasSet(set, p)
           /\ view' = [i \in Item |->
                         IF i \in { j \in DOMAIN CachedRows(p) : view[j] = Offline }
                         THEN CachedRows(p)[i] ELSE view[i]]
  <2>1. \A i \in Item :
               /\ Belongs(Stored(i), p, "INVENTORY") => view[i] = Offline
               /\ i \in DOMAIN CachedRows(p) <=> Belongs(Stored(i), p, "INVENTORY")
               /\ i \in DOMAIN CachedRows(p) => CachedRows(p)[i] = Stored(i)
    BY <1>1, <1>8, CachedRowsStored
  <2>2. LoadOf(p, "INVENTORY")
    BY <1>8, <2>1 DEF LoadOf
  <2>3. \A i \in Item : view'[i] \in {view[i], Offline}
                              \/ (view'[i] \in Row /\ view'[i] = Stored(i))
    BY <2>2, StoreTypes DEF LoadOf, Belongs
  <2> QED BY <1>1, <1>5, <1>6, <2>2, <2>3, QuietStep
<1> QED BY <1>3, <1>7, <1>8

\* Results are handled, dropped or left.
LEMMA HandledStep ==
    ASSUME StoreInv, sql' = sql, table' = table, LessResults
    PROVE  (\A i \in Item : Written(i)' = Written(i)) /\ CurrentSql' /\ CurrentResults'
<1>1. \A i \in Item : Written(i)' = Written(i)
  BY StoreParts, WrittenSame
<1>2. CurrentSql'
  BY StoreParts DEF CurrentSql, Awaited, Alike, Belongs, Written
<1> QED BY <1>1, <1>2, StoreParts, CurrentResultsKept

LEMMA SoundResult ==
    ASSUME StoreInv,
           \/ \E p \in Player : \/ RESULT_LOGIN(p) \/ RESULT_PLAYER_LOAD(p)
                                \/ CancelSafeboxLoad(p) \/ SavePlayer(p)
           \/ DropResult
    PROVE  Sound' /\ (\A i \in Item : Stored(i)' = Stored(i)) /\ view' = view
<1>1. /\ UNCHANGED <<view, cacheVars, sql, table>>
      /\ results' = results \/ (results # <<>> /\ results' = Tail(results))
      /\ playerCache \subseteq playerCache'
      /\ \A o \in Player : \/ phase'[o] = phase[o]
                           \/ phase[o] = "login" /\ phase'[o] = "select"
                           \/ phase[o] = "asked" /\ phase'[o] = "spawned"
  <2>1. ASSUME NEW p \in Player, RESULT_LOGIN(p) \/ RESULT_PLAYER_LOAD(p)
        PROVE  /\ UNCHANGED <<view, cacheVars, sql, table, playerCache>>
               /\ results # <<>> /\ results' = Tail(results)
               /\ \A o \in Player : \/ phase'[o] = phase[o]
                                    \/ phase[o] = "login" /\ phase'[o] = "select"
                                    \/ phase[o] = "asked" /\ phase'[o] = "spawned"
    BY <2>1, StoreTypes DEF RESULT_LOGIN, RESULT_PLAYER_LOAD, HasResult, PopResult, playerVars
  <2>2. ASSUME NEW p \in Player, CancelSafeboxLoad(p)
        PROVE  /\ UNCHANGED <<view, cacheVars, sql, table, playerCache, phase>>
               /\ results # <<>> /\ results' = Tail(results)
    BY <2>2 DEF CancelSafeboxLoad, HasResult, PopResult, playerVars
  <2>3. ASSUME NEW p \in Player, SavePlayer(p)
        PROVE  /\ UNCHANGED <<view, cacheVars, sql, table, phase, results>>
               /\ playerCache \subseteq playerCache'
    BY <2>3 DEF SavePlayer, gameVars, sqlVars
  <2>4. CASE DropResult
    BY <2>4 DEF DropResult, PopResult, gameVars, playerVars
  <2> QED BY <2>1, <2>2, <2>3, <2>4
<1>2. LessResults
  BY <1>1, StoreParts, ResultsLess
<1>3. (\A i \in Item : Written(i)' = Written(i)) /\ CurrentSql' /\ CurrentResults'
  BY <1>1, <1>2, HandledStep
<1>4. ASSUME NEW o \in Player, Asking(o)' PROVE Settled(o)
  <2>1. UnderWay(Loads(o))' => UnderWay(Loads(o))
    BY <1>1, StoreParts, HandledKeeps, QueuesKeep
  <2>2. Asking(o)
    BY <1>1, <1>4, <2>1 DEF Asking, HasSet, cacheVars
  <2> QED BY <2>2, StoreParts DEF Settling
<1> QED BY <1>1, <1>3, <1>4, QuietStep

LEMMA SoundResultSafebox ==
    ASSUME StoreInv, NEW p \in Player, RESULT_SAFEBOX(p)
    PROVE  Sound' /\ (\A i \in Item : Stored(i)' = Stored(i)) /\ view' = view
<1> DEFINE q == [Select("BOXITEM", p) EXCEPT !.live = Live]
<1>1. /\ HasResult("BOX", p) /\ results # <<>> /\ results' = Tail(results) /\ Send(<<q>>)
      /\ UNCHANGED <<view, cacheVars, table, playerCache, phase>> /\ "BOX" \in SelectOp
  BY DEF RESULT_SAFEBOX, HasResult, PopResult, gameVars, playerVars, SelectOp
<1>2. /\ q \in Query /\ q.op \in SelectOp /\ q.op = "BOXITEM"
  <2>1. Head(results).live \in BOOLEAN
    BY <1>1, StoreParts, HandledOf
  <2>2. q \in Query
    BY <2>1, QueryType DEF Live
  <2> QED BY <2>2 DEF Select, SelectOp
<1> HIDE DEF q
<1>3. LessResults
  BY <1>1, StoreParts, ResultsLess
<1>4. (\A i \in Item : Written(i)' = Written(i)) /\ CurrentSql' /\ CurrentResults'
  <2>1. Question(<<q>>)
    BY <1>2 DEF Question
  <2> QED BY <1>1, <1>3, <2>1, QuestionSeq, AskStep
<1>5. ASSUME NEW o \in Player, Asking(o)' PROVE Settled(o)
  <2>1. Asks(q) \notin Loads(o)
    BY <1>2 DEF Asks, Loads
  <2>2. UnderWay(Loads(o))' => UnderWay(Loads(o))
    BY <1>1, <1>2, <2>1, StoreParts, RelayKeeps
  <2>3. Asking(o)
    BY <1>1, <1>5, <2>2 DEF Asking, HasSet, cacheVars
  <2> QED BY <2>3, StoreParts DEF Settling
<1> QED BY <1>1, <1>4, <1>5, QuietStep

LEMMA SoundExecute ==
    ASSUME StoreInv, Execute
    PROVE  Sound' /\ (\A i \in Item : Stored(i)' = Stored(i)) /\ view' = view
<1>1. UNCHANGED <<view, cacheVars, playerCache, phase>>
  BY DEF Execute, gameVars, playerVars
<1>2. (\A i \in Item : Written(i)' = Written(i)) /\ CurrentSql' /\ CurrentResults'
  BY StoreParts, CurrentExecuted
<1>3. ASSUME NEW o \in Player, Asking(o)' PROVE Settled(o)
  <2>1. UnderWay(Loads(o))' => UnderWay(Loads(o))
    BY StoreParts, ExecutedKeeps
  <2>2. Asking(o)
    BY <1>1, <1>3, <2>1 DEF Asking, HasSet, cacheVars
  <2> QED BY <2>2, StoreParts DEF Settling
<1> QED BY <1>1, <1>2, <1>3, QuietStep

LEMMA SoundDbRestart ==
    ASSUME StoreInv, DbRestart
    PROVE  Sound' /\ (\A i \in Item : Stored(i)' = Stored(i)) /\ view' = view
<1>1. /\ UNCHANGED <<view, cacheVars, playerCache, phase, sql, table>>
      /\ sql = <<>> /\ results' = <<>>
  BY DEF DbRestart, gameVars, playerVars
<1>2. LessResults
  BY <1>1, StoreParts, ResultsLess
<1>3. (\A i \in Item : Written(i)' = Written(i)) /\ CurrentSql' /\ CurrentResults'
  BY <1>1, <1>2, HandledStep
<1>4. ASSUME NEW o \in Player, Asking(o)' PROVE Settled(o)
  <2>1. ~UnderWay(Loads(o))'
    BY <1>1 DEF UnderWay, InSql, InResults
  <2>2. Asking(o)
    BY <1>1, <1>4, <2>1 DEF Asking, HasSet, cacheVars
  <2> QED BY <2>2, StoreParts DEF Settling
<1> QED BY <1>1, <1>3, <1>4, QuietStep

\* Items leave the game.
LEMMA SoundClose ==
    ASSUME StoreInv, NEW p \in Player, CloseSafebox(p)
    PROVE  /\ Sound' /\ (\A i \in Item : Stored(i)' = Stored(i))
           /\ \E items \in SUBSET Item : GoOffline(items)
<1>1. UNCHANGED <<cacheVars, playerCache, phase, sql, results, table>> /\ GoOffline(InBox(p))
  BY DEF CloseSafebox, playerVars, sqlVars
<1>2. LessResults
  BY <1>1, StoreParts, ResultsLess
<1>3. (\A i \in Item : Written(i)' = Written(i)) /\ CurrentSql' /\ CurrentResults'
  BY <1>1, <1>2, HandledStep
<1>4. ASSUME NEW o \in Player, Asking(o)' PROVE Settled(o)
  <2>1. UnderWay(Loads(o))' => UnderWay(Loads(o))
    BY <1>1, QueuesKeep
  <2>2. Asking(o)
    BY <1>1, <1>4, <2>1 DEF Asking, HasSet, cacheVars
  <2> QED BY <2>2, StoreParts DEF Settling
<1>5. \A i \in Item : view'[i] \in {view[i], Offline}
  BY <1>1 DEF GoOffline
<1>6. InBox(p) \in SUBSET Item
  BY DEF InBox
<1> QED BY <1>1, <1>3, <1>4, <1>5, <1>6, QuietStep

LEMMA SoundDisconnect ==
    ASSUME StoreInv, NEW p \in Player, Disconnect(p)
    PROVE  /\ Sound' /\ (\A i \in Item : Stored(i)' = Stored(i))
           /\ \E items \in SUBSET Item : GoOffline(items)
<1> DEFINE items == { i \in Item : view[i] \in Row /\ view[i].owner = p }
<1>1. /\ phase[p] # "off" /\ phase' = [phase EXCEPT ![p] = "off"] /\ GoOffline(items)
      /\ playerCache' = IF phase[p] \in {"spawned", "game"}
                        THEN playerCache \cup {p} ELSE playerCache
      /\ sql' = Unhandled(sql, p) /\ results' = Unhandled(results, p)
      /\ UNCHANGED <<cacheVars, table>>
  BY DEF Disconnect, SavedOnDisconnect
<1>2. LessResults
  BY <1>1, StoreParts, ResultsLess
<1>3. (\A i \in Item : Written(i)' = Written(i)) /\ CurrentSql'
  BY <1>1, StoreParts, CurrentSqlGone
<1>4. CurrentResults'
  BY <1>2, <1>3, StoreParts, CurrentResultsKept
<1>5. ASSUME NEW o \in Player, Asking(o)' PROVE Settled(o)
  <2>1. Weaker(sql', sql) /\ Weaker(results', results)
    BY <1>1, StoreParts, QueueFacts, UnhandledWeaker
  <2>2. UnderWay(Loads(o))' => UnderWay(Loads(o))
    BY <2>1, StoreParts, AskSets, WeakerKeeps
  <2>3. /\ phase'[p] = "off" /\ \A j \in Player : j # p => phase'[j] = phase[j]
    BY <1>1, StoreTypes
  <2>4. Asking(o)
    BY <1>1, <1>5, <2>2, <2>3 DEF Asking, HasSet, cacheVars
  <2> QED BY <2>4, StoreParts DEF Settling
<1>6. \A i \in Item : view'[i] \in {view[i], Offline}
  BY <1>1 DEF GoOffline
<1>7. items \in SUBSET Item
  OBVIOUS
<1> HIDE DEF items
<1> QED BY <1>1, <1>3, <1>4, <1>5, <1>6, <1>7, QuietStep

\* The game core crashes when what its players changed is saved.
LEMMA SoundCrash ==
    ASSUME StoreInv, Faults = {}, CoreCrash
    PROVE  Sound' /\ (\A i \in Item : Stored(i)' = Stored(i)) /\ GoOffline(Item)
<1>1. /\ \A p \in Player : ~HalfCached(p)
      /\ GoOffline(Item) /\ sql' = Voided(sql) /\ results' = Voided(results)
      /\ UNCHANGED <<cacheVars, table, playerCache>>
      /\ phase' = [p \in Player |-> "off"]
  BY DEF CoreCrash
<1>2. LessResults
  BY <1>1, StoreParts, ResultsLess
<1>3. (\A i \in Item : Written(i)' = Written(i)) /\ CurrentSql'
  BY <1>1, StoreParts, CurrentSqlGone DEF CoreCrash
<1>4. CurrentResults'
  BY <1>2, <1>3, StoreParts, CurrentResultsKept
<1>5. ASSUME NEW o \in Player, Asking(o)' PROVE Settled(o)
  <2>1. /\ \A n \in 1 .. Len(sql) : sql'[n].op \notin SelectOp
        /\ \A n \in 1 .. Len(results) : results'[n].op \notin SelectOp
        /\ Len(sql') = Len(sql) /\ Len(results') = Len(results)
    BY <1>1, StoreParts, QueueFacts, VoidedWeaker DEF Weaker
  <2>2. ~UnderWay(Loads(o))'
    BY <2>1 DEF UnderWay, InSql, InResults, Asks
  <2>3. o \notin playerCache \/ ~HasSet(set, o)
    BY <1>1, <1>5, <2>2 DEF Asking, HasSet, cacheVars
  <2>4. CASE ~HasSet(set, o)
    BY <2>4, StoreParts DEF Settling, Asking
  <2>5. CASE HasSet(set, o) /\ o \notin playerCache
    <3>1. ~Lagging(o) /\ \A i \in set[o] : ~NeedQuery(i)
      BY <1>1, <2>5 DEF HalfCached
    <3>2. ASSUME NEW i \in Item, NeedQuery(i)
          PROVE  cache[i].row.owner # o /\ (Written(i) # NoRow => Written(i).owner # o)
      <4>1. i \in set[cache[i].row.owner]
        BY <3>2, StoreParts DEF Whole, NeedQuery, Cached
      <4> QED BY <3>1, <3>2, <4>1 DEF Lagging
    <3> QED BY <3>2 DEF Settled
  <2> QED BY <2>3, <2>4, <2>5
<1>6. \A i \in Item : view'[i] \in {view[i], Offline}
  BY <1>1 DEF GoOffline
<1> QED BY <1>1, <1>3, <1>4, <1>5, <1>6, QuietStep

\* The rows of the result that is handled are those that are written.
LEMMA HeadRows ==
    ASSUME StoreInv, NEW p \in Player, NEW op \in {"ITEM", "BOXITEM"}, HasResult(op, p),
           op = "BOXITEM" => Live, NEW window, NEW rows, rows = Head(results).rows,
           window = IF op = "ITEM" THEN "INVENTORY" ELSE "SAFEBOX"
    PROVE  /\ \A i \in Item : i \in DOMAIN rows <=> Belongs(Written(i), p, window)
           /\ \A i \in DOMAIN rows : i \in Item /\ rows[i] = Written(i) /\ rows[i] \in Row
<1>1. /\ 1 \in 1 .. Len(results) /\ Head(results) = results[1] /\ results # <<>>
  BY StoreParts, QueueFacts DEF HasResult
<1>2. Head(results).op = op /\ Head(results).pid = p /\ Awaited(Head(results))
  BY DEF HasResult, Awaited, Live
<1>3. rows \in Rows
  <2>1. op \in SelectOp
    BY DEF SelectOp
  <2>2. Head(results).rows \in Rows
    BY <2>1, StoreParts, TypeParts, HeadResultType
  <2> QED BY <2>2
<1>4. \A i \in DOMAIN rows : i \in Item /\ rows[i] \in Row /\ rows[i] # NoRow
  BY <1>3, StoreTypes DEF Rows
<1>5. \A i \in DOMAIN rows : rows[i].owner = p /\ rows[i].window = window
  <2>1. Brought(results[1])
    BY <1>1, <1>2, StoreParts DEF Brings
  <2> QED BY <1>1, <1>2, <2>1 DEF Brought
<1>6. ASSUME NEW i \in Item
      PROVE  Belongs(RowIn(rows, i), p, window) \/ Belongs(Written(i), p, window)
                 => RowIn(rows, i) = Written(i)
  <2>1. Alike(results[1], RowIn(results[1].rows, i), Written(i))
    BY <1>1, <1>2, StoreParts DEF CurrentResults
  <2> QED BY <1>1, <1>2, <2>1 DEF Alike
<1> QED BY <1>4, <1>5, <1>6 DEF RowIn, Belongs

\* The rows of a safebox that opens.
LEMMA SoundResultSafeboxItem ==
    ASSUME StoreInv, NEW p \in Player, RESULT_SAFEBOX_ITEM(p)
    PROVE  /\ Sound' /\ \A i \in Item : Stored(i)' = Stored(i)
           /\ view' = view \/ LoadOf(p, "SAFEBOX")
<1> DEFINE rows == Head(results).rows
           fresh == { i \in DOMAIN rows : view[i] = Offline }
<1>1. /\ HasResult("BOXITEM", p) /\ results # <<>> /\ results' = Tail(results)
      /\ UNCHANGED <<cacheVars, sql, table, playerCache, phase>>
  BY DEF RESULT_SAFEBOX_ITEM, HasResult, PopResult, playerVars
<1>2. LessResults
  BY <1>1, StoreParts, ResultsLess
<1>3. (\A i \in Item : Written(i)' = Written(i)) /\ CurrentSql' /\ CurrentResults'
  BY <1>1, <1>2, HandledStep
<1>4. ASSUME NEW o \in Player, Asking(o)' PROVE Settled(o)
  <2>1. UnderWay(Loads(o))' => UnderWay(Loads(o))
    BY <1>1, StoreParts, HandledKeeps
  <2>2. Asking(o)
    BY <1>1, <1>4, <2>1 DEF Asking, HasSet, cacheVars
  <2> QED BY <2>2, StoreParts DEF Settling
<1>5. CASE ~Live \/ box[p] = "open"
  <2>1. view' = view
    BY <1>5 DEF RESULT_SAFEBOX_ITEM
  <2> QED BY <1>1, <1>3, <1>4, <2>1, QuietStep
<1>6. CASE ~(~Live \/ box[p] = "open")
  <2>1. view' = [i \in Item |-> IF i \in fresh THEN rows[i] ELSE view[i]]
    BY <1>6 DEF RESULT_SAFEBOX_ITEM
  <2>2. /\ \A i \in Item : i \in DOMAIN rows <=> Belongs(Written(i), p, "SAFEBOX")
        /\ \A i \in DOMAIN rows : i \in Item /\ rows[i] = Written(i) /\ rows[i] \in Row
    BY <1>1, <1>6, HeadRows
  <2>3. \A i \in fresh : i \in DOMAIN rows /\ view[i] = Offline
    OBVIOUS
  <2>4. \A i \in DOMAIN rows : view[i] = Offline => i \in fresh
    OBVIOUS
  <2> HIDE DEF rows, fresh
  <2>5. \A i \in Item : /\ Belongs(Stored(i), p, "SAFEBOX") <=> Belongs(Written(i), p, "SAFEBOX")
                        /\ Belongs(Written(i), p, "SAFEBOX") => Stored(i) = Written(i)
    BY StoreParts, StoredCases DEF Resolved, Whole, Belongs, EntryRow, Cached
  <2>6. ASSUME NEW i \in Item, Belongs(Stored(i), p, "SAFEBOX") PROVE view[i] = Offline
    BY <1>6, <2>6, StoreParts DEF InStep, Shown, Belongs
  <2>7. LoadOf(p, "SAFEBOX")
    BY <2>1, <2>2, <2>3, <2>4, <2>5, <2>6 DEF LoadOf
  <2>8. \A i \in Item : view'[i] \in {view[i], Offline}
                              \/ (view'[i] \in Row /\ view'[i] = Stored(i))
    BY <2>7, StoreTypes DEF LoadOf, Belongs
  <2> QED BY <1>1, <1>3, <1>4, <2>7, <2>8, QuietStep
<1> QED BY <1>5, <1>6

\* The result that is handled was under way, and its player is settled.
LEMMA LoadedSettled ==
    ASSUME StoreInv, NEW p \in Player, HasResult("ITEM", p)
    PROVE  Settled(p)
<1>1. /\ results # <<>> /\ "ITEM" \in SelectOp /\ Head(results).op = "ITEM"
      /\ 1 \in 1 .. Len(results) /\ Head(results) = results[1] /\ Head(results).pid = p
  BY StoreParts, QueueFacts DEF HasResult, SelectOp
<1>2. Awaited(Head(results))
  BY <1>1 DEF Awaited
<1>3. UnderWay(Loads(p))
  BY <1>1, <1>2, StoreParts, AwaitedUnderWay
<1> QED BY <1>3, StoreParts DEF Settling, Asking

\* The items of a player are loaded into the cache.
LEMMA SoundItemLoad ==
    ASSUME StoreInv, NEW p \in Player, RESULT_ITEM_LOAD(p)
    PROVE  /\ Sound' /\ \A i \in Item : Stored(i)' = Stored(i)
           /\ view' = view \/ LoadOf(p, "INVENTORY")
<1> DEFINE rows == Head(results).rows
           sets == WithSet(p)
<1>1. /\ HasResult("ITEM", p) /\ results # <<>> /\ results' = Tail(results)
      /\ cache' = Put(sets, rows, TRUE) /\ set' = PutInSets(sets, rows)
      /\ UNCHANGED <<sql, table, playerCache>>
  BY DEF RESULT_ITEM_LOAD, HasResult, PopResult, playerVars
<1>2. /\ \A i \in Item : i \in DOMAIN rows <=> Belongs(Written(i), p, "INVENTORY")
      /\ \A i \in DOMAIN rows : i \in Item /\ rows[i] = Written(i) /\ rows[i] \in Row
  BY <1>1, HeadRows
<1>3. LessResults
  BY <1>1, StoreParts, ResultsLess
<1>4. (\A i \in Item : Written(i)' = Written(i)) /\ CurrentSql' /\ CurrentResults'
  BY <1>1, <1>3, HandledStep
<1>5. Settled(p)
  BY <1>1, LoadedSettled
<1>6. \/ /\ Live /\ phase[p] = "spawned" /\ phase' = [phase EXCEPT ![p] = "game"]
         /\ view' = [i \in Item |-> IF i \in DOMAIN rows /\ view[i] = Offline
                                    THEN rows[i] ELSE view[i]]
      \/ phase' = phase /\ view' = view
  <2>1. ItemLoad(p, rows)
    BY DEF RESULT_ITEM_LOAD
  <2>2. CASE Live /\ phase[p] = "spawned"
    BY <2>1, <2>2 DEF ItemLoad
  <2>3. CASE ~(Live /\ phase[p] = "spawned")
    BY <2>1, <2>3 DEF ItemLoad
  <2> QED BY <2>2, <2>3
<1>7. /\ HasSet(sets, p) /\ sets \in Sets
      /\ \A o \in Player : HasSet(set, o) => HasSet(sets, o)
      /\ \A o \in Player : o # p => sets[o] = set[o]
  <2>1. set \in Sets
    BY StoreTypes
  <2>2. sets \in Sets /\ HasSet(sets, p)
    BY <2>1, WithSetType
  <2>3. \A o \in Player : o # p => sets[o] = set[o]
    BY <2>1 DEF WithSet, Sets
  <2> QED BY <2>2, <2>3 DEF HasSet
<1> HIDE DEF rows, sets
<1>8. \A o \in Player : HasSet(sets, o) <=> HasSet(set', o)
  BY <1>1, <1>2, <1>7, MarkAssumption DEF HasSet, PutInSets, Sets
<1>9. ASSUME NEW i \in Item, i \in DOMAIN rows
      PROVE  /\ ~NeedQuery(i) /\ Written(i) = rows[i] /\ Written(i).window = "INVENTORY"
             /\ Stored(i) = Written(i) /\ cache'[i] # NoEntry /\ cache'[i].row = rows[i]
             /\ cache'[i].deleted = FALSE /\ cache'[i].m_bNeedQuery = FALSE
  <2>1. Written(i) # NoRow /\ Written(i).owner = p /\ Written(i).window = "INVENTORY"
           /\ Written(i) = rows[i]
    BY <1>2, <1>9 DEF Belongs
  <2>2. ~NeedQuery(i)
    BY <1>5, <2>1 DEF Settled
  <2>3. Stored(i) = Written(i)
    BY <2>2, StoreParts, StoredCases DEF Resolved
  <2>4. cache'[i] = PutEntry(sets, i, rows[i], TRUE)
    BY <1>1, <1>9 DEF Put
  <2>5. /\ PutEntry(sets, i, rows[i], TRUE).row = rows[i]
        /\ PutEntry(sets, i, rows[i], TRUE).deleted = FALSE
        /\ PutEntry(sets, i, rows[i], TRUE).m_bNeedQuery = FALSE
    BY <2>2 DEF PutEntry
  <2>6. rows[i] \in Row
    BY <1>2, <1>9
  <2>7. cache'[i] \in Entry
    BY <2>4, <2>6, StoreTypes, PutEntryType
  <2>8. cache'[i] # NoEntry
    BY <2>7, MarkAssumption
  <2> QED BY <2>1, <2>2, <2>3, <2>4, <2>5, <2>8
<1>10. \A i \in Item : i \notin DOMAIN rows => cache'[i] = cache[i]
  BY <1>1 DEF Put
<1>11. ASSUME NEW i \in Item, i \in DOMAIN rows
       PROVE  Cached(i)' /\ ~NeedQuery(i)' /\ EntryRow(cache'[i]) = rows[i] /\ Stored(i)' = rows[i]
  <2>1. /\ cache'[i] # NoEntry /\ cache'[i].row = rows[i]
        /\ cache'[i].deleted = FALSE /\ cache'[i].m_bNeedQuery = FALSE
    BY <1>9, <1>11
  <2> QED BY <2>1 DEF Cached, NeedQuery, EntryRow, Stored
<1>12. ASSUME NEW i \in Item, i \notin DOMAIN rows
       PROVE  /\ Cached(i)' = Cached(i) /\ NeedQuery(i)' = NeedQuery(i) /\ Stored(i)' = Stored(i)
  BY <1>4, <1>10, <1>12 DEF Cached, NeedQuery, Stored
<1>13. \A i \in Item : Stored(i)' = Stored(i)
  BY <1>9, <1>11, <1>12
<1>14. Resolved'
  <2>1. SUFFICES ASSUME NEW i \in Item, Cached(i)'
                 PROVE  /\ NeedQuery(i)' => ~cache'[i].deleted
                        /\ ~NeedQuery(i)' => Written(i)' = EntryRow(cache'[i])
                        /\ Written(i)' # NoRow => Written(i)'.window = "INVENTORY"
    BY DEF Resolved, EntryRow
  <2>2. CASE i \in DOMAIN rows
    BY <1>4, <1>9, <1>11, <2>2
  <2>3. CASE i \notin DOMAIN rows
    BY <1>4, <1>10, <1>12, <2>1, <2>3, StoreParts DEF Resolved
  <2> QED BY <2>2, <2>3
<1>15. Settling'
  <2>1. ASSUME NEW o \in Player, Asking(o)' PROVE Settled(o)'
    <3>1. UnderWay(Loads(o))' => UnderWay(Loads(o))
      BY <1>1, StoreParts, HandledKeeps
    <3>2. phase'[o] \notin {"spawned", "game"} => phase[o] \notin {"spawned", "game"}
      BY <1>6, StoreTypes
    <3>3. Settled(o)
      <4>1. Asking(o)
        BY <1>1, <1>7, <1>8, <2>1, <3>1, <3>2 DEF Asking, HasSet
      <4> QED BY <4>1, StoreParts DEF Settling
    <3>4. ASSUME NEW i \in Item, NeedQuery(i)'
          PROVE  cache'[i].row.owner # o /\ (Written(i)' # NoRow => Written(i)'.owner # o)
      <4>1. i \notin DOMAIN rows
        BY <1>11, <3>4
      <4> QED BY <1>4, <1>10, <1>12, <3>3, <3>4, <4>1 DEF Settled
    <3> QED BY <3>4 DEF Settled
  <2> QED BY <2>1 DEF Settling
<1>16. Covering'
  <2>1. SUFFICES ASSUME NEW o \in Player, NEW i \in Item, HasSet(set', o), ~Cached(i)'
                 PROVE  ~Belongs(Written(i)', o, "INVENTORY")
    BY DEF Covering, HasSet, Belongs
  <2>2. i \notin DOMAIN rows /\ ~Cached(i)
    BY <1>11, <1>12, <2>1
  <2>3. CASE o = p
    BY <1>2, <1>4, <2>2, <2>3
  <2>4. CASE o # p
    <3>1. HasSet(set, o)
      BY <1>7, <1>8, <2>1, <2>4 DEF HasSet
    <3>2. ~Belongs(Written(i), o, "INVENTORY")
      BY <2>2, <3>1, StoreParts DEF Covering
    <3> QED BY <1>4, <3>2 DEF Belongs
  <2> QED BY <2>3, <2>4
<1>17. view' = view \/ LoadOf(p, "INVENTORY")
  <2>1. SUFFICES ASSUME phase[p] = "spawned",
                        view' = [i \in Item |-> IF i \in DOMAIN rows /\ view[i] = Offline
                                                THEN rows[i] ELSE view[i]]
                 PROVE  LoadOf(p, "INVENTORY")
    BY <1>6
  <2>2. ASSUME NEW i \in Item
        PROVE  i \in DOMAIN rows <=> Belongs(Stored(i), p, "INVENTORY")
    <3>1. CASE i \in DOMAIN rows
      BY <1>2, <1>9, <3>1 DEF Belongs
    <3>2. CASE i \notin DOMAIN rows
      <4>1. ~Belongs(Written(i), p, "INVENTORY")
        BY <1>2, <3>2
      <4>2. CASE Cached(i)
        <5>1. NeedQuery(i) => cache[i].row.owner # p
          BY <1>5 DEF Settled
        <5>2. CASE NeedQuery(i)
          BY <3>2, <4>2, <5>1, <5>2, StoredCases DEF EntryRow, Belongs
        <5>3. CASE ~NeedQuery(i)
          BY <3>2, <4>1, <4>2, <5>3, StoredCases, StoreParts DEF Resolved
        <5> QED BY <5>2, <5>3
      <4>3. CASE ~Cached(i)
        BY <3>2, <4>1, <4>3, StoredCases
      <4> QED BY <4>2, <4>3
    <3> QED BY <3>1, <3>2
  <2>3. ASSUME NEW i \in Item, Belongs(Stored(i), p, "INVENTORY") PROVE view[i] = Offline
    BY <2>1, <2>3, StoreParts, StoreTypes DEF InStep, Shown, Belongs
  <2>4. \A i \in Item : i \in DOMAIN rows => rows[i] = Stored(i)
    BY <1>9
  <2> QED BY <2>1, <2>2, <2>3, <2>4 DEF LoadOf
<1>18. InStep'
  <2>1. \A i \in Item : view'[i] = view[i] \/ (view'[i] = Stored(i) /\ view'[i] \in Row)
    BY <1>17, StoreTypes DEF LoadOf, Belongs
  <2> QED BY <1>13, <2>1, StoreParts DEF InStep
<1> QED BY <1>4, <1>13, <1>14, <1>15, <1>16, <1>17, <1>18 DEF Sound

-----------------------------------------------------------------------------
(* Entries are written, and evicted.                                       *)

\* What is asked does not grow when rows are written.
LEMMA WriteAsks ==
    ASSUME StoreInv, NEW more \in Seq(Query), Send(more), results' = results,
           \A n \in 1 .. Len(more) : more[n].op \notin SelectOp
    PROVE  LessResults /\ \A o \in Player : UnderWay(Loads(o))' => UnderWay(Loads(o))
<1>1. \A o \in Player : Fewer(o)
  BY StoreParts, WriteFewer
<1>2. LessResults
  BY StoreParts, ResultsLess
<1> QED BY <1>1, <1>2 DEF Fewer

\* Some entries are written and stay.
LEMMA FlushStep ==
    ASSUME StoreInv, NEW items \in SUBSET Item, cache' = Flushed(items),
           NEW more \in Seq(Query), Send(more), table' = table,
           \A n \in 1 .. Len(more) : more[n].op \notin SelectOp,
           \A i \in Item : Written(i)' = IF i \in items /\ NeedQuery(i)
                                         THEN EntryRow(cache[i]) ELSE Written(i),
           UNCHANGED <<view, set, playerCache, phase, results>>
    PROVE  Sound' /\ (\A i \in Item : Stored(i)' = Stored(i)) /\ view' = view
<1>1. LessResults /\ \A o \in Player : UnderWay(Loads(o))' => UnderWay(Loads(o))
  BY WriteAsks
<1>2. CurrentSql' /\ CurrentResults'
  BY <1>1, CurrentFlushed
<1>3. ASSUME NEW i \in Item
      PROVE  /\ Cached(i)' = Cached(i)
             /\ Cached(i) => /\ cache'[i].row = cache[i].row /\ cache'[i].deleted = cache[i].deleted
                             /\ EntryRow(cache'[i]) = EntryRow(cache[i])
             /\ NeedQuery(i)' <=> NeedQuery(i) /\ i \notin items
  BY StoreTypes, MarkAssumption DEF Flushed, Cached, NeedQuery, EntryRow, Entry
<1>4. ASSUME NEW i \in Item, NeedQuery(i)
      PROVE  Cached(i) /\ EntryRow(cache[i]) = cache[i].row /\ cache[i].row.window = "INVENTORY"
                /\ cache[i].row # NoRow
  BY <1>4, FlushAside, StoreParts, StoreTypes DEF NeedQuery, Whole, Cached
<1>5. \A i \in Item : Stored(i)' = Stored(i)
  <2>1. SUFFICES ASSUME NEW i \in Item PROVE Stored(i)' = Stored(i)
    OBVIOUS
  <2>2. CASE Cached(i)
    <3>1. Stored(i)' = EntryRow(cache'[i])
      BY <1>3, <2>2 DEF Stored, EntryRow
    <3> QED BY <1>3, <2>2, <3>1, StoredCases
  <2>3. CASE ~Cached(i)
    BY <1>3, <2>3 DEF Stored, NeedQuery
  <2> QED BY <2>2, <2>3
<1>6. Resolved'
  <2>1. SUFFICES ASSUME NEW i \in Item, Cached(i)'
                 PROVE  /\ NeedQuery(i)' => ~cache'[i].deleted
                        /\ ~NeedQuery(i)' => Written(i)' = EntryRow(cache'[i])
                        /\ Written(i)' # NoRow => Written(i)'.window = "INVENTORY"
    BY DEF Resolved, EntryRow
  <2> QED BY <1>3, <1>4, <2>1, StoreParts DEF Resolved
<1>7. Settling'
  <2>1. ASSUME NEW o \in Player, Asking(o)' PROVE Settled(o)'
    <3>1. Asking(o)
      BY <1>1, <2>1 DEF Asking, HasSet
    <3>2. Settled(o)
      BY <3>1, StoreParts DEF Settling
    <3>3. ASSUME NEW i \in Item, NeedQuery(i)'
          PROVE  cache'[i].row.owner # o /\ (Written(i)' # NoRow => Written(i)'.owner # o)
      BY <1>3, <1>4, <3>2, <3>3 DEF Settled
    <3> QED BY <3>3 DEF Settled
  <2> QED BY <2>1 DEF Settling
<1>8. Covering'
  <2>1. SUFFICES ASSUME NEW o \in Player, NEW i \in Item, HasSet(set, o), ~Cached(i)'
                 PROVE  ~Belongs(Written(i)', o, "INVENTORY")
    BY DEF Covering, HasSet, Belongs
  <2>2. ~Cached(i) /\ Written(i)' = Written(i)
    BY <1>3, <2>1 DEF NeedQuery
  <2> QED BY <2>1, <2>2, StoreParts DEF Covering
<1>9. InStep'
  BY <1>5, StoreParts DEF InStep
<1> QED BY <1>2, <1>5, <1>6, <1>7, <1>8, <1>9 DEF Sound

\* The set of a player is written and evicted, when no item the player gave
\* away is still the player's in SQL.
LEMMA EvictStep ==
    ASSUME StoreInv, NEW p \in Player, HasSet(set, p), ~Lagging(p),
           cache' = [i \in Item |-> IF i \in set[p] THEN NoEntry ELSE cache[i]],
           set' = [set EXCEPT ![p] = NoSet],
           NEW more \in Seq(Query), Send(more), table' = table,
           \A n \in 1 .. Len(more) : more[n].op \notin SelectOp,
           \A i \in Item : Written(i)' = IF i \in set[p] /\ NeedQuery(i)
                                         THEN EntryRow(cache[i]) ELSE Written(i),
           playerCache' = playerCache \ {p}, UNCHANGED <<view, phase, results>>
    PROVE  Sound' /\ (\A i \in Item : Stored(i)' = Stored(i)) /\ view' = view
<1>1. LessResults /\ \A o \in Player : UnderWay(Loads(o))' => UnderWay(Loads(o))
  BY WriteAsks
<1>2. set[p] \in SUBSET Item
  BY StoreTypes DEF Sets, HasSet
<1>3. CurrentSql' /\ CurrentResults'
  BY <1>1, <1>2, CurrentFlushed
<1>4. /\ ~HasSet(set', p)
      /\ \A o \in Player : o # p => set'[o] = set[o]
  BY StoreTypes DEF HasSet, Sets
<1>5. ASSUME NEW i \in Item, i \in set[p]
      PROVE  /\ Cached(i) /\ cache[i].row.owner = p /\ ~Cached(i)'
             /\ Written(i)' = EntryRow(cache[i])
  <2>1. Cached(i) /\ cache[i].row.owner = p /\ ~Cached(i)'
    BY <1>5, StoreParts, TypeParts DEF SetsAgree, Cached
  <2> QED BY <1>5, <2>1, StoreParts DEF Resolved
<1>6. ASSUME NEW i \in Item, i \notin set[p]
      PROVE  /\ cache'[i] = cache[i] /\ Written(i)' = Written(i) /\ Cached(i)' = Cached(i)
             /\ NeedQuery(i)' = NeedQuery(i)
             /\ Cached(i) => cache[i].row.owner # p
  <2>1. Cached(i) => cache[i].row.owner # p
    BY <1>6, StoreParts DEF Whole, Cached
  <2> QED BY <1>6, <2>1 DEF Cached, NeedQuery
<1>7. \A i \in Item : Stored(i)' = Stored(i)
  <2>1. SUFFICES ASSUME NEW i \in Item PROVE Stored(i)' = Stored(i)
    OBVIOUS
  <2>2. CASE i \in set[p]
    <3>1. Stored(i)' = Written(i)'
      BY <1>5, <2>2 DEF Stored
    <3> QED BY <1>5, <2>2, <3>1, StoredCases
  <2>3. CASE i \notin set[p]
    BY <1>6, <2>3 DEF Stored
  <2> QED BY <2>2, <2>3
<1>8. Resolved'
  <2>1. SUFFICES ASSUME NEW i \in Item, Cached(i)'
                 PROVE  /\ NeedQuery(i)' => ~cache'[i].deleted
                        /\ ~NeedQuery(i)' => Written(i)' = EntryRow(cache'[i])
                        /\ Written(i)' # NoRow => Written(i)'.window = "INVENTORY"
    BY DEF Resolved, EntryRow
  <2> QED BY <1>5, <1>6, <2>1, StoreParts DEF Resolved
<1>9. Settling'
  <2>1. ASSUME NEW o \in Player, Asking(o)' PROVE Settled(o)'
    <3>1. ASSUME NEW i \in Item, NeedQuery(i)'
          PROVE  i \notin set[p] /\ NeedQuery(i) /\ Cached(i)
      BY <1>5, <1>6, <3>1 DEF NeedQuery
    <3>2. ASSUME NEW i \in Item, NeedQuery(i)'
          PROVE  cache[i].row.owner # o /\ (Written(i) # NoRow => Written(i).owner # o)
      <4>1. CASE o = p
        BY <1>6, <3>1, <3>2, <4>1 DEF Lagging
      <4>2. CASE o # p
        <5>1. Asking(o)
          BY <1>1, <1>4, <2>1, <4>2 DEF Asking, HasSet
        <5> QED BY <3>1, <3>2, <5>1, StoreParts DEF Settling, Settled
      <4> QED BY <4>1, <4>2
    <3>3. ASSUME NEW i \in Item, NeedQuery(i)'
          PROVE  cache'[i].row.owner # o /\ (Written(i)' # NoRow => Written(i)'.owner # o)
      BY <1>6, <3>1, <3>2, <3>3
    <3> QED BY <3>3 DEF Settled
  <2> QED BY <2>1 DEF Settling
<1>10. Covering'
  <2>1. SUFFICES ASSUME NEW o \in Player, NEW i \in Item, HasSet(set', o), ~Cached(i)'
                 PROVE  ~Belongs(Written(i)', o, "INVENTORY")
    BY DEF Covering, HasSet, Belongs
  <2>2. o # p /\ HasSet(set, o)
    BY <1>4, <2>1 DEF HasSet
  <2>3. CASE i \in set[p]
    BY <1>5, <2>2, <2>3 DEF Belongs, EntryRow
  <2>4. CASE i \notin set[p]
    BY <1>6, <2>1, <2>2, <2>4, StoreParts DEF Covering
  <2> QED BY <2>3, <2>4
<1>11. InStep'
  BY <1>7, StoreParts DEF InStep
<1> QED BY <1>3, <1>7, <1>8, <1>9, <1>10, <1>11 DEF Sound

\* A player who has no set is forgotten.
LEMMA ForgetStep ==
    ASSUME StoreInv, NEW p \in Player, ~HasSet(set, p),
           UNCHANGED <<cache, set, sql, view, phase, results, table>>,
           playerCache' = playerCache \ {p}
    PROVE  Sound' /\ (\A i \in Item : Stored(i)' = Stored(i)) /\ view' = view
<1>1. LessResults
  BY StoreParts, ResultsLess
<1>2. (\A i \in Item : Written(i)' = Written(i)) /\ CurrentSql' /\ CurrentResults'
  BY <1>1, HandledStep
<1>3. ASSUME NEW o \in Player, Asking(o)' PROVE Settled(o)
  <2>1. UnderWay(Loads(o))' => UnderWay(Loads(o))
    BY QueuesKeep
  <2>2. Asking(o)
    BY <1>3, <2>1 DEF Asking, HasSet
  <2> QED BY <2>2, StoreParts DEF Settling
<1>4. UNCHANGED cacheVars
  BY DEF cacheVars
<1> QED BY <1>2, <1>3, <1>4, QuietStep

\* The timers of the DB server, and QUERY_FLUSH_CACHE.
LEMMA SoundFlush ==
    ASSUME StoreInv, Faults = {},
           \/ \E i \in Item : UpdateItemCache(i)
           \/ \E p \in Player :
                  UpdatePlayerCache(p) \/ UpdateLogoutPlayer(p) \/ QUERY_FLUSH_CACHE(p)
    PROVE  Sound' /\ (\A i \in Item : Stored(i)' = Stored(i)) /\ view' = view
<1>1. cache \in Caches /\ table \in Table /\ IInv
  BY StoreParts, TypeParts
<1>2. ASSUME NEW p \in Player, HasSet(set, p) PROVE set[p] \in SUBSET Item
  BY <1>2, StoreTypes DEF Sets, HasSet
<1>3. ASSUME NEW i \in Item, UpdateItemCache(i)
      PROVE  Sound' /\ (\A j \in Item : Stored(j)' = Stored(j)) /\ view' = view
  <2>1. /\ NeedQuery(i) /\ Cached(i) /\ Send(<<OnFlush(i)>>) /\ cache' = Flushed({i})
        /\ UNCHANGED <<view, set, playerCache, phase, results, table>>
    BY <1>3 DEF UpdateItemCache, NeedQuery, gameVars, playerVars
  <2>2. OnFlush(i) \in Query /\ OnFlush(i).op \notin SelectOp
    BY <1>1, <2>1, OnFlushType, OnFlushTouches
  <2>3. <<OnFlush(i)>> \in Seq(Query)
           /\ \A n \in 1 .. Len(<<OnFlush(i)>>) : <<OnFlush(i)>>[n].op \notin SelectOp
    BY <2>2, OneWrite
  <2>4. \A j \in Item : Written(j)' = IF Touches(OnFlush(i), j) THEN RowOf(OnFlush(i))
                                      ELSE Written(j)
    BY <1>1, <2>1, <2>2, WrittenOne
  <2>5. \A j \in Item : Written(j)' = IF j \in {i} /\ NeedQuery(j)
                                      THEN EntryRow(cache[j]) ELSE Written(j)
    BY <2>1, <2>4, OnFlushTouches
  <2> QED BY <2>1, <2>3, <2>5, FlushStep
<1>4. ASSUME NEW p \in Player, UpdatePlayerCache(p)
      PROVE  Sound' /\ (\A j \in Item : Stored(j)' = Stored(j)) /\ view' = view
  <2>1. PICK queries \in FlushQueries(set[p]) : Send(queries)
    BY <1>4 DEF UpdatePlayerCache
  <2>2. /\ set[p] \in SUBSET Item /\ cache' = Flushed(set[p])
        /\ UNCHANGED <<view, set, playerCache, phase, results, table>>
    BY <1>2, <1>4 DEF UpdatePlayerCache, gameVars, playerVars
  <2>3. queries \in Seq(Query) /\ \A n \in 1 .. Len(queries) : queries[n].op \notin SelectOp
    BY <1>1, <2>1, <2>2, FlushWrites
  <2>4. \A j \in Item : Written(j)' = IF j \in set[p] /\ NeedQuery(j)
                                      THEN EntryRow(cache[j]) ELSE Written(j)
    BY <1>1, <2>1, <2>2, WrittenFlushed
  <2> QED BY <2>1, <2>2, <2>3, <2>4, FlushStep
<1>5. ASSUME NEW p \in Player, UpdateLogoutPlayer(p) \/ QUERY_FLUSH_CACHE(p)
      PROVE  Sound' /\ (\A j \in Item : Stored(j)' = Stored(j)) /\ view' = view
  <2>1. /\ ~Lagging(p) /\ FlushItemCacheSet(p) /\ playerCache' = playerCache \ {p}
        /\ UNCHANGED <<view, phase, results, table>>
    BY <1>5 DEF UpdateLogoutPlayer, QUERY_FLUSH_CACHE, gameVars
  <2>2. CASE ~HasSet(set, p)
    BY <2>1, <2>2, ForgetStep DEF FlushItemCacheSet
  <2>3. CASE HasSet(set, p)
    <3>1. PICK queries \in FlushQueries(set[p]) : Send(queries)
      BY <2>1, <2>3 DEF FlushItemCacheSet
    <3>2. /\ set[p] \in SUBSET Item /\ set' = [set EXCEPT ![p] = NoSet]
          /\ cache' = [i \in Item |-> IF i \in set[p] THEN NoEntry ELSE cache[i]]
      BY <1>2, <2>1, <2>3 DEF FlushItemCacheSet
    <3>3. queries \in Seq(Query) /\ \A n \in 1 .. Len(queries) : queries[n].op \notin SelectOp
      BY <1>1, <3>1, <3>2, FlushWrites
    <3>4. \A j \in Item : Written(j)' = IF j \in set[p] /\ NeedQuery(j)
                                        THEN EntryRow(cache[j]) ELSE Written(j)
      BY <1>1, <2>1, <3>1, <3>2, WrittenFlushed
    <3> QED BY <2>1, <2>3, <3>1, <3>2, <3>3, <3>4, EvictStep
  <2> QED BY <2>2, <2>3
<1> QED BY <1>3, <1>4, <1>5

\* The DB server ends: every entry is written.
LEMMA SoundDbEnd ==
    ASSUME StoreInv, DbEnd
    PROVE  Sound' /\ (\A i \in Item : Stored(i)' = Stored(i)) /\ view' = view
<1>1. PICK queries \in FlushQueries(Item) : Send(queries)
  BY DEF DbEnd
<1>2. /\ cache' = [i \in Item |-> NoEntry] /\ set' = [p \in Player |-> NoSet]
      /\ results' = Voided(results) /\ UNCHANGED <<view, table>>
  BY DEF DbEnd, gameVars
<1>3. cache \in Caches /\ table \in Table /\ IInv /\ Item \in SUBSET Item
  BY StoreParts, TypeParts
<1>4. queries \in Seq(Query) /\ \A n \in 1 .. Len(queries) : queries[n].op \notin SelectOp
  BY <1>1, <1>3, FlushWrites
<1>5. \A i \in Item : Written(i)' = IF i \in Item /\ NeedQuery(i)
                                    THEN EntryRow(cache[i]) ELSE Written(i)
  BY <1>1, <1>2, <1>3, WrittenFlushed
<1>6. LessResults
  BY <1>2, <1>3, ResultsLess
<1>7. CurrentSql' /\ CurrentResults'
  BY <1>1, <1>2, <1>3, <1>4, <1>5, <1>6, CurrentFlushed
<1>8. \A i \in Item : ~Cached(i)' /\ ~NeedQuery(i)'
  BY <1>2 DEF Cached, NeedQuery
<1>9. \A i \in Item : Stored(i)' = Stored(i)
  <2>1. SUFFICES ASSUME NEW i \in Item PROVE Stored(i)' = Stored(i)
    OBVIOUS
  <2>2. Stored(i)' = Written(i)'
    BY <1>8 DEF Stored
  <2>3. CASE Cached(i)
    BY <1>5, <2>2, <2>3, StoredCases, StoreParts DEF Resolved
  <2>4. CASE ~Cached(i)
    BY <1>5, <2>2, <2>4, StoredCases DEF NeedQuery
  <2> QED BY <2>3, <2>4
<1>10. Resolved' /\ Settling'
  BY <1>8 DEF Resolved, Settling, Settled
<1>11. Covering'
  BY <1>2 DEF Covering, HasSet
<1>12. InStep'
  BY <1>2, <1>9, StoreParts DEF InStep
<1> QED BY <1>2, <1>7, <1>9, <1>10, <1>11, <1>12 DEF Sound

-----------------------------------------------------------------------------
(* The game core changes an item.                                          *)

\* A step that changes one item: i.
LEMMA ItemStep ==
    ASSUME StoreInv, NEW i \in Item,
           NEW more \in Seq(Query), Send(more), table' = table, results' = results,
           \A n \in 1 .. Len(more) : more[n].op \notin SelectOp,
           UNCHANGED <<phase, playerCache>>,
           \A j \in Item : j # i =>
               cache'[j] = cache[j] /\ Written(j)' = Written(j) /\ view'[j] = view[j],
           \A o \in Player : HasSet(set', o) <=> HasSet(set, o),
           Written(i)' = Written(i) \/ (Aside(Written(i)) /\ Aside(Written(i)')),
           NeedQuery(i)' => ~cache'[i].deleted,
           Cached(i)' /\ ~NeedQuery(i)' => Written(i)' = EntryRow(cache'[i]),
           Cached(i)' /\ Written(i)' # NoRow => Written(i)'.window = "INVENTORY",
           NeedQuery(i)' => \A o \in Player : Asking(o) =>
               cache'[i].row.owner # o /\ (Written(i)' # NoRow => Written(i)'.owner # o),
           ~Cached(i)' => \A o \in Player : HasSet(set, o) => ~Belongs(Written(i)', o, "INVENTORY"),
           \/ view'[i] = Loose /\ Stored(i)' = NoRow
           \/ view'[i] \in Row /\ Stored(i)' = view'[i]
    PROVE  Sound' /\ \A j \in Item : j # i => Stored(j)' = Stored(j)
<1>1. LessResults /\ \A o \in Player : UnderWay(Loads(o))' => UnderWay(Loads(o))
  BY WriteAsks
<1>2. \A j \in Item : Written(j)' = Written(j) \/ (Aside(Written(j)) /\ Aside(Written(j)'))
  OBVIOUS
<1>3. CurrentSql' /\ CurrentResults'
  BY <1>1, <1>2, StoreParts, CurrentSqlSent, CurrentResultsKept
<1>4. ASSUME NEW j \in Item, j # i
      PROVE  /\ Stored(j)' = Stored(j) /\ Cached(j)' = Cached(j) /\ NeedQuery(j)' = NeedQuery(j)
             /\ cache'[j] = cache[j] /\ Written(j)' = Written(j)
  BY <1>4 DEF Stored, Cached, NeedQuery
<1>5. Resolved'
  <2>1. SUFFICES ASSUME NEW j \in Item, Cached(j)'
                 PROVE  /\ NeedQuery(j)' => ~cache'[j].deleted
                        /\ ~NeedQuery(j)' => Written(j)' = EntryRow(cache'[j])
                        /\ Written(j)' # NoRow => Written(j)'.window = "INVENTORY"
    BY DEF Resolved, EntryRow
  <2>2. CASE j = i
    BY <2>1, <2>2
  <2>3. CASE j # i
    BY <1>4, <2>1, <2>3, StoreParts DEF Resolved
  <2> QED BY <2>2, <2>3
<1>6. Settling'
  <2>1. ASSUME NEW o \in Player, Asking(o)' PROVE Settled(o)'
    <3>1. Asking(o)
      BY <1>1, <2>1 DEF Asking, HasSet
    <3>2. Settled(o)
      BY <3>1, StoreParts DEF Settling
    <3>3. ASSUME NEW j \in Item, NeedQuery(j)'
          PROVE  cache'[j].row.owner # o /\ (Written(j)' # NoRow => Written(j)'.owner # o)
      <4>1. CASE j = i
        BY <3>1, <3>3, <4>1
      <4>2. CASE j # i
        BY <1>4, <3>2, <3>3, <4>2 DEF Settled
      <4> QED BY <4>1, <4>2
    <3> QED BY <3>3 DEF Settled
  <2> QED BY <2>1 DEF Settling
<1>7. Covering'
  <2>1. SUFFICES ASSUME NEW o \in Player, NEW j \in Item, HasSet(set', o), ~Cached(j)'
                 PROVE  ~Belongs(Written(j)', o, "INVENTORY")
    BY DEF Covering, HasSet, Belongs
  <2>2. HasSet(set, o)
    BY <2>1
  <2>3. CASE j = i
    BY <2>1, <2>2, <2>3
  <2>4. CASE j # i
    BY <1>4, <2>1, <2>2, <2>4, StoreParts DEF Covering
  <2> QED BY <2>3, <2>4
<1>8. InStep'
  <2>1. SUFFICES ASSUME NEW j \in Item
                 PROVE  \/ view'[j] = Offline
                        \/ view'[j] = Loose /\ Stored(j)' = NoRow
                        \/ view'[j] \in Row /\ Stored(j)' = view'[j]
    BY DEF InStep
  <2> QED BY <1>4, StoreParts DEF InStep
<1> QED BY <1>3, <1>4, <1>5, <1>6, <1>7, <1>8 DEF Sound

\* Nothing is asked from SQL for who plays.
LEMMA PlaysAlone ==
    ASSUME StoreInv, NEW p \in Player, phase[p] = "game"
    PROVE  /\ HasSet(set, p) /\ ~Asking(p) /\ ~UnderWay(Loads(p))
           /\ box[p] = "open" => ~UnderWay(Boxes(p))
<1>1. HasSet(set, p) /\ ~UnderWay(Loads(p))
  BY StoreParts DEF Present, Turns
<1>2. box[p] = "open" => ~UnderWay(Boxes(p))
  BY StoreParts DEF Opened
<1> QED BY <1>1, <1>2 DEF Asking

\* The row of an item that is in the game, as SQL will have it.
LEMMA HeldWritten ==
    ASSUME StoreInv, NEW i \in Item, view[i] # Offline
    PROVE  /\ ~NeedQuery(i) => Written(i) = Stored(i)
           /\ Aside(Written(i))
           /\ \A o \in Player : Asking(o) => (Written(i) # NoRow /\ Written(i).window = "INVENTORY"
                                                => Written(i).owner # o)
<1>1. ~NeedQuery(i) => Written(i) = Stored(i)
  BY StoredCases, StoreParts DEF Resolved
<1>2. /\ view[i] = Loose => Stored(i) = NoRow
      /\ view[i] # Loose => view[i] \in Row /\ Stored(i) = view[i]
  BY StoreParts, MarkAssumption DEF InStep
<1>3. CASE NeedQuery(i)
  <2>1. Aside(Written(i))
    BY <1>3, FlushAside
  <2>2. \A o \in Player : Asking(o) => (Written(i) # NoRow => Written(i).owner # o)
    BY <1>3, StoreParts DEF Settling, Settled
  <2> QED BY <1>1, <2>1, <2>2
<1>4. CASE ~NeedQuery(i) /\ view[i] = Loose
  BY <1>1, <1>2, <1>4 DEF Aside, Belongs
<1>5. CASE ~NeedQuery(i) /\ view[i] # Loose
  <2>1. Written(i) = view[i] /\ view[i] \in Row
    BY <1>1, <1>2, <1>5
  <2>2. view[i].owner \in Player /\ view[i].window \in {"INVENTORY", "SAFEBOX"}
    BY <2>1, StoreTypes
  <2>3. CASE view[i].window = "INVENTORY"
    <3>1. phase[view[i].owner] = "game"
      BY <2>1, <2>3, StoreParts DEF Shown
    <3>2. ~UnderWay(Loads(view[i].owner)) /\ ~Asking(view[i].owner)
      BY <2>2, <3>1, PlaysAlone
    <3> QED BY <1>1, <2>1, <2>3, <3>2 DEF Aside, Belongs
  <2>4. CASE view[i].window = "SAFEBOX"
    <3>1. box[view[i].owner] = "open"
      BY <2>1, <2>4, StoreParts DEF Shown
    <3>2. phase[view[i].owner] = "game"
      BY <2>2, <3>1, StoreParts DEF Up
    <3>3. ~UnderWay(Boxes(view[i].owner))
      BY <2>2, <3>1, <3>2, PlaysAlone
    <3> QED BY <1>1, <2>1, <2>4, <3>3 DEF Aside, Belongs
  <2> QED BY <2>2, <2>3, <2>4
<1> QED BY <1>3, <1>4, <1>5

\* PutItemCache of one row whose owner has a set.
OneRow(i, row) == [id \in {i} |-> row]

LEMMA PutOne ==
    ASSUME StoreInv, NEW i \in Item, NEW row \in Row, HasSet(set, row.owner)
    PROVE  LET entries == Put(set, OneRow(i, row), FALSE)
           IN  /\ entries \in Caches /\ entries[i] \in Entry
               /\ entries[i].row = row /\ entries[i].deleted = FALSE
               /\ entries[i].m_bNeedQuery
               /\ \A j \in Item : j # i => entries[j] = cache[j]
               /\ \A o \in Player : HasSet(PutInSets(set, OneRow(i, row)), o) <=> HasSet(set, o)
<1> DEFINE rows == OneRow(i, row)
           entries == Put(set, rows, FALSE)
<1>1. rows \in Rows /\ DOMAIN rows = {i} /\ rows[i] = row
  BY OneRowType DEF OneRow
<1>2. \A j \in DOMAIN rows : j \in Item
  BY <1>1
<1> HIDE DEF rows
<1>3. entries = Put(set, rows, FALSE)
  OBVIOUS
<1> HIDE DEF entries
<1>4. entries[i] = PutEntry(set, i, row, FALSE) /\ \A j \in Item : j # i => entries[j] = cache[j]
  BY <1>1, <1>3 DEF Put
<1>5. /\ PutEntry(set, i, row, FALSE).row = row /\ PutEntry(set, i, row, FALSE).deleted = FALSE
      /\ PutEntry(set, i, row, FALSE).m_bNeedQuery = TRUE
  BY DEF PutEntry
<1>6. entries \in Caches /\ entries[i] \in Entry
  <2>1. entries \in Caches
    BY <1>1, <1>3, StoreTypes, PutType
  <2>2. entries[i] \in Entry
    BY <1>4, StoreTypes, PutEntryType
  <2> QED BY <2>1, <2>2
<1>7. \A o \in Player : HasSet(PutInSets(set, rows), o) <=> HasSet(set, o)
  BY <1>1, <1>2, StoreTypes, MarkAssumption DEF HasSet, PutInSets, Sets
<1> QED BY <1>4, <1>5, <1>6, <1>7, MarkAssumption DEF rows, entries

\* What a save does to the store and the game.
SaveOf(i, row) ==
    /\ view[i] # Offline /\ view' = [view EXCEPT ![i] = row]
    /\ Stored(i)' = row /\ \A j \in Item : j # i => Stored(j)' = Stored(j)

\* An item enters the inventory of a player who plays.
LEMMA SoundSaveItem ==
    ASSUME StoreInv, Faults = {}, NEW p \in Player, NEW i \in Item, NEW d \in Data,
           SaveItem(p, i, d)
    PROVE  Sound' /\ SaveOf(i, Inventory(p, d))
<1> DEFINE row == Inventory(p, d)
<1>1. /\ phase[p] = "game" /\ Holds(i, row)
      /\ view[i] = Loose \/ (view[i] \in Row /\ view[i].window = "INVENTORY")
      /\ cache' = Put(set, OneRow(i, row), FALSE)
      /\ set' = PutInSets(set, OneRow(i, row)) /\ Send(DirectSave(set, i, row))
      /\ UNCHANGED <<phase, playerCache, results, table>>
  BY DEF SaveItem, Handles, playerVars, OneRow
<1>2. row \in Row /\ row.owner = p
  BY RowType DEF Inventory
<1> HIDE DEF row
<1>3. HasSet(set, row.owner) /\ HasSet(set, p) /\ ~Asking(p) /\ view[i] # Offline
  BY <1>1, <1>2, PlaysAlone, MarkAssumption, StoreTypes
<1>4. Send(<<>>) /\ <<>> \in Seq(Query) /\ \A n \in 1 .. Len(<<>>) : <<>>[n].op \notin SelectOp
  BY <1>1, <1>2, <1>3, NoWrite DEF DirectSave
<1>5. \A j \in Item : Written(j)' = Written(j)
  BY <1>1, <1>4, StoreParts, WrittenSame
<1> DEFINE entries == Put(set, OneRow(i, row), FALSE)
           more == <<>>
<1>5a. /\ entries[i] \in Entry /\ entries[i].row = row /\ entries[i].deleted = FALSE
       /\ \A o \in Player : HasSet(PutInSets(set, OneRow(i, row)), o) <=> HasSet(set, o)
  BY <1>2, <1>3, PutOne
<1>5d. \A j \in Item : j # i => entries[j] = cache[j]
  BY DEF Put, OneRow
<1>5e. \A o \in Player : HasSet(set', o) <=> HasSet(set, o)
  BY <1>1, <1>5a
<1>5b. entries[i].m_bNeedQuery /\ cache' = entries
  BY <1>1, <1>2, <1>3, PutOne
<1>5c. more \in Seq(Query) /\ Send(more) /\ \A n \in 1 .. Len(more) : more[n].op \notin SelectOp
  BY <1>4
<1> HIDE DEF entries, more
<1>6. /\ cache'[i] # NoEntry /\ cache'[i].row = row /\ cache'[i].deleted = FALSE
      /\ cache'[i].m_bNeedQuery
      /\ \A j \in Item : j # i => cache'[j] = cache[j]
      /\ \A o \in Player : HasSet(set', o) <=> HasSet(set, o)
  BY <1>5a, <1>5b, <1>5d, <1>5e, MarkAssumption
<1>7. view' = [view EXCEPT ![i] = row] /\ view'[i] = row
         /\ \A j \in Item : j # i => view'[j] = view[j]
  BY <1>1, StoreTypes DEF Holds, View
<1>8. Cached(i)' /\ NeedQuery(i)' /\ Stored(i)' = row
  BY <1>6 DEF Cached, NeedQuery, Stored
<1>9. Written(i) # NoRow => Written(i).window = "INVENTORY"
  <2>1. CASE Cached(i)
    BY <2>1, StoreParts DEF Resolved
  <2>2. CASE ~Cached(i)
    <3>1. Stored(i) = NoRow \/ Stored(i) = view[i]
      BY <1>1, <1>3, StoreParts, StoreTypes DEF InStep
    <3>2. view[i] = Loose => Stored(i) = NoRow
      BY StoreParts, StoreTypes, MarkAssumption DEF InStep
    <3> QED BY <1>1, <2>2, <3>1, <3>2, StoredCases
  <2> QED BY <2>1, <2>2
<1>10. \A o \in Player : Asking(o) => row.owner # o /\ (Written(i) # NoRow => Written(i).owner # o)
  BY <1>2, <1>3, <1>9, HeldWritten
<1>11. Sound' /\ \A j \in Item : j # i => Stored(j)' = Stored(j)
  <2>1. /\ table' = table /\ results' = results /\ UNCHANGED <<phase, playerCache>>
        /\ Written(i)' = Written(i)
        /\ \A j \in Item : j # i =>
               cache'[j] = cache[j] /\ Written(j)' = Written(j) /\ view'[j] = view[j]
    BY <1>1, <1>5, <1>6, <1>7
  <2>2. ~cache'[i].deleted /\ (Written(i)' # NoRow => Written(i)'.window = "INVENTORY")
    BY <1>6, <1>9, <2>1
  <2>3. \A o \in Player : Asking(o) =>
            cache'[i].row.owner # o /\ (Written(i)' # NoRow => Written(i)'.owner # o)
    BY <1>6, <1>10, <2>1
  <2>4. view'[i] \in Row /\ Stored(i)' = view'[i]
    BY <1>2, <1>7, <1>8
  <2> QED BY <1>5c, <1>6, <1>8, <2>1, <2>2, <2>3, <2>4, ItemStep
<1> QED BY <1>3, <1>7, <1>8, <1>11 DEF SaveOf, row

\* An item leaves the safebox.
LEMMA SoundCheckout ==
    ASSUME StoreInv, NEW p \in Player, NEW i \in Item, SafeboxCheckout(p, i)
    PROVE  Sound' /\ SaveOf(i, Inventory(p, view[i].data)) /\ Inventory(p, view[i].data) \in Row
<1> DEFINE row == Inventory(p, view[i].data)
           entries == Put(set, OneRow(i, row), FALSE)
<1>1. /\ phase[p] = "game" /\ box[p] = "open" /\ Holds(i, row)
      /\ view[i] \in Row /\ view[i] = Safebox(p, view[i].data)
      /\ cache' = [entries EXCEPT ![i].m_bNeedQuery = FALSE]
      /\ set' = PutInSets(set, OneRow(i, row)) /\ Send(<<Replace(i, row)>>)
      /\ UNCHANGED <<phase, playerCache, results, table>>
  BY DEF SafeboxCheckout, CheckoutFlush, playerVars, OneRow
<1>2. row \in Row /\ row.owner = p /\ row.window = "INVENTORY"
         /\ view[i].owner = p /\ view[i].window = "SAFEBOX"
  <2>1. view[i].data \in Data
    BY <1>1 DEF Row
  <2>2. view[i].owner = p /\ view[i].window = "SAFEBOX"
    BY <1>1 DEF Safebox
  <2> QED BY <2>1, <2>2, RowType DEF Inventory
<1>3. /\ HasSet(set, row.owner) /\ ~Asking(p) /\ ~UnderWay(Loads(p)) /\ view[i] # Offline
  BY <1>1, <1>2, PlaysAlone, StoreTypes
<1> HIDE DEF row
<1>4. /\ entries \in Caches /\ entries[i] \in Entry
      /\ entries[i].row = row /\ entries[i].deleted = FALSE
      /\ \A j \in Item : j # i => entries[j] = cache[j]
      /\ \A o \in Player : HasSet(set', o) <=> HasSet(set, o)
  BY <1>1, <1>2, <1>3, PutOne
<1>5. /\ Replace(i, row) \in Query /\ Replace(i, row).op \notin SelectOp
      /\ Touches(Replace(i, row), i) /\ RowOf(Replace(i, row)) = row
      /\ \A j \in Item : Touches(Replace(i, row), j) => j = i
  BY <1>2, WriteOps DEF Touches, RowOf, Replace
<1> HIDE DEF row, entries
<1>6. /\ cache'[i] \in Entry
      /\ cache'[i].row = row /\ cache'[i].deleted = FALSE /\ cache'[i].m_bNeedQuery = FALSE
      /\ \A j \in Item : j # i => cache'[j] = cache[j]
  BY <1>1, <1>4 DEF Caches, Entry
<1>7. Written(i)' = row /\ \A j \in Item : j # i => Written(j)' = Written(j)
  BY <1>1, <1>5, StoreParts, WrittenOne
<1>8. view' = [view EXCEPT ![i] = row] /\ view'[i] = row
         /\ \A j \in Item : j # i => view'[j] = view[j]
  BY <1>1, StoreTypes DEF Holds, View
<1>9. Cached(i)' /\ ~NeedQuery(i)' /\ Stored(i)' = row /\ EntryRow(cache'[i]) = row
  BY <1>6, MarkAssumption DEF Cached, NeedQuery, Stored, EntryRow
<1>10. Aside(Written(i)) /\ Aside(row)
  BY <1>2, <1>3, HeldWritten DEF Aside, Belongs
<1>11. <<Replace(i, row)>> \in Seq(Query)
          /\ \A n \in 1 .. Len(<<Replace(i, row)>>) : <<Replace(i, row)>>[n].op \notin SelectOp
  BY <1>5, OneWrite
<1>12. Sound' /\ \A j \in Item : j # i => Stored(j)' = Stored(j)
  BY <1>1, <1>2, <1>4, <1>6, <1>7, <1>8, <1>9, <1>10, <1>11, ItemStep
<1> QED BY <1>2, <1>3, <1>8, <1>9, <1>12 DEF SaveOf, row

\* An item enters the safebox, or changes in it.
LEMMA SoundSaveSafeboxItem ==
    ASSUME StoreInv, NEW p \in Player, NEW i \in Item, NEW d \in Data, SaveSafeboxItem(p, i, d)
    PROVE  Sound' /\ SaveOf(i, Safebox(p, d))
<1> DEFINE row == Safebox(p, d)
<1>1. /\ phase[p] = "game" /\ box[p] = "open" /\ Holds(i, row) /\ view[i] \in Row
      /\ cache' = [cache EXCEPT ![i] = NoEntry]
      /\ set' = IF Cached(i) /\ HasSet(set, cache[i].row.owner)
                THEN [set EXCEPT ![cache[i].row.owner] = @ \ {i}] ELSE set
      /\ Send(<<Replace(i, row)>>) /\ UNCHANGED <<phase, playerCache, results, table>>
  BY DEF SaveSafeboxItem, WithoutEntry, playerVars
<1>2. row \in Row /\ row.owner = p /\ row.window = "SAFEBOX"
  BY RowType DEF Safebox
<1>3. /\ ~UnderWay(Boxes(p)) /\ view[i] # Offline
  BY <1>1, PlaysAlone, StoreTypes
<1>4. /\ Replace(i, row) \in Query /\ Replace(i, row).op \notin SelectOp
      /\ Touches(Replace(i, row), i) /\ RowOf(Replace(i, row)) = row
      /\ \A j \in Item : Touches(Replace(i, row), j) => j = i
  BY <1>2, WriteOps DEF Touches, RowOf, Replace
<1> HIDE DEF row
<1>5. cache'[i] = NoEntry /\ \A j \in Item : j # i => cache'[j] = cache[j]
  BY <1>1, StoreTypes DEF Caches
<1>6. Written(i)' = row /\ \A j \in Item : j # i => Written(j)' = Written(j)
  BY <1>1, <1>4, StoreParts, WrittenOne
<1>7. view' = [view EXCEPT ![i] = row] /\ view'[i] = row
         /\ \A j \in Item : j # i => view'[j] = view[j]
  BY <1>1, StoreTypes DEF Holds, View
<1>8. ~Cached(i)' /\ ~NeedQuery(i)' /\ Stored(i)' = row
  BY <1>5, <1>6 DEF Cached, NeedQuery, Stored
<1>9. Aside(Written(i)) /\ Aside(row)
  BY <1>2, <1>3, HeldWritten DEF Aside, Belongs
<1>10. \A o \in Player : HasSet(set', o) <=> HasSet(set, o)
  <2>1. ASSUME NEW o \in Player PROVE HasSet(set', o) <=> HasSet(set, o)
    <3>1. HasSet(set, o) => set[o] \ {i} \in SUBSET Item
      BY StoreTypes DEF Sets, HasSet
    <3>2. set'[o] = set[o] \/ (HasSet(set, o) /\ set'[o] = set[o] \ {i})
      BY <1>1, StoreTypes DEF Sets
    <3> QED BY <3>1, <3>2, MarkAssumption DEF HasSet
  <2> QED BY <2>1
<1>11. <<Replace(i, row)>> \in Seq(Query)
          /\ \A n \in 1 .. Len(<<Replace(i, row)>>) : <<Replace(i, row)>>[n].op \notin SelectOp
  BY <1>4, OneWrite
<1>12. \A o \in Player : ~Belongs(Written(i)', o, "INVENTORY")
  BY <1>2, <1>6 DEF Belongs
<1>13. Sound' /\ \A j \in Item : j # i => Stored(j)' = Stored(j)
  BY <1>1, <1>2, <1>5, <1>6, <1>7, <1>8, <1>9, <1>10, <1>11, <1>12, ItemStep
<1> QED BY <1>3, <1>7, <1>8, <1>13 DEF SaveOf, row

\* An item is destroyed: what is left of it in the cache is an entry without a
\* row.
DestroyOf(i) ==
    /\ view[i] # Offline /\ view' = [view EXCEPT ![i] = Loose]
    /\ Stored(i)' = NoRow /\ \A j \in Item : j # i => Stored(j)' = Stored(j)

LEMMA SoundDestroy ==
    ASSUME StoreInv, Faults = {}, NEW i \in Item, DestroyItem(i)
    PROVE  Sound' /\ DestroyOf(i) /\ async' = async
<1>1. /\ view[i] # Offline /\ Holds(i, Loose)
      /\ UNCHANGED <<phase, playerCache, set, results, table>>
  BY DEF DestroyItem, playerVars
<1>2. /\ Delete(i) \in Query /\ Delete(i).op \notin SelectOp
      /\ Touches(Delete(i), i) /\ RowOf(Delete(i)) = NoRow
      /\ \A j \in Item : Touches(Delete(i), j) => j = i
  BY QueryType DEF Touches, RowOf, Delete, SelectOp
<1>3. view' = [view EXCEPT ![i] = Loose] /\ view'[i] = Loose
         /\ \A j \in Item : j # i => view'[j] = view[j]
  BY <1>1, StoreTypes DEF Holds, View
<1>4. \/ /\ ~Cached(i) /\ cache' = cache /\ Send(<<Delete(i)>>) /\ async' = async
      \/ /\ Cached(i) /\ async' = async
         /\ cache' = [cache EXCEPT ![i].deleted = TRUE,
                                   ![i].m_bNeedQuery = @ /\ cache[i].deleted]
         /\ \/ cache[i].deleted /\ Send(<<>>)
            \/ ~cache[i].deleted /\ Send(<<Delete(i)>>)
  <2>1. CASE Cached(i)
    BY <2>1 DEF DestroyItem
  <2>2. CASE ~Cached(i)
    BY <2>2 DEF DestroyItem, DeleteUncached
  <2> QED BY <2>1, <2>2
<1>5. PICK more : /\ more \in Seq(Query) /\ Send(more)
                  /\ \A n \in 1 .. Len(more) : more[n].op \notin SelectOp
  BY <1>2, <1>4, OneWrite, NoWrite
<1>6. /\ \A j \in Item : j # i => cache'[j] = cache[j]
      /\ Cached(i)' <=> Cached(i)
      /\ Cached(i)' => cache'[i].deleted = TRUE /\ ~NeedQuery(i)'
  <2>1. CASE ~Cached(i)
    BY <1>4, <2>1 DEF Cached
  <2>2. CASE Cached(i)
    <3>1. cache' = [cache EXCEPT ![i].deleted = TRUE,
                                 ![i].m_bNeedQuery = @ /\ cache[i].deleted]
      BY <1>4, <2>2
    <3>2. cache[i].m_bNeedQuery => ~cache[i].deleted
      BY <2>2, StoreParts DEF Resolved, NeedQuery
    <3>3. cache'[i] \in Entry /\ cache'[i].deleted = TRUE /\ ~cache'[i].m_bNeedQuery
      BY <2>2, <3>1, <3>2, StoreTypes DEF Caches, Entry
    <3>4. \A j \in Item : j # i => cache'[j] = cache[j]
      BY <3>1, StoreTypes DEF Caches
    <3> QED BY <2>2, <3>3, <3>4, MarkAssumption DEF Cached, NeedQuery
  <2> QED BY <2>1, <2>2
<1>7. Written(i)' = NoRow /\ \A j \in Item : j # i => Written(j)' = Written(j)
  <2>1. CASE Send(<<Delete(i)>>)
    BY <1>1, <1>2, <2>1, StoreParts, WrittenOne
  <2>2. CASE Cached(i) /\ cache[i].deleted /\ Send(<<>>)
    <3>1. \A j \in Item : Written(j)' = Written(j)
      BY <1>1, <2>2, StoreParts, WrittenSame
    <3>2. Written(i) = NoRow
      BY <2>2, StoreParts DEF Resolved, EntryRow
    <3> QED BY <3>1, <3>2
  <2> QED BY <1>4, <2>1, <2>2
<1>8. Stored(i)' = NoRow /\ (Cached(i)' => EntryRow(cache'[i]) = NoRow) /\ ~NeedQuery(i)'
  BY <1>6, <1>7 DEF Stored, EntryRow, Cached, NeedQuery
<1>9. Aside(Written(i)) /\ Aside(NoRow)
  BY <1>1, HeldWritten DEF Aside, Belongs
<1>10. \A o \in Player : HasSet(set', o) <=> HasSet(set, o)
  BY <1>1
<1>11. \A o \in Player : ~Belongs(Written(i)', o, "INVENTORY")
  BY <1>7 DEF Belongs
<1>12. Sound' /\ \A j \in Item : j # i => Stored(j)' = Stored(j)
  BY <1>1, <1>3, <1>5, <1>6, <1>7, <1>8, <1>9, <1>10, <1>11, ItemStep
<1> QED BY <1>1, <1>3, <1>4, <1>8, <1>12 DEF DestroyOf

-----------------------------------------------------------------------------
(* The cache implements the store.                                         *)

\* Nothing is stored or lost: what the game has may change.
StoredSame == \A i \in Item : Stored(i)' = Stored(i)

LoadStep == \E p \in Player, window \in {"INVENTORY", "SAFEBOX"} : LoadOf(p, window)
LeaveStep == \E items \in SUBSET Item : GoOffline(items)

StoreStep ==
    \/ StoredSame /\ (view' = view \/ LoadStep \/ LeaveStep)
    \/ \E i \in Item, row \in Row : SaveOf(i, row)
    \/ \E i \in Item : DestroyOf(i)

LEMMA StepPlayer ==
    ASSUME StoreInv, Faults = {}, NEW p \in Player, PlayerStep(p)
    PROVE  Sound' /\ StoreStep /\ async' = {}
<1>1. async = {}
  BY StoreParts
<1>2. CASE Login(p) \/ ReqSafeboxLoad(p)
  BY <1>1, <1>2, SoundRequest DEF StoreStep, StoredSame, Login, ReqSafeboxLoad
<1>3. CASE LoadCachedPlayer(p)
  BY <1>1, <1>3, SoundLoadCached DEF StoreStep, StoredSame, LoadStep, LoadCachedPlayer
<1>4. CASE LoadPlayerFromSql(p)
  BY <1>1, <1>4, SoundLoadSql DEF StoreStep, StoredSame, LoadPlayerFromSql
<1>5. CASE CloseSafebox(p)
  BY <1>1, <1>5, SoundClose DEF StoreStep, StoredSame, LeaveStep, CloseSafebox, sqlVars
<1>6. CASE SavePlayer(p)
  BY <1>1, <1>6, SoundResult DEF StoreStep, StoredSame, SavePlayer, sqlVars
<1>7. CASE Disconnect(p)
  BY <1>1, <1>7, SoundDisconnect DEF StoreStep, StoredSame, LeaveStep, Disconnect
<1>8. CASE QUERY_FLUSH_CACHE(p)
  BY <1>1, <1>8, SoundFlush DEF StoreStep, StoredSame, QUERY_FLUSH_CACHE
<1>9. ASSUME NEW i \in Item, SafeboxCheckout(p, i)
      PROVE  Sound' /\ StoreStep /\ async' = {}
  BY <1>1, <1>9, SoundCheckout DEF StoreStep, SafeboxCheckout
<1>10. ASSUME NEW i \in Item, NEW d \in Data, SaveItem(p, i, d)
       PROVE  Sound' /\ StoreStep /\ async' = {}
  BY <1>1, <1>10, SoundSaveItem, RowType DEF StoreStep, SaveItem
<1>11. ASSUME NEW i \in Item, NEW d \in Data, SaveSafeboxItem(p, i, d)
       PROVE  Sound' /\ StoreStep /\ async' = {}
  BY <1>1, <1>11, SoundSaveSafeboxItem, RowType DEF StoreStep, SaveSafeboxItem
<1> QED BY <1>2, <1>3, <1>4, <1>5, <1>6, <1>7, <1>8, <1>9, <1>10, <1>11 DEF PlayerStep

LEMMA StepResult ==
    ASSUME StoreInv, NEW p \in Player, ResultStep(p)
    PROVE  Sound' /\ StoreStep /\ async' = {}
<1>1. async = {}
  BY StoreParts
<1>2. CASE RESULT_LOGIN(p) \/ RESULT_PLAYER_LOAD(p) \/ CancelSafeboxLoad(p)
  BY <1>1, <1>2, SoundResult
     DEF StoreStep, StoredSame, RESULT_LOGIN, RESULT_PLAYER_LOAD, CancelSafeboxLoad
<1>3. CASE RESULT_ITEM_LOAD(p)
  BY <1>1, <1>3, SoundItemLoad DEF StoreStep, StoredSame, LoadStep, RESULT_ITEM_LOAD
<1>4. CASE RESULT_SAFEBOX(p)
  BY <1>1, <1>4, SoundResultSafebox DEF StoreStep, StoredSame, RESULT_SAFEBOX
<1>5. CASE RESULT_SAFEBOX_ITEM(p)
  BY <1>1, <1>5, SoundResultSafeboxItem
     DEF StoreStep, StoredSame, LoadStep, RESULT_SAFEBOX_ITEM
<1> QED BY <1>2, <1>3, <1>4, <1>5 DEF ResultStep

LEMMA StepServer ==
    ASSUME StoreInv, Faults = {},
           \/ \E p \in Player : UpdatePlayerCache(p) \/ UpdateLogoutPlayer(p)
           \/ \E i \in Item : DestroyItem(i) \/ UpdateItemCache(i) \/ ExecuteAsync(i)
           \/ Execute \/ DropResult \/ CoreCrash \/ DbEnd \/ DbRestart
    PROVE  Sound' /\ StoreStep /\ async' = {}
<1>1. async = {}
  BY StoreParts
<1>2. CASE \E p \in Player : UpdatePlayerCache(p) \/ UpdateLogoutPlayer(p)
  BY <1>1, <1>2, SoundFlush DEF StoreStep, StoredSame, UpdatePlayerCache, UpdateLogoutPlayer
<1>3. ASSUME NEW i \in Item, DestroyItem(i)
      PROVE  Sound' /\ StoreStep /\ async' = {}
  BY <1>1, <1>3, SoundDestroy DEF StoreStep
<1>4. CASE \E i \in Item : UpdateItemCache(i)
  BY <1>1, <1>4, SoundFlush DEF StoreStep, StoredSame, UpdateItemCache
<1>5. ~\E i \in Item : ExecuteAsync(i)
  BY <1>1 DEF ExecuteAsync
<1>6. CASE Execute
  BY <1>1, <1>6, SoundExecute DEF StoreStep, StoredSame, Execute
<1>7. CASE DropResult
  BY <1>1, <1>7, SoundResult DEF StoreStep, StoredSame, DropResult
<1>8. CASE CoreCrash
  BY <1>1, <1>8, SoundCrash DEF StoreStep, StoredSame, LeaveStep, CoreCrash
<1>9. CASE DbEnd
  BY <1>1, <1>9, SoundDbEnd DEF StoreStep, StoredSame, DbEnd
<1>10. CASE DbRestart
  BY <1>1, <1>10, SoundDbRestart DEF StoreStep, StoredSame, DbRestart
<1> QED BY <1>2, <1>3, <1>4, <1>5, <1>6, <1>7, <1>8, <1>9, <1>10

LEMMA InitStoreInv == Init => StoreInv
<1> SUFFICES ASSUME Init PROVE StoreInv
  OBVIOUS
<1>1. TurnInv /\ IInv /\ async = {}
  BY InitTurnInv, TurnParts DEF Init
<1>2. /\ \A i \in Item : ~Cached(i) /\ ~NeedQuery(i)
      /\ \A p \in Player : ~HasSet(set, p)
      /\ view = [i \in Item |-> Loose]
      /\ sql = <<>> /\ results = <<>> /\ table = [i \in Item |-> NoRow]
  BY DEF Init, Cached, NeedQuery, HasSet
<1>3. \A i \in Item : Written(i) = NoRow
  <2>1. Executed(table, <<>>)[Len(<<>>)] = table
    BY ExecutedSteps, EmptySeq
  <2> QED BY <1>2, <2>1 DEF Written
<1>4. Resolved /\ Settling /\ Covering
  BY <1>2 DEF Resolved, Settling, Settled, Covering
<1>5. InStep
  BY <1>2, <1>3 DEF InStep, Stored
<1>6. CurrentSql /\ CurrentResults
  BY <1>2 DEF CurrentSql, CurrentResults
<1> QED BY <1>1, <1>4, <1>5, <1>6 DEF StoreInv, Sound

LEMMA NextStoreInv == Faults = {} /\ StoreInv /\ [Next]_vars => StoreInv' /\ StoreStep
<1> SUFFICES ASSUME Faults = {}, StoreInv, [Next]_vars PROVE StoreInv' /\ StoreStep
  OBVIOUS
<1>1. TurnInv'
  BY NextTurnInv, StoreParts
<1>2. CASE Next
  <2>1. Sound' /\ StoreStep /\ async' = {}
    BY <1>2, StepPlayer, StepResult, StepServer DEF Next
  <2> QED BY <1>1, <2>1 DEF StoreInv
<1>3. CASE UNCHANGED vars
  <2>1. UNCHANGED <<view, cacheVars, sql, results, table, playerCache, phase, async>>
    BY <1>3 DEF vars, cacheVars
  <2>2. LessResults
    BY <2>1, StoreParts, ResultsLess
  <2>3. (\A i \in Item : Written(i)' = Written(i)) /\ CurrentSql' /\ CurrentResults'
    BY <2>1, <2>2, HandledStep
  <2>4. ASSUME NEW o \in Player, Asking(o)' PROVE Settled(o)
    <3>1. UnderWay(Loads(o))' => UnderWay(Loads(o))
      BY <2>1, QueuesKeep
    <3>2. Asking(o)
      BY <2>1, <2>4, <3>1 DEF Asking, HasSet, cacheVars
    <3> QED BY <3>2, StoreParts DEF Settling
  <2>5. Sound' /\ StoredSame
    BY <2>1, <2>3, <2>4, QuietStep DEF StoredSame
  <2> QED BY <1>1, <2>1, <2>5, StoreParts DEF StoreInv, StoreStep
<1> QED BY <1>2, <1>3

\* Without faults, the cache, its sets and the queries under way agree on what is
\* stored, and the game core with them.
THEOREM StoreInvariant == Faults = {} => (Spec => []StoreInv)
<1> SUFFICES ASSUME Faults = {} PROVE Spec => []StoreInv
  OBVIOUS
<1>1. Init => StoreInv
  BY InitStoreInv
<1>2. StoreInv /\ [Next]_vars => StoreInv'
  BY NextStoreInv
<1> QED BY <1>1, <1>2, PTL DEF Spec

LEMMA StoreInvImplies == StoreInv => CleanIsWritten /\ SqlIsCurrent
<1> SUFFICES ASSUME StoreInv PROVE CleanIsWritten /\ SqlIsCurrent
  OBVIOUS
<1>1. CleanIsWritten
  BY StoreParts, StoredCases DEF CleanIsWritten, Resolved
<1>2. SqlIsCurrent
  <2>1. SUFFICES ASSUME NEW n \in DOMAIN results, NEW i \in Item, results[n].op = "ITEM",
                        i \in DOMAIN results[n].rows
                           \/ (Cached(i) /\ cache[i].row.owner = results[n].pid)
                 PROVE  ~NeedQuery(i)
    BY DEF SqlIsCurrent
  <2>2. n \in 1 .. Len(results) /\ Awaited(results[n])
    BY <2>1, StoreParts, QueueFacts DEF Awaited
  <2>3. results[n].pid \in Player /\ UnderWay(Loads(results[n].pid))
    BY <2>1, <2>2, StoreParts, AwaitedUnderWay
  <2>4. Settled(results[n].pid)
    BY <2>3, StoreParts DEF Settling, Asking
  <2>5. CASE Cached(i) /\ cache[i].row.owner = results[n].pid
    BY <2>4, <2>5 DEF Settled
  <2>6. CASE i \in DOMAIN results[n].rows
    <3>1. Alike(results[n], RowIn(results[n].rows, i), Written(i))
      BY <2>2, StoreParts DEF CurrentResults
    <3>2. results[n].rows \in Rows
      BY <2>1, <2>2, StoreParts, QueueFacts DEF Result, Void, SelectOp
    <3>3. /\ results[n].rows[i] \in Row /\ results[n].rows[i].owner = results[n].pid
          /\ results[n].rows[i].window = "INVENTORY"
      BY <2>1, <2>2, <2>6, <3>2, StoreParts DEF Rows, Brings, Brought
    <3>4. Belongs(RowIn(results[n].rows, i), results[n].pid, "INVENTORY")
      BY <2>6, <3>3, StoreTypes DEF Belongs, RowIn
    <3>5. Written(i) # NoRow /\ Written(i).owner = results[n].pid
      BY <2>1, <3>1, <3>4 DEF Alike, Belongs
    <3> QED BY <2>4, <3>5 DEF Settled
  <2> QED BY <2>1, <2>5, <2>6
<1> QED BY <1>1, <1>2

\* An entry that needs no query may be evicted: SQL has its row, or will have it
\* when the queries under way are executed.
THEOREM CleanAlwaysWritten == Faults = {} => (Spec => []CleanIsWritten)
<1> SUFFICES ASSUME Faults = {} PROVE Spec => []CleanIsWritten
  OBVIOUS
<1>1. StoreInv => CleanIsWritten
  BY StoreInvImplies
<1> QED BY <1>1, StoreInvariant, PTL

\* What RESULT_ITEM_LOAD brings from SQL never takes the place of an entry that is
\* newer, and misses none.
THEOREM SqlAlwaysCurrent == Faults = {} => (Spec => []SqlIsCurrent)
<1> SUFFICES ASSUME Faults = {} PROVE Spec => []SqlIsCurrent
  OBVIOUS
<1>1. StoreInv => SqlIsCurrent
  BY StoreInvImplies
<1> QED BY <1>1, StoreInvariant, PTL

LEMMA StoreRow == Store!Row = Row
BY DEF Store!Row, Store!Window, Row

\* What the store says a player or safebox owns.
LEMMA StoreOwned ==
    ASSUME StoreInv, NEW p \in Player, NEW window
    PROVE  Store!Owned(p, window) = { i \in Item : Belongs(Stored(i), p, window) }
<1>1. \A i \in Item : Stored(i) \in Row <=> Stored(i) # NoRow
  BY StoreTypes
<1> QED BY <1>1, StoreRow DEF Store!Owned, Belongs

LEMMA InitStore == Init => Store!Init
<1> SUFFICES ASSUME Init PROVE Store!Init
  OBVIOUS
<1>1. \A i \in Item : Stored(i) = NoRow
  BY InitStoreInv, StoreParts, MarkAssumption DEF InStep, Init
<1> QED BY <1>1 DEF Store!Init, Init

\* Every step saves, destroys, loads or takes out of the game, as the store does,
\* or changes nothing that it can tell.
LEMMA NextStore == StoreInv /\ StoreStep => [Store!Next]_(Store!vars)
<1> SUFFICES ASSUME StoreInv, StoreStep PROVE [Store!Next]_(Store!vars)
  OBVIOUS
<1> DEFINE store == [i \in Item |-> Stored(i)]
<1>1. CASE StoredSame /\ (view' = view \/ LoadStep \/ LeaveStep)
  <2>1. store' = store
    BY <1>1 DEF StoredSame
  <2>2. CASE view' = view
    BY <2>1, <2>2 DEF Store!vars
  <2>3. CASE LoadStep
    <3>1. PICK p \in Player, window \in {"INVENTORY", "SAFEBOX"} : LoadOf(p, window)
      BY <2>3 DEF LoadStep
    <3>2. Store!Owned(p, window) = { i \in Item : Belongs(Stored(i), p, window) }
      BY StoreOwned
    <3>3. Store!Load(p, window)
      BY <2>1, <3>1, <3>2 DEF Store!Load, LoadOf
    <3> QED BY <3>1, <3>3 DEF Store!Next, Store!Window
  <2>4. CASE LeaveStep
    <3>1. PICK items \in SUBSET Item : GoOffline(items)
      BY <2>4 DEF LeaveStep
    <3>2. Store!Leave(items)
      BY <2>1, <3>1 DEF Store!Leave, GoOffline
    <3> QED BY <3>1, <3>2 DEF Store!Next
  <2> QED BY <1>1, <2>2, <2>3, <2>4
<1>2. ASSUME NEW i \in Item, NEW row \in Row, SaveOf(i, row) PROVE Store!Save(i, row)
  <2>1. store' = [store EXCEPT ![i] = row]
    BY <1>2 DEF SaveOf
  <2> QED BY <1>2, <2>1 DEF Store!Save, SaveOf
<1>3. ASSUME NEW i \in Item, DestroyOf(i) PROVE Store!Destroy(i)
  <2>1. store' = [store EXCEPT ![i] = NoRow]
    BY <1>3 DEF DestroyOf
  <2> QED BY <1>3, <2>1 DEF Store!Destroy, DestroyOf
<1> QED BY <1>1, <1>2, <1>3, StoreRow DEF StoreStep, Store!Next

\* Without faults, the write-behind cache keeps the promise of ItemStore: an item
\* has the row it was last saved with, whatever is cached, written or evicted.
THEOREM CacheImplementsStore == Faults = {} => (Spec => ImplementsStore)
<1> SUFFICES ASSUME Faults = {} PROVE Spec => ImplementsStore
  OBVIOUS
<1>1. Init => Store!Init
  BY InitStore
<1>2. StoreInv /\ [Next]_vars => [Store!Next]_(Store!vars)
  BY NextStoreInv, NextStore
<1> QED BY <1>1, <1>2, StoreInvariant, PTL DEF Spec, ImplementsStore, Store!Spec
=============================================================================
