-------------------------- MODULE PriceListProofs ---------------------------
(***************************************************************************)
(* Proofs for any shops, kinds, prices, lists, failures and size of the    *)
(* semaphore. The handlers of the price lists keep the connection's own    *)
(* guarantees. The rows of an owner never outgrow the list that a load is  *)
(* read into, as long as no DELETE is abandoned. And the prices an owner   *)
(* has are changed by his updates alone: neither a load, nor a flush, nor  *)
(* a step of the connection changes them, whatever is still queued. The    *)
(* connection remains the queue it promises to be.                         *)
(***************************************************************************)
EXTENDS PriceList, SequenceTheorems, FiniteSetTheorems, WellFoundedInduction, TLAPS

(* The queues are sequences. Of which queries does not matter here.        *)
Queues ==
    /\ \E S : query \in Seq(S) /\ copy \in Seq(S)
    /\ sem \in 0..SemMax
    /\ failures \in Nat

(* m_bEnd and the stages of Quit, and what the loop has seen of them.      *)
Ended ==
    /\ end <=> main # "run"
    /\ loop \in {"drain", "done"} => end

IInv == Queues /\ NoLostWakeUp /\ BatchCovers /\ Ended /\ DrainedAtEnd

LEMMA TailLength ==
    ASSUME NEW S, NEW s \in Seq(S), s # <<>>
    PROVE  Tail(s) \in Seq(S) /\ Len(Tail(s)) = Len(s) - 1 /\ Len(s) \in Nat \ {0}
  BY HeadTailProperties, EmptySeq

LEMMA SemPositive == SemMax \in Nat \ {0}
  BY PriceAssumption DEF Sql!SqlAssumption

-----------------------------------------------------------------------------
(* One lemma for each step that involves the connection                    *)

LEMMA PushOK == ASSUME IInv, NEW q, Sql!PushQuery(q) PROVE IInv'
  <1>1. PICK S : query \in Seq(S) /\ copy \in Seq(S)
    BY DEF IInv, Queues
  <1>2. Append(query, q) \in Seq(S \cup {q}) /\ copy \in Seq(S \cup {q})
    <2>1. query \in Seq(S \cup {q}) /\ copy \in Seq(S \cup {q})
      BY <1>1, SeqMonotonic
    <2> QED BY <2>1
  <1>3. /\ main = "run" /\ query' = Append(query, q) /\ Sql!Release
        /\ UNCHANGED <<copy, results, end, loop, count, failures, main>>
    BY DEF Sql!PushQuery
  <1>4. sem' \in 0..SemMax /\ sem' > 0
    BY <1>3, SemPositive DEF IInv, Queues, Sql!Release
  <1>5. Queues'
    BY <1>2, <1>3, <1>4 DEF IInv, Queues
  <1>6. loop # "done"
    BY <1>3 DEF IInv, Ended
  <1> QED BY <1>3, <1>4, <1>5, <1>6 DEF IInv, NoLostWakeUp, Sql!NoLostWakeUp, BatchCovers,
        Sql!BatchCovers, Ended, DrainedAtEnd, Sql!DrainedAtEnd

LEMMA PopOK == ASSUME IInv, Sql!PopResult PROVE IInv'
  BY DEF Sql!PopResult, IInv, Queues, NoLostWakeUp, Sql!NoLostWakeUp, BatchCovers,
        Sql!BatchCovers, Ended, DrainedAtEnd, Sql!DrainedAtEnd

LEMMA QuitOK == ASSUME IInv, Sql!Quit \/ Sql!QuitRelease \/ Sql!QuitJoin PROVE IInv'
  <1>1. /\ UNCHANGED <<query, copy, loop, count, failures>>
        /\ sem' \in 0..SemMax /\ (sem > 0 => sem' > 0)
    BY SemPositive DEF IInv, Queues, Sql!Quit, Sql!QuitRelease, Sql!QuitJoin, Sql!thread, Sql!Release
  <1>2. Ended'
    BY <1>1 DEF IInv, Ended, Sql!Quit, Sql!QuitRelease, Sql!QuitJoin
  <1> QED BY <1>1, <1>2 DEF IInv, Queues, NoLostWakeUp, Sql!NoLostWakeUp, BatchCovers,
        Sql!BatchCovers, DrainedAtEnd, Sql!DrainedAtEnd

LEMMA WaitOK ==
    ASSUME IInv, Sql!LoopTop \/ Sql!SemWait \/ Sql!DrainRetry \/ Sql!DrainEnd
    PROVE  IInv'
  <1>1. UNCHANGED <<query, copy, end, count, main>> /\ sem' \in 0..SemMax /\ failures' \in Nat
    BY SemPositive DEF IInv, Queues, Sql!LoopTop, Sql!SemWait, Sql!DrainRetry, Sql!DrainEnd
  <1>2. NoLostWakeUp' /\ Ended'
    BY DEF IInv, Queues, NoLostWakeUp, Sql!NoLostWakeUp, Ended, Sql!LoopTop, Sql!SemWait, Sql!DrainRetry, Sql!DrainEnd
  <1>3. Len(copy) = 0 => copy = <<>>
    BY EmptySeq DEF IInv, Queues
  <1>4. BatchCovers' /\ DrainedAtEnd'
    <2>1. failures \in Nat /\ (failures' = failures \/ failures' = failures + 1)
      BY DEF IInv, Queues, Sql!LoopTop, Sql!SemWait, Sql!DrainRetry, Sql!DrainEnd
    <2> QED BY <1>1, <1>3, <2>1 DEF IInv, BatchCovers, Sql!BatchCovers, DrainedAtEnd, Sql!DrainedAtEnd,
        Sql!LoopTop, Sql!SemWait, Sql!DrainRetry, Sql!DrainEnd
  <1>5. Queues'
    BY <1>1 DEF IInv, Queues
  <1> QED BY <1>2, <1>4, <1>5 DEF IInv

LEMMA CopyOK == ASSUME IInv, Sql!CopyQuery PROVE IInv'
  <1>1. PICK S : query \in Seq(S) /\ copy \in Seq(S)
    BY DEF IInv, Queues
  <1>2. CASE query = <<>>
    <2>1. UNCHANGED <<query, copy, results, sem, end, count, failures, main>> /\ loop' = "top"
          /\ loop = "copy"
      BY <1>2 DEF Sql!CopyQuery
    <2> QED BY <1>2, <2>1 DEF IInv, Queues, NoLostWakeUp, Sql!NoLostWakeUp, BatchCovers,
        Sql!BatchCovers, Ended, DrainedAtEnd, Sql!DrainedAtEnd
  <1>3. CASE query # <<>>
    <2>1. /\ loop = "copy" /\ loop' = "batch"
          /\ copy' = copy \o query /\ query' = <<>> /\ count' = Len(copy')
          /\ UNCHANGED <<results, sem, end, failures, main>>
      BY <1>3 DEF Sql!CopyQuery
    <2>2. copy' \in Seq(S) /\ query' \in Seq(S) /\ Len(copy') = Len(copy) + Len(query)
      BY <1>1, <2>1, ConcatProperties
    <2>3. Len(copy) \in Nat /\ Len(query) \in Nat \ {0}
      BY <1>1, <1>3, LenProperties, TailLength
    <2>4. BatchCovers'
      BY <2>1, <2>2, <2>3 DEF BatchCovers, Sql!BatchCovers
    <2>5. Queues'
      BY <2>1, <2>2 DEF IInv, Queues
    <2> QED BY <2>1, <2>4, <2>5 DEF IInv, NoLostWakeUp, Sql!NoLostWakeUp, Ended,
        DrainedAtEnd, Sql!DrainedAtEnd
  <1> QED BY <1>2, <1>3

(* What a spent slot leaves of the batch, when a query was taken or not.   *)
LEMMA SlotOK ==
    ASSUME IInv, loop = "batch", Sql!NextSlot,
           \/ Len(copy') = Len(copy) - 1 /\ failures' = failures
           \/ Len(copy') = Len(copy) /\ failures' = failures + 1
    PROVE  BatchCovers'
  <1>1. Len(copy) \in Nat /\ failures \in Nat
    BY LenProperties DEF IInv, Queues
  <1>2. count \in 1..Len(copy) /\ (failures = 0 => Len(copy) = count)
    BY DEF IInv, BatchCovers, Sql!BatchCovers
  <1>3. count \in Nat /\ count >= 1 /\ count <= Len(copy)
    BY <1>1, <1>2
  <1>4. count' = count - 1
    BY DEF Sql!NextSlot
  <1>5. CASE count = 1
    <2>1. loop' = "top"
      BY <1>5 DEF Sql!NextSlot
    <2>2. failures' = 0 => Len(copy') = 0
      <3>1. failures = 0 => Len(copy) = 1
        BY <1>2, <1>5
      <3>2. CASE Len(copy') = Len(copy) - 1 /\ failures' = failures
        BY <3>1, <3>2
      <3>3. CASE Len(copy') = Len(copy) /\ failures' = failures + 1
        <4>1. failures' # 0
          BY <1>1, <3>3
        <4> QED BY <4>1
      <3> QED BY <3>2, <3>3
    <2> QED BY <2>1, <2>2 DEF BatchCovers, Sql!BatchCovers
  <1>6. CASE count # 1
    <2>1. loop' = "batch"
      BY <1>6 DEF Sql!NextSlot
    <2>2. failures' = 0 => Len(copy') = count'
      BY <1>1, <1>2, <1>4
    <2>3. Len(copy') \in Nat /\ count' <= Len(copy') /\ count' >= 1 /\ count' \in Nat
      BY <1>1, <1>3, <1>4, <1>6
    <2>4. count' \in 1..Len(copy')
      BY <2>3
    <2> QED BY <2>1, <2>2, <2>4 DEF BatchCovers, Sql!BatchCovers
  <1> QED BY <1>5, <1>6

LEMMA ExecuteOK == ASSUME IInv, NEW reply, Sql!ExecuteQuery(reply) PROVE IInv'
  <1>1. PICK S : query \in Seq(S) /\ copy \in Seq(S)
    BY DEF IInv, Queues
  <1>2. /\ loop = "batch" /\ copy' = Tail(copy) /\ Sql!NextSlot
        /\ UNCHANGED <<query, sem, end, failures, main>>
    BY DEF Sql!ExecuteQuery
  <1>3. copy # <<>>
    BY <1>1, <1>2, EmptySeq DEF IInv, BatchCovers, Sql!BatchCovers
  <1>4. copy' \in Seq(S) /\ Len(copy') = Len(copy) - 1
    BY <1>1, <1>2, <1>3, TailLength
  <1>5. BatchCovers'
    BY <1>2, <1>4, SlotOK
  <1>6. loop' \in {"top", "batch"}
    BY <1>2 DEF Sql!NextSlot
  <1>7. Queues'
    BY <1>1, <1>2, <1>4 DEF IInv, Queues
  <1> QED BY <1>2, <1>5, <1>6, <1>7 DEF IInv, NoLostWakeUp, Sql!NoLostWakeUp, Ended,
        DrainedAtEnd, Sql!DrainedAtEnd

LEMMA RetryOK == ASSUME IInv, Sql!RetryQuery PROVE IInv'
  <1>1. /\ loop = "batch" /\ failures' = failures + 1 /\ Sql!NextSlot /\ Sql!Release
        /\ UNCHANGED <<query, copy, results, end, main>>
    BY DEF Sql!RetryQuery
  <1>2. BatchCovers'
    BY <1>1, SlotOK
  <1>3. sem' \in 0..SemMax /\ sem' > 0
    BY <1>1, SemPositive DEF IInv, Queues, Sql!Release
  <1>4. loop' \in {"top", "batch"}
    BY <1>1 DEF Sql!NextSlot
  <1>5. Queues'
    BY <1>1, <1>3 DEF IInv, Queues
  <1> QED BY <1>1, <1>2, <1>3, <1>4, <1>5 DEF IInv, NoLostWakeUp, Sql!NoLostWakeUp, Ended,
        DrainedAtEnd, Sql!DrainedAtEnd

LEMMA DrainOK == ASSUME IInv, NEW reply, Sql!DrainQuery(reply) PROVE IInv'
  <1>1. PICK S : query \in Seq(S) /\ copy \in Seq(S)
    BY DEF IInv, Queues
  <1>2. /\ loop = "drain" /\ query # <<>> /\ query' = Tail(query)
        /\ UNCHANGED <<copy, sem, end, loop, count, failures, main>>
    BY DEF Sql!DrainQuery
  <1>3. query' \in Seq(S)
    BY <1>1, <1>2, TailLength
  <1>4. Queues'
    BY <1>1, <1>2, <1>3 DEF IInv, Queues
  <1> QED BY <1>2, <1>4 DEF IInv, NoLostWakeUp, Sql!NoLostWakeUp, BatchCovers,
        Sql!BatchCovers, Ended, DrainedAtEnd, Sql!DrainedAtEnd

LEMMA SameOK == ASSUME IInv, UNCHANGED sqlVars PROVE IInv'
  BY DEF sqlVars, IInv, Queues, NoLostWakeUp, Sql!NoLostWakeUp, BatchCovers,
        Sql!BatchCovers, Ended, DrainedAtEnd, Sql!DrainedAtEnd

-----------------------------------------------------------------------------
(* The steps of the system                                                 *)

LEMMA InitOK == ASSUME Init PROVE IInv
  <1>1. /\ query = <<>> /\ copy = <<>> /\ sem = 0 /\ failures = 0 /\ end = FALSE
        /\ loop = "top" /\ main = "run" /\ Len(copy) = 0
    BY DEF Init, Sql!Init
  <1>2. query \in Seq({}) /\ copy \in Seq({})
    BY <1>1, EmptySeq
  <1>3. Queues
    BY <1>1, <1>2, SemPositive DEF Queues
  <1> QED BY <1>1, <1>3 DEF IInv, NoLostWakeUp, Sql!NoLostWakeUp, BatchCovers,
        Sql!BatchCovers, Ended, DrainedAtEnd, Sql!DrainedAtEnd

LEMMA HandlerOK ==
    ASSUME IInv, NEW o, NEW u,
           \/ MyshopPricelistUpdate(o, u) \/ ResultPricelistLoadForUpdate(o, u)
           \/ MyshopPricelistRequest(o) \/ ResultPricelistLoad(o)
           \/ UpdateItemPriceListCache(o) \/ FinalFlush(o)
    PROVE  IInv'
  <1>1. CASE MyshopPricelistUpdate(o, u)
    BY <1>1, PushOK, SameOK DEF MyshopPricelistUpdate
  <1>2. CASE MyshopPricelistRequest(o)
    BY <1>2, PushOK DEF MyshopPricelistRequest
  <1>3. CASE ResultPricelistLoad(o) \/ ResultPricelistLoadForUpdate(o, u)
    BY <1>3, PopOK DEF ResultPricelistLoad, ResultPricelistLoadForUpdate
  <1>4. CASE UpdateItemPriceListCache(o) \/ FinalFlush(o)
    BY <1>4, SameOK DEF UpdateItemPriceListCache, FinalFlush
  <1> QED BY <1>1, <1>2, <1>3, <1>4

LEMMA MainOK ==
    ASSUME IInv, ResultIgnored \/ PushTodo \/ MainLoopExit \/ Quit \/ QuitGoesOn
    PROVE  IInv'
  BY PopOK, PushOK, SameOK, QuitOK DEF ResultIgnored, PushTodo, MainLoopExit, Quit, QuitGoesOn

LEMMA ThreadOK == ASSUME IInv, ChildLoop PROVE IInv'
  BY ExecuteOK, DrainOK, WaitOK, CopyOK, RetryOK DEF ChildLoop, ExecuteQuery, DrainQuery, ChildLoopOnly

LEMMA StepOK == ASSUME IInv, [Next]_vars PROVE IInv'
  <1>1. CASE UNCHANGED vars
    BY <1>1, SameOK DEF vars
  <1>2. CASE Next
    BY <1>2, HandlerOK, MainOK, ThreadOK DEF Next
  <1> QED BY <1>1, <1>2

LEMMA Inductive == Spec => []IInv
  <1>1. Init => IInv
    BY InitOK
  <1>2. IInv /\ [Next]_vars => IInv'
    BY StepOK
  <1> QED BY <1>1, <1>2, PTL DEF Spec

(* Whatever the handlers push and whenever the loop is between two looks   *)
(* at its queue, a pushed query has a wake-up to come.                     *)
THEOREM WakeUpsKept == Spec => []NoLostWakeUp
  <1>1. IInv => NoLostWakeUp
    BY DEF IInv
  <1> QED BY <1>1, Inductive, PTL

(* No slot of a batch is spent on an empty queue, and only a retry leaves  *)
(* a query behind.                                                         *)
THEOREM BatchesCover == Spec => []BatchCovers
  <1>1. IInv => BatchCovers
    BY DEF IInv
  <1> QED BY <1>1, Inductive, PTL

(* When Quit has joined the thread, no query of a flush is left but one    *)
(* that failed.                                                            *)
THEOREM FlushesDrained == Spec => []DrainedAtEnd
  <1>1. IInv => DrainedAtEnd
    BY DEF IInv
  <1> QED BY <1>1, Inductive, PTL

-----------------------------------------------------------------------------
(* Lists and queries                                                       *)

LEMMA LeastNat ==
    ASSUME NEW T \in SUBSET Nat, T # {}
    PROVE  \E m \in T : \A k \in T : m <= k
  <1> DEFINE R == OpToRel(<, Nat)
  <1>1. IsWellFoundedOn(R, Nat)
    BY NatLessThanWellFounded
  <1>2. PICK m \in T : \A k \in T : <<k, m>> \notin R
    <2> HIDE DEF R
    <2> QED BY <1>1, WFMin
  <1>3. \A k \in T : ~(k < m)
    BY <1>2 DEF OpToRel
  <1> QED BY <1>3

(* Induction: a set with 0, closed under the successor, has every number.  *)
LEMMA NatSet ==
    ASSUME NEW S, 0 \in S, \A n \in Nat : n \in S => n + 1 \in S
    PROVE  Nat \subseteq S
  <1> DEFINE T == Nat \ S
  <1>1. SUFFICES ASSUME T # {} PROVE FALSE
    OBVIOUS
  <1>2. PICK m \in T : \A k \in T : m <= k
    BY <1>1, LeastNat
  <1>3. m \in Nat /\ m # 0 /\ m \notin S
    OBVIOUS
  <1>4. m - 1 \in Nat /\ m - 1 \in S
    BY <1>2, <1>3
  <1>5. (m - 1) + 1 \in S
    BY <1>4
  <1> QED BY <1>3, <1>5

LEMMA ListIs ==
    ASSUME NEW list
    PROVE  list \in PriceLists <=> list \in Seq(Entry) /\ Len(list) <= PriceListMax
  <1>1. PriceListMax \in Nat
    BY PriceAssumption
  <1>2. list \in PriceLists => list \in Seq(Entry) /\ Len(list) <= PriceListMax
    <2>1. SUFFICES ASSUME list \in PriceLists
                   PROVE  list \in Seq(Entry) /\ Len(list) <= PriceListMax
      OBVIOUS
    <2>2. PICK n \in 0..PriceListMax : list \in [1..n -> Entry]
      BY <2>1 DEF PriceLists
    <2> QED BY <1>1, <2>2
  <1>3. list \in Seq(Entry) /\ Len(list) <= PriceListMax => list \in PriceLists
    <2>1. SUFFICES ASSUME list \in Seq(Entry), Len(list) <= PriceListMax
                   PROVE  list \in PriceLists
      OBVIOUS
    <2>2. Len(list) \in 0..PriceListMax /\ list \in [1..Len(list) -> Entry]
      BY <1>1, <2>1
    <2> QED BY <2>2 DEF PriceLists
  <1> QED BY <1>2, <1>3

LEMMA EmptyList == <<>> \in PriceLists
  <1>1. <<>> \in [1..0 -> Entry]
    OBVIOUS
  <1>2. 0 \in 0..PriceListMax
    BY PriceAssumption
  <1> QED BY <1>1, <1>2 DEF PriceLists

LEMMA QueryType ==
    /\ \A op \in {"load", "destroy"}, o \in Owner : [op |-> op, owner |-> o, list |-> <<>>] \in PriceQuery
    /\ \A op \in {"loadForUpdate", "save"}, o \in Owner, list \in PriceLists :
            [op |-> op, owner |-> o, list |-> list] \in PriceQuery
    /\ \A q \in PriceQuery :
            /\ q.op \in {"load", "destroy", "loadForUpdate", "save"}
            /\ q.owner \in Owner /\ q.list \in PriceLists
  <1>1. \A q \in PriceQuery : q.list \in PriceLists
    BY EmptyList DEF PriceQuery
  <1> QED BY <1>1 DEF PriceQuery

(* The recursion that defines Kept has a solution, and Kept is one.        *)
LEMMA KeptSteps ==
    ASSUME NEW old \in Seq(Entry), NEW new
    PROVE  /\ Kept(old, new)[0] = <<>>
           /\ \A n \in 1..Len(old) : Kept(old, new)[n] =
                IF \E i \in DOMAIN new : new[i].vnum = old[n].vnum THEN Kept(old, new)[n - 1]
                ELSE Append(Kept(old, new)[n - 1], old[n])
  <1> DEFINE start == <<>>
             After(x, n) == IF \E i \in DOMAIN new : new[i].vnum = old[n].vnum THEN x
                            ELSE Append(x, old[n])
             Solves(f, n) == f = [k \in 0..n |-> IF k = 0 THEN start ELSE After(f[k - 1], k)]
             S == {n \in Nat : \E f : Solves(f, n)}
  <1>1. Len(old) \in Nat
    OBVIOUS
  <1>2. Kept(old, new) = CHOOSE f : Solves(f, Len(old))
    BY DEF Kept
  <1> HIDE DEF start, After
  <1>3. 0 \in S
    <2> DEFINE f == [k \in 0..0 |-> start]
    <2>1. Solves(f, 0)
      OBVIOUS
    <2> QED BY <2>1
  <1>4. ASSUME NEW n \in Nat, n \in S PROVE n + 1 \in S
    <2>1. PICK f : Solves(f, n)
      BY <1>4
    <2> DEFINE g == [k \in 0 .. n + 1 |-> IF k = n + 1 THEN After(f[n], n + 1) ELSE f[k]]
    <2>2. \A k \in 0 .. n + 1 : g[k] = IF k = 0 THEN start ELSE After(g[k - 1], k)
      <3>1. SUFFICES ASSUME NEW k \in 0 .. n + 1
                     PROVE  g[k] = IF k = 0 THEN start ELSE After(g[k - 1], k)
        OBVIOUS
      <3>2. CASE k = 0
        BY <2>1, <3>2
      <3>3. CASE k = n + 1
        <4>1. g[k] = After(f[n], k) /\ k # 0 /\ k - 1 = n /\ g[n] = f[n]
          BY <3>3
        <4> QED BY <4>1
      <3>4. CASE k # 0 /\ k # n + 1
        <4>1. k \in 0..n /\ k - 1 \in 0..n /\ k - 1 # n + 1
          BY <3>4
        <4>2. g[k] = f[k] /\ g[k - 1] = f[k - 1]
          BY <3>4, <4>1
        <4>3. f[k] = After(f[k - 1], k)
          BY <2>1, <3>4, <4>1
        <4> QED BY <3>4, <4>2, <4>3
      <3> QED BY <3>2, <3>3, <3>4
    <2>3. Solves(g, n + 1)
      BY <2>2
    <2> HIDE DEF g, Solves
    <2>4. \E h : Solves(h, n + 1)
      BY <2>3
    <2> QED BY <2>4
  <1>5. Nat \subseteq S
    <2> HIDE DEF S
    <2> QED BY <1>3, <1>4, NatSet
  <1>6. Solves(Kept(old, new), Len(old))
    <2>1. \E f : Solves(f, Len(old))
      BY <1>1, <1>5
    <2> HIDE DEF Solves
    <2> QED BY <1>2, <2>1
  <1>7. \A n \in 0..Len(old) : Kept(old, new)[n] =
            IF n = 0 THEN start ELSE After(Kept(old, new)[n - 1], n)
    BY <1>6
  <1> QED BY <1>1, <1>7 DEF start, After

LEMMA KeptType ==
    ASSUME NEW old \in Seq(Entry), NEW new, NEW n \in 0..Len(old)
    PROVE  Kept(old, new)[n] \in Seq(Entry)
  <1> DEFINE t == Kept(old, new)
             S == {k \in Nat : k <= Len(old) => t[k] \in Seq(Entry)}
  <1>1. /\ t[0] = <<>>
        /\ \A k \in 1..Len(old) : t[k] = t[k - 1] \/ t[k] = Append(t[k - 1], old[k])
    BY KeptSteps
  <1>2. \A k \in 1..Len(old) : old[k] \in Entry
    OBVIOUS
  <1> HIDE DEF t
  <1>3. 0 \in S
    <2>1. t[0] \in Seq(Entry)
      BY <1>1, EmptySeq
    <2> QED BY <2>1
  <1>4. ASSUME NEW k \in Nat, k \in S PROVE k + 1 \in S
    <2>1. SUFFICES ASSUME k + 1 <= Len(old) PROVE t[k + 1] \in Seq(Entry)
      OBVIOUS
    <2>2. k + 1 \in 1..Len(old) /\ (k + 1) - 1 = k /\ k <= Len(old)
      BY <2>1
    <2>3. t[k] \in Seq(Entry) /\ old[k + 1] \in Entry
      BY <1>2, <1>4, <2>2
    <2> DEFINE m == k + 1
    <2>4. t[m] = t[m - 1] \/ t[m] = Append(t[m - 1], old[m])
      <3>1. m \in 1..Len(old)
        BY <2>2
      <3> HIDE DEF m
      <3> QED BY <1>1, <3>1
    <2>5. m - 1 = k /\ t[m - 1] \in Seq(Entry) /\ old[m] \in Entry
      BY <2>2, <2>3
    <2>6. Append(t[m - 1], old[m]) \in Seq(Entry)
      <3> HIDE DEF m
      <3> QED BY <2>5
    <2> QED BY <2>4, <2>5, <2>6
  <1>5. Nat \subseteq S
    <2> HIDE DEF S
    <2> QED BY <1>3, <1>4, NatSet
  <1> QED BY <1>5 DEF t

(* A merged list fits its table.                                           *)
LEMMA UpdateListType ==
    ASSUME NEW old \in Seq(Entry), NEW new \in PriceLists
    PROVE  UpdateList(old, new) \in PriceLists
  <1> DEFINE kept == Kept(old, new)[Len(old)]
             room == PriceListMax - Len(new)
             m == IF Len(kept) < room THEN Len(kept) ELSE room
  <1>1. kept \in Seq(Entry)
    BY KeptType
  <1>2. new \in Seq(Entry) /\ Len(new) <= PriceListMax /\ PriceListMax \in Nat /\ Len(new) \in Nat
    BY ListIs, PriceAssumption
  <1>3. UpdateList(old, new) = new \o SubSeq(kept, 1, m)
    BY DEF UpdateList
  <1> HIDE DEF kept
  <1>4. Len(kept) \in Nat /\ m \in 0..Len(kept) /\ m <= room /\ room \in Nat
    BY <1>1, <1>2
  <1> HIDE DEF m
  <1>5. SubSeq(kept, 1, m) \in Seq(Entry) /\ Len(SubSeq(kept, 1, m)) = m
    <2>1. \A i \in 1..m : kept[i] \in Entry
      BY <1>1, <1>4
    <2> QED BY <1>1, <1>4, <2>1, SubSeqProperties
  <1>6. UpdateList(old, new) \in Seq(Entry) /\ Len(UpdateList(old, new)) = Len(new) + m
    BY <1>2, <1>3, <1>5, ConcatProperties
  <1> QED BY <1>2, <1>4, <1>6, ListIs

-----------------------------------------------------------------------------
(* Rows that fit                                                           *)

RowsType(rows) == rows \in [Owner -> SUBSET Entry] /\ \A o \in Owner : IsFiniteSet(rows[o])

Fit(rows) == \A o \in Owner : Cardinality(rows[o]) <= PriceListMax

IsSave(q, o) == q.op = "save" /\ q.owner = o

(* The INSERT at n of a queue is one of those behind a DELETE, as many as  *)
(* a list has entries; or what is left of one such flush is in front of    *)
(* the queue, and the rows it has put in are as many fewer.                *)
BehindDelete(s, n, d) ==
    /\ d < n
    /\ s[d].op = "destroy" /\ s[d].owner = s[n].owner
    /\ n - d <= PriceListMax
    /\ \A i \in d + 1..n : IsSave(s[i], s[n].owner)

InFront(s, rows, n) ==
    /\ \A i \in 1..n : IsSave(s[i], s[n].owner)
    /\ Cardinality(rows[s[n].owner]) + n <= PriceListMax

Bounded(s, rows) ==
    \A n \in 1..Len(s) : s[n].op = "save" =>
        /\ Len(s[n].list) = 1
        /\ InFront(s, rows, n) \/ \E d \in 1..Len(s) : BehindDelete(s, n, d)

LEMMA SaveRows ==
    ASSUME NEW rows, RowsType(rows), NEW q \in PriceQuery, q.op = "save", Len(q.list) = 1
    PROVE  /\ RowsType(Effect(rows, q))
           /\ \A o \in Owner : o # q.owner => Effect(rows, q)[o] = rows[o]
           /\ Cardinality(Effect(rows, q)[q.owner]) <= Cardinality(rows[q.owner]) + 1
           /\ Cardinality(rows[q.owner]) \in Nat
           /\ Cardinality(Effect(rows, q)[q.owner]) \in Nat
  <1>1. q.owner \in Owner /\ q.list \in Seq(Entry)
    BY QueryType, ListIs
  <1>2. Range(q.list) = {q.list[1]} /\ q.list[1] \in Entry
    BY <1>1 DEF Range
  <1>3. Effect(rows, q) = [rows EXCEPT ![q.owner] = @ \cup {q.list[1]}]
    BY <1>2 DEF Effect
  <1> DEFINE T == rows[q.owner]
  <1>4. T \in SUBSET Entry /\ IsFiniteSet(T)
    BY <1>1 DEF RowsType
  <1>5. /\ IsFiniteSet(T \cup {q.list[1]})
        /\ Cardinality(T \cup {q.list[1]}) <= Cardinality(T) + 1
        /\ Cardinality(T \cup {q.list[1]}) \in Nat
        /\ Cardinality(T) \in Nat
    <2> DEFINE e == q.list[1]
    <2> HIDE DEF T, e
    <2>1. Cardinality(T) \in Nat
      BY <1>4, FS_CardinalityType
    <2>2. /\ IsFiniteSet(T \cup {e})
          /\ \/ Cardinality(T \cup {e}) = Cardinality(T)
             \/ Cardinality(T \cup {e}) = Cardinality(T) + 1
      BY <1>4, FS_AddElement
    <2>3. /\ Cardinality(T \cup {e}) <= Cardinality(T) + 1
          /\ Cardinality(T \cup {e}) \in Nat
      BY <2>1, <2>2
    <2> QED BY <2>1, <2>2, <2>3 DEF e
  <1>6. /\ Effect(rows, q)[q.owner] = T \cup {q.list[1]}
        /\ \A o \in Owner : o # q.owner => Effect(rows, q)[o] = rows[o]
        /\ Effect(rows, q) \in [Owner -> SUBSET Entry]
    BY <1>1, <1>2, <1>3, <1>4 DEF RowsType
  <1>7. RowsType(Effect(rows, q))
    BY <1>5, <1>6 DEF RowsType
  <1> QED BY <1>5, <1>6, <1>7

LEMMA OtherRows ==
    ASSUME NEW rows, RowsType(rows), NEW q \in PriceQuery, q.op # "save"
    PROVE  /\ RowsType(Effect(rows, q))
           /\ \A o \in Owner : Effect(rows, q)[o] = rows[o] \/ Cardinality(Effect(rows, q)[o]) = 0
           /\ q.op = "destroy" => Cardinality(Effect(rows, q)[q.owner]) = 0
  <1>1. q.owner \in Owner
    BY QueryType
  <1>2. IsFiniteSet({}) /\ Cardinality({}) = 0
    BY FS_EmptySet
  <1>3. CASE q.op = "destroy"
    <2>1. Effect(rows, q) = [rows EXCEPT ![q.owner] = {}]
      BY <1>3 DEF Effect
    <2>2. \A o \in Owner : Effect(rows, q)[o] = rows[o] \/ Effect(rows, q)[o] = {}
      BY <2>1 DEF RowsType
    <2>3. Effect(rows, q)[q.owner] = {} /\ Effect(rows, q) \in [Owner -> SUBSET Entry]
      BY <1>1, <2>1 DEF RowsType
    <2> QED BY <1>2, <2>2, <2>3 DEF RowsType
  <1>4. CASE q.op # "destroy"
    <2>1. Effect(rows, q) = rows
      BY <1>4 DEF Effect
    <2> QED BY <1>4, <2>1
  <1> QED BY <1>3, <1>4

(* What is in front of a queue is executed: the rows still fit, and so     *)
(* will the rest of the queue.                                             *)
LEMMA BoundedTail ==
    ASSUME NEW s \in Seq(PriceQuery), s # <<>>, NEW rows, RowsType(rows), Fit(rows),
           Bounded(s, rows)
    PROVE  /\ RowsType(Effect(rows, Head(s))) /\ Fit(Effect(rows, Head(s)))
           /\ Bounded(Tail(s), Effect(rows, Head(s)))
  <1> DEFINE q == Head(s)
             t == Tail(s)
             after == Effect(rows, q)
  <1>1. q \in PriceQuery /\ q = s[1] /\ t \in Seq(PriceQuery) /\ Len(s) = Len(t) + 1 /\ Len(t) \in Nat
    BY HeadTailProperties, EmptySeq, LenProperties
  <1>2. \A n \in 1..Len(t) : t[n] = s[n + 1]
    BY HeadTailProperties
  <1>3. /\ PriceListMax \in Nat
        /\ \A n \in 1..Len(s) : s[n] \in PriceQuery /\ s[n].owner \in Owner
    BY PriceAssumption, QueryType, ElementOfSeq
  <1>4. CASE q.op = "save"
    <2>1. Len(q.list) = 1 /\ Cardinality(rows[q.owner]) + 1 <= PriceListMax
      <3>1. 1 \in 1..Len(s) /\ ~\E d \in 1..Len(s) : BehindDelete(s, 1, d)
        BY <1>1 DEF BehindDelete
      <3> QED BY <1>1, <1>4, <3>1 DEF Bounded, InFront
    <2>2. /\ RowsType(after)
          /\ \A o \in Owner : o # q.owner => after[o] = rows[o]
          /\ Cardinality(after[q.owner]) <= Cardinality(rows[q.owner]) + 1
          /\ Cardinality(rows[q.owner]) \in Nat
          /\ Cardinality(after[q.owner]) \in Nat
      BY <1>1, <1>4, <2>1, SaveRows
    <2> HIDE DEF after, t, q
    <2>3. Fit(after)
      BY <1>3, <2>1, <2>2 DEF Fit
    <2>4. Bounded(t, after)
      <3>1. SUFFICES ASSUME NEW n \in 1..Len(t), t[n].op = "save"
                     PROVE  /\ Len(t[n].list) = 1
                            /\ InFront(t, after, n) \/ \E d \in 1..Len(t) : BehindDelete(t, n, d)
        BY DEF Bounded
      <3>2. n + 1 \in 1..Len(s) /\ t[n] = s[n + 1]
        BY <1>1, <1>2
      <3>3. /\ Len(t[n].list) = 1
            /\ InFront(s, rows, n + 1) \/ \E d \in 1..Len(s) : BehindDelete(s, n + 1, d)
        BY <3>1, <3>2 DEF Bounded
      <3>4. CASE InFront(s, rows, n + 1)
        <4>1. q.owner = t[n].owner
          BY <1>1, <3>2, <3>4 DEF InFront, IsSave
        <4>2. \A i \in 1..n : IsSave(t[i], t[n].owner)
          <5>1. \A i \in 1..n : i + 1 \in 1..n + 1 /\ i \in 1..Len(t)
            BY <1>1
          <5> QED BY <1>2, <3>2, <3>4, <5>1 DEF InFront
        <4>3. Cardinality(rows[q.owner]) + (n + 1) <= PriceListMax
          BY <3>2, <3>4, <4>1 DEF InFront
        <4>4. Cardinality(after[q.owner]) + n <= PriceListMax
          BY <1>3, <2>2, <4>3
        <4>5. InFront(t, after, n)
          BY <4>1, <4>2, <4>4 DEF InFront
        <4> QED BY <3>3, <4>5
      <3>5. CASE \E d \in 1..Len(s) : BehindDelete(s, n + 1, d)
        <4>1. PICK d \in 1..Len(s) : BehindDelete(s, n + 1, d)
          BY <3>5
        <4>2. d # 1
          BY <1>1, <1>4, <4>1 DEF BehindDelete
        <4>3. d - 1 \in 1..Len(t) /\ t[d - 1] = s[d]
          BY <1>1, <1>2, <4>2
        <4>4. \A i \in d..n : i + 1 \in d + 1..n + 1 /\ i \in 1..Len(t)
          BY <1>1
        <4>5. \A i \in (d - 1) + 1..n : IsSave(t[i], t[n].owner)
          BY <1>2, <3>2, <4>1, <4>4 DEF BehindDelete
        <4>6. BehindDelete(t, n, d - 1)
          BY <1>3, <3>2, <4>1, <4>3, <4>5 DEF BehindDelete
        <4> QED BY <3>3, <4>3, <4>6
      <3> QED BY <3>3, <3>4, <3>5
    <2> QED BY <2>2, <2>3, <2>4 DEF after, t, q
  <1>5. CASE q.op # "save"
    <2>1. /\ RowsType(after)
          /\ \A o \in Owner : after[o] = rows[o] \/ Cardinality(after[o]) = 0
          /\ q.op = "destroy" => Cardinality(after[q.owner]) = 0
      BY <1>1, <1>5, OtherRows
    <2> HIDE DEF after, t, q
    <2>2. Fit(after)
      BY <1>3, <2>1 DEF Fit
    <2>3. Bounded(t, after)
      <3>1. SUFFICES ASSUME NEW n \in 1..Len(t), t[n].op = "save"
                     PROVE  /\ Len(t[n].list) = 1
                            /\ InFront(t, after, n) \/ \E d \in 1..Len(t) : BehindDelete(t, n, d)
        BY DEF Bounded
      <3>2. n + 1 \in 1..Len(s) /\ t[n] = s[n + 1]
        BY <1>1, <1>2
      <3>3. 1 \in 1..n + 1
        OBVIOUS
      <3>4. ~InFront(s, rows, n + 1)
        BY <1>1, <1>5, <3>3 DEF InFront, IsSave
      <3>5. Len(t[n].list) = 1
        BY <3>1, <3>2 DEF Bounded
      <3>6. PICK d \in 1..Len(s) : BehindDelete(s, n + 1, d)
        BY <3>1, <3>2, <3>4 DEF Bounded
      <3>7. \A i \in d..n : i + 1 \in d + 1..n + 1 /\ i \in 1..Len(t) /\ t[i] = s[i + 1]
        BY <1>1, <1>2
      <3>8. \A i \in d..n : IsSave(t[i], t[n].owner)
        BY <3>2, <3>6, <3>7 DEF BehindDelete
      <3>9. CASE d = 1
        <4>1. q.op = "destroy" /\ q.owner = t[n].owner /\ n <= PriceListMax
          BY <1>1, <1>3, <3>2, <3>6, <3>9 DEF BehindDelete
        <4>2. Cardinality(after[t[n].owner]) + n <= PriceListMax
          BY <2>1, <4>1
        <4>3. InFront(t, after, n)
          BY <3>8, <3>9, <4>2 DEF InFront
        <4> QED BY <3>5, <4>3
      <3>10. CASE d # 1
        <4>1. d - 1 \in 1..Len(t) /\ t[d - 1] = s[d]
          BY <1>1, <1>2, <3>10
        <4>2. \A i \in (d - 1) + 1..n : IsSave(t[i], t[n].owner)
          BY <3>8
        <4>3. BehindDelete(t, n, d - 1)
          BY <1>3, <3>2, <3>6, <4>1, <4>2 DEF BehindDelete
        <4> QED BY <3>5, <4>1, <4>3
      <3> QED BY <3>9, <3>10
    <2> QED BY <2>1, <2>2, <2>3 DEF after, t, q
  <1> QED BY <1>4, <1>5

(* A query that is no INSERT at the end of a queue.                        *)
LEMMA BoundedAppend ==
    ASSUME NEW s \in Seq(PriceQuery), NEW rows, Bounded(s, rows), NEW q \in PriceQuery,
           q.op # "save"
    PROVE  Bounded(Append(s, q), rows)
  <1> DEFINE t == Append(s, q)
  <1>1. /\ Len(s) \in Nat /\ Len(t) = Len(s) + 1 /\ t[Len(s) + 1] = q
        /\ \A n \in 1..Len(s) : t[n] = s[n]
    BY AppendProperties, LenProperties
  <1> HIDE DEF t
  <1>2. SUFFICES ASSUME NEW n \in 1..Len(t), t[n].op = "save"
                 PROVE  /\ Len(t[n].list) = 1
                        /\ InFront(t, rows, n) \/ \E d \in 1..Len(t) : BehindDelete(t, n, d)
    BY DEF t, Bounded
  <1>3. n \in 1..Len(s) /\ t[n] = s[n]
    BY <1>1, <1>2
  <1>4. /\ Len(s[n].list) = 1
        /\ InFront(s, rows, n) \/ \E d \in 1..Len(s) : BehindDelete(s, n, d)
    BY <1>2, <1>3 DEF Bounded
  <1>5. \A i \in 1..n : t[i] = s[i]
    BY <1>1, <1>3
  <1>6. InFront(s, rows, n) => InFront(t, rows, n)
    BY <1>3, <1>5 DEF InFront
  <1>7. \A d \in 1..Len(s) : BehindDelete(s, n, d) => d \in 1..Len(t) /\ BehindDelete(t, n, d)
    BY <1>1, <1>3, <1>5 DEF BehindDelete
  <1> QED BY <1>3, <1>4, <1>6, <1>7

(* The queries of a flush.                                                 *)
LEMMA OnFlushIs ==
    ASSUME NEW o \in Owner, NEW list \in PriceLists
    PROVE  /\ OnFlush(o, list) \in Seq(PriceQuery)
           /\ Len(list) \in Nat /\ Len(OnFlush(o, list)) = Len(list) + 1
           /\ OnFlush(o, list)[1] = [op |-> "destroy", owner |-> o, list |-> <<>>]
           /\ \A i \in 1..Len(list) :
                OnFlush(o, list)[i + 1] = [op |-> "save", owner |-> o, list |-> <<list[i]>>]
  <1> DEFINE f == OnFlush(o, list)
             destroy == [op |-> "destroy", owner |-> o, list |-> <<>>]
             Save(i) == [op |-> "save", owner |-> o, list |-> <<list[i]>>]
             saves == [i \in DOMAIN list |-> Save(i)]
  <1>1. list \in Seq(Entry) /\ Len(list) \in Nat /\ Len(list) <= PriceListMax /\ PriceListMax \in Nat
    BY ListIs, PriceAssumption
  <1>2. destroy \in PriceQuery
    BY QueryType
  <1>3. \A i \in DOMAIN list : Save(i) \in PriceQuery
    <2>1. SUFFICES ASSUME NEW i \in DOMAIN list PROVE Save(i) \in PriceQuery
      OBVIOUS
    <2>2. <<list[i]>> \in Seq(Entry) /\ Len(<<list[i]>>) = 1 /\ 1 <= PriceListMax
      BY <1>1
    <2>3. <<list[i]>> \in PriceLists
      BY <2>2, ListIs
    <2> QED BY <2>3, QueryType
  <1> HIDE DEF Save
  <1>4. saves \in Seq(PriceQuery) /\ Len(saves) = Len(list) /\ \A i \in 1..Len(list) : saves[i] = Save(i)
    BY <1>1, <1>3
  <1>5. <<destroy>> \in Seq(PriceQuery) /\ Len(<<destroy>>) = 1 /\ <<destroy>>[1] = destroy
    BY <1>2
  <1>6. f = <<destroy>> \o saves
    BY DEF OnFlush, Save
  <1> HIDE DEF destroy, saves, f
  <1>7. f \in Seq(PriceQuery) /\ Len(f) = Len(list) + 1 /\ f[1] = destroy
    BY <1>1, <1>4, <1>5, <1>6, ConcatProperties
  <1>8. \A i \in 1..Len(list) : f[i + 1] = Save(i)
    BY <1>1, <1>4, <1>5, <1>6, <1>7, ConcatProperties
  <1> QED BY <1>1, <1>7, <1>8 DEF f, destroy, Save

(* A flush at the end of a queue.                                          *)
LEMMA BoundedFlush ==
    ASSUME NEW s \in Seq(PriceQuery), NEW rows, Bounded(s, rows), NEW o \in Owner,
           NEW list \in PriceLists
    PROVE  /\ OnFlush(o, list) \in Seq(PriceQuery)
           /\ Bounded(s \o OnFlush(o, list), rows)
  <1> DEFINE f == OnFlush(o, list)
             t == s \o f
  <1>1. list \in Seq(Entry) /\ Len(list) \in Nat /\ Len(list) <= PriceListMax /\ PriceListMax \in Nat
    BY ListIs, PriceAssumption
  <1>2. /\ f \in Seq(PriceQuery) /\ Len(f) = Len(list) + 1
        /\ f[1] = [op |-> "destroy", owner |-> o, list |-> <<>>]
        /\ \A i \in 1..Len(list) : f[i + 1] = [op |-> "save", owner |-> o, list |-> <<list[i]>>]
    BY OnFlushIs
  <1> HIDE DEF f
  <1>9. /\ f[1].op = "destroy" /\ f[1].owner = o
        /\ f \in Seq(PriceQuery) /\ Len(f) = Len(list) + 1
        /\ \A i \in 2..Len(f) : IsSave(f[i], o) /\ Len(f[i].list) = 1
    <2>1. f[1].op = "destroy" /\ f[1].owner = o
      BY <1>2
    <2>2. ASSUME NEW i \in 2..Len(f) PROVE IsSave(f[i], o) /\ Len(f[i].list) = 1
      <3> DEFINE k == i - 1
      <3>1. k \in 1..Len(list) /\ k + 1 = i
        BY <1>1, <1>2
      <3> HIDE DEF k
      <3>2. f[i] = [op |-> "save", owner |-> o, list |-> <<list[k]>>]
        BY <1>2, <3>1
      <3> QED BY <3>2 DEF IsSave
    <2> QED BY <1>2, <2>1, <2>2
  <1>10. /\ t \in Seq(PriceQuery) /\ Len(t) = Len(s) + Len(f) /\ Len(s) \in Nat /\ Len(f) \in Nat
         /\ \A n \in 1..Len(s) : t[n] = s[n]
         /\ \A n \in Len(s) + 1..Len(t) : t[n] = f[n - Len(s)]
    <2>1. t \in Seq(PriceQuery) /\ Len(t) = Len(s) + Len(f)
      BY <1>9, ConcatProperties
    <2>2. Len(s) \in Nat /\ Len(f) \in Nat
      BY <1>9, LenProperties
    <2>3. \A n \in 1..Len(t) : t[n] = IF n <= Len(s) THEN s[n] ELSE f[n - Len(s)]
      BY <1>9, <2>1, ConcatProperties
    <2> HIDE DEF t
    <2> QED BY <2>1, <2>2, <2>3
  <1> HIDE DEF t
  <1>11. ASSUME NEW n \in 1..Len(t), t[n].op = "save"
         PROVE  /\ Len(t[n].list) = 1
                /\ InFront(t, rows, n) \/ \E d \in 1..Len(t) : BehindDelete(t, n, d)
    <2>1. CASE n <= Len(s)
      <3>1. n \in 1..Len(s) /\ t[n] = s[n] /\ \A i \in 1..n : t[i] = s[i]
        BY <1>10, <2>1
      <3>2. /\ Len(s[n].list) = 1
            /\ InFront(s, rows, n) \/ \E d \in 1..Len(s) : BehindDelete(s, n, d)
        BY <1>11, <3>1 DEF Bounded
      <3>3. InFront(s, rows, n) => InFront(t, rows, n)
        BY <3>1 DEF InFront
      <3>4. \A d \in 1..Len(s) : BehindDelete(s, n, d) => d \in 1..Len(t) /\ BehindDelete(t, n, d)
        BY <1>10, <3>1 DEF BehindDelete
      <3> QED BY <3>1, <3>2, <3>3, <3>4
    <2>2. CASE n > Len(s)
      <3> DEFINE d == Len(s) + 1
      <3>1. n - Len(s) \in 1..Len(f) /\ t[n] = f[n - Len(s)] /\ d \in 1..Len(t) /\ t[d] = f[1]
        BY <1>9, <1>10, <2>2
      <3>2. n - Len(s) # 1
        BY <1>9, <1>11, <3>1
      <3>3. n - Len(s) \in 2..Len(f) /\ IsSave(t[n], o) /\ Len(t[n].list) = 1
        BY <1>9, <3>1, <3>2
      <3>4. \A i \in d + 1..n : i - Len(s) \in 2..Len(f) /\ i \in Len(s) + 1..Len(t)
        BY <1>10, <3>3
      <3>5. \A i \in d + 1..n : IsSave(t[i], o)
        BY <1>9, <1>10, <3>4
      <3>6. d < n /\ n - d <= PriceListMax
        BY <1>1, <1>9, <1>10, <3>3
      <3>7. t[n].owner = o
        BY <3>3 DEF IsSave
      <3> HIDE DEF d
      <3>8. BehindDelete(t, n, d)
        BY <1>9, <3>1, <3>5, <3>6, <3>7 DEF BehindDelete
      <3> QED BY <3>1, <3>3, <3>8
    <2>3. n \in Nat /\ Len(s) \in Nat
      BY <1>10
    <2>4. n <= Len(s) \/ n > Len(s)
      BY <2>3
    <2> QED BY <2>1, <2>2, <2>4
  <1>12. Bounded(t, rows)
    BY <1>11 DEF Bounded
  <1> QED BY <1>9, <1>12 DEF f, t

-----------------------------------------------------------------------------
(* Queues                                                                  *)

LEMMA PushAtEnd ==
    ASSUME NEW S, NEW a \in Seq(S), NEW b \in Seq(S), NEW q \in S
    PROVE  a \o Append(b, q) \o <<>> = Append(a \o b \o <<>>, q)
  <1>1. a \o b \in Seq(S) /\ <<q>> \in Seq(S) /\ <<>> \in Seq(S)
    BY ConcatProperties, EmptySeq
  <1>2. Append(b, q) = b \o <<q>> /\ Append(b, q) \in Seq(S)
    BY AppendIsConcat, AppendProperties
  <1>3. a \o Append(b, q) = (a \o b) \o <<q>>
    BY <1>1, <1>2, ConcatAssociative
  <1>4. a \o Append(b, q) \in Seq(S)
    BY <1>2, ConcatProperties
  <1>5. a \o Append(b, q) \o <<>> = (a \o b) \o <<q>>
    BY <1>3, <1>4, ConcatEmptySeq
  <1>6. a \o b \o <<>> = a \o b
    BY <1>1, ConcatEmptySeq
  <1>7. Append(a \o b, q) = (a \o b) \o <<q>>
    BY <1>1, AppendIsConcat
  <1> QED BY <1>5, <1>6, <1>7

LEMMA TakeFront ==
    ASSUME NEW S, NEW a \in Seq(S), NEW b \in Seq(S), a # <<>>
    PROVE  a \o b # <<>> /\ Head(a \o b) = Head(a) /\ Tail(a \o b) = Tail(a) \o b
  <1>1. a \o b \in Seq(S) /\ Len(a \o b) = Len(a) + Len(b) /\ Len(b) \in Nat /\ Len(a) \in Nat \ {0}
    BY ConcatProperties, EmptySeq, LenProperties
  <1>2. \A i \in 1..Len(a) + Len(b) : (a \o b)[i] = IF i <= Len(a) THEN a[i] ELSE b[i - Len(a)]
    BY ConcatProperties
  <1>3. a \o b # <<>>
    BY <1>1, EmptySeq
  <1>4. 1 \in 1..Len(a) + Len(b) /\ 1 <= Len(a)
    BY <1>1
  <1>5. Head(a \o b) = Head(a)
    BY <1>1, <1>2, <1>4
  <1>6. /\ Tail(a) \in Seq(S) /\ Len(Tail(a)) = Len(a) - 1
        /\ \A i \in 1..Len(Tail(a)) : Tail(a)[i] = a[i + 1]
    BY HeadTailProperties
  <1>7. /\ Tail(a \o b) \in Seq(S) /\ Len(Tail(a \o b)) = Len(a) + Len(b) - 1
        /\ \A i \in 1..Len(Tail(a \o b)) : Tail(a \o b)[i] = (a \o b)[i + 1]
    BY <1>1, <1>3, HeadTailProperties
  <1>8. /\ Tail(a) \o b \in Seq(S) /\ Len(Tail(a) \o b) = Len(a) - 1 + Len(b)
        /\ \A i \in 1..Len(a) - 1 + Len(b) :
            (Tail(a) \o b)[i] = IF i <= Len(a) - 1 THEN Tail(a)[i] ELSE b[i - (Len(a) - 1)]
    BY <1>6, ConcatProperties
  <1>9. \A i \in 1..Len(a) + Len(b) - 1 : Tail(a \o b)[i] = (Tail(a) \o b)[i]
    BY <1>1, <1>2, <1>6, <1>7, <1>8
  <1>10. Tail(a \o b) = Tail(a) \o b
    BY <1>1, <1>7, <1>8, <1>9, SeqEqual
  <1> QED BY <1>3, <1>5, <1>10

-----------------------------------------------------------------------------
(* The invariant                                                           *)

(* All that is pushed or about to be, in the order of its execution.       *)
Stream == copy \o query \o todo

Answered == \A i \in 1..Len(results) : results[i].reply \in PriceLists

Flows == Fit(table) /\ Bounded(Stream, table) /\ Answered

FlowInv == TypeOK /\ IInv /\ RowsType(table) /\ (Abandoned \/ Flows)

LEMMA Constants ==
    /\ Query = PriceQuery /\ Returning = PriceQuery /\ Reply = Answers
    /\ Sql!Result = [query : PriceQuery, reply : Answers]
    /\ SemMax \in Nat \ {0}
  BY PriceAssumption DEF Sql!Result, Sql!SqlAssumption

LEMMA StreamType ==
    ASSUME TypeOK
    PROVE  /\ copy \in Seq(PriceQuery) /\ query \in Seq(PriceQuery) /\ todo \in Seq(PriceQuery)
           /\ copy \o query \in Seq(PriceQuery) /\ Stream \in Seq(PriceQuery)
  <1>1. copy \in Seq(PriceQuery) /\ query \in Seq(PriceQuery) /\ todo \in Seq(PriceQuery)
    BY Constants DEF TypeOK, Sql!TypeOK
  <1>2. copy \o query \in Seq(PriceQuery)
    BY <1>1, ConcatProperties
  <1> QED BY <1>1, <1>2, ConcatProperties DEF Stream

LEMMA EmptyAnswer == <<>> \in Answers
  <1>1. Cardinality({}) = 0
    BY FS_EmptySet
  <1>2. <<>> \in SetToSeqs({})
    BY <1>1 DEF SetToSeqs
  <1> QED BY <1>2 DEF Answers, SetToAllKPermutations

LEMMA RepliesOK ==
    ASSUME RowsType(table), NEW q \in PriceQuery, NEW reply \in Replies(q)
    PROVE  /\ reply \in Answers
           /\ Fit(table) => reply \in PriceLists
  <1>1. q.owner \in Owner
    BY QueryType
  <1>2. CASE q.op \in {"load", "loadForUpdate"}
    <2> DEFINE T == table[q.owner]
    <2>1. reply \in SetToSeqs(T) /\ T \in SUBSET Entry /\ IsFiniteSet(T)
      BY <1>1, <1>2 DEF Replies, RowsType
    <2>2. Fit(table) => Cardinality(T) <= PriceListMax
      BY <1>1 DEF Fit
    <2> HIDE DEF T
    <2>3. reply \in Answers
      BY <2>1 DEF Answers, SetToAllKPermutations
    <2>4. reply \in [1..Cardinality(T) -> Entry] /\ Cardinality(T) \in Nat
      BY <2>1, FS_CardinalityType DEF SetToSeqs
    <2>5. Cardinality(T) <= PriceListMax => reply \in PriceLists
      <3>1. SUFFICES ASSUME Cardinality(T) <= PriceListMax PROVE reply \in PriceLists
        OBVIOUS
      <3>2. Cardinality(T) \in 0..PriceListMax
        BY <2>4, <3>1, PriceAssumption
      <3> QED BY <2>4, <3>2 DEF PriceLists
    <2> QED BY <2>2, <2>3, <2>5
  <1>3. CASE q.op \notin {"load", "loadForUpdate"}
    <2>1. reply = <<>>
      BY <1>3 DEF Replies
    <2> QED BY <2>1, EmptyAnswer, EmptyList
  <1> QED BY <1>2, <1>3

(* Nothing is abandoned while results are handled and queries pushed.      *)
LEMMA RunFlows ==
    ASSUME FlowInv, main = "run"
    PROVE  Flows /\ loop \notin {"drain", "done"}
  BY DEF FlowInv, IInv, Ended, Abandoned

-----------------------------------------------------------------------------
(* How the stream changes                                                  *)

LEMMA PushStream ==
    ASSUME TypeOK, todo = <<>>, NEW q \in PriceQuery, Sql!PushQuery(q), UNCHANGED todo
    PROVE  Stream' = Append(Stream, q)
  <1>1. query' = Append(query, q) /\ copy' = copy
    BY DEF Sql!PushQuery
  <1> QED BY <1>1, StreamType, PushAtEnd DEF Stream

LEMMA FlushStream ==
    ASSUME TypeOK, UNCHANGED sqlVars, todo = <<>>, NEW o \in Owner, NEW list \in PriceLists,
           todo' = OnFlush(o, list)
    PROVE  Stream' = Stream \o OnFlush(o, list)
  <1>1. copy \o query \in Seq(PriceQuery)
    BY StreamType
  <1>2. Stream = copy \o query
    BY <1>1, ConcatEmptySeq DEF Stream
  <1> QED BY <1>2 DEF Stream, sqlVars

LEMMA PushTodoStream ==
    ASSUME TypeOK, PushTodo
    PROVE  Stream' = Stream
  <1>1. copy \in Seq(PriceQuery) /\ query \in Seq(PriceQuery) /\ todo \in Seq(PriceQuery)
    BY StreamType
  <1> DEFINE h == Head(todo)
  <1>2. todo # <<>> /\ todo' = Tail(todo) /\ query' = Append(query, h) /\ copy' = copy
    BY DEF PushTodo, Sql!PushQuery
  <1>3. h \in PriceQuery /\ todo' \in Seq(PriceQuery) /\ todo = <<h>> \o todo'
    BY <1>1, <1>2, HeadTailProperties
  <1> HIDE DEF h
  <1>4. /\ <<h>> \in Seq(PriceQuery) /\ copy \o query \in Seq(PriceQuery)
        /\ query \o <<h>> \in Seq(PriceQuery) /\ query' = query \o <<h>>
    BY <1>1, <1>2, <1>3, AppendIsConcat, ConcatProperties
  <1>5. copy \o (query \o <<h>>) = (copy \o query) \o <<h>>
    BY <1>1, <1>4, ConcatAssociative
  <1>6. ((copy \o query) \o <<h>>) \o todo' = (copy \o query) \o (<<h>> \o todo')
    BY <1>3, <1>4, ConcatAssociative
  <1> QED BY <1>2, <1>3, <1>4, <1>5, <1>6 DEF Stream

LEMMA ExecuteStream ==
    ASSUME TypeOK, copy # <<>>, copy' = Tail(copy), UNCHANGED <<query, todo>>
    PROVE  Stream # <<>> /\ Head(Stream) = Head(copy) /\ Stream' = Tail(Stream)
  <1>1. /\ copy \o query \in Seq(PriceQuery) /\ query \in Seq(PriceQuery)
        /\ copy \in Seq(PriceQuery) /\ todo \in Seq(PriceQuery)
    BY StreamType
  <1>2. copy \o query # <<>> /\ Head(copy \o query) = Head(copy) /\ Tail(copy \o query) = Tail(copy) \o query
    BY <1>1, TakeFront
  <1>3. /\ Stream # <<>> /\ Head(Stream) = Head(copy \o query)
        /\ Tail(Stream) = Tail(copy \o query) \o todo
    BY <1>1, <1>2, TakeFront DEF Stream
  <1> QED BY <1>2, <1>3 DEF Stream

LEMMA DrainStream ==
    ASSUME TypeOK, copy = <<>>, query # <<>>, query' = Tail(query), UNCHANGED <<copy, todo>>
    PROVE  Stream # <<>> /\ Head(Stream) = Head(query) /\ Stream' = Tail(Stream)
  <1>1. query \in Seq(PriceQuery) /\ todo \in Seq(PriceQuery)
    BY StreamType
  <1>2. Tail(query) \in Seq(PriceQuery)
    BY <1>1, HeadTailProperties
  <1>3. <<>> \o query = query /\ <<>> \o Tail(query) = Tail(query)
    BY <1>1, <1>2, ConcatEmptySeq
  <1>4. Stream = query \o todo /\ Stream' = Tail(query) \o todo
    BY <1>3 DEF Stream
  <1> QED BY <1>1, <1>4, TakeFront

LEMMA CopyStream ==
    ASSUME TypeOK, Sql!CopyQuery, UNCHANGED todo
    PROVE  Stream' = Stream
  <1>1. CASE query = <<>>
    BY <1>1 DEF Sql!CopyQuery, Stream
  <1>2. CASE query # <<>>
    <2>1. copy' = copy \o query /\ query' = <<>>
      BY <1>2 DEF Sql!CopyQuery
    <2>2. copy \o query \in Seq(PriceQuery)
      BY StreamType
    <2>3. copy' \o query' = copy \o query
      BY <2>1, <2>2, ConcatEmptySeq
    <2> QED BY <2>3 DEF Stream
  <1> QED BY <1>1, <1>2

-----------------------------------------------------------------------------
(* The steps of the connection keep its types                              *)

LEMMA PushType ==
    ASSUME Sql!TypeOK, NEW q \in PriceQuery, Sql!PushQuery(q)
    PROVE  Sql!TypeOK'
  BY Constants DEF Sql!TypeOK, Sql!PushQuery, Sql!Release

LEMMA PopType ==
    ASSUME Sql!TypeOK, Sql!PopResult
    PROVE  /\ Sql!TypeOK'
           /\ Head(results) = results[1] /\ results[1] \in Sql!Result /\ Len(results) >= 1
           /\ Len(results') = Len(results) - 1 /\ Len(results) \in Nat
           /\ \A i \in 1..Len(results') : results'[i] = results[i + 1]
  <1>1. results \in Seq(Sql!Result) /\ results # <<>> /\ results' = Tail(results)
    BY DEF Sql!TypeOK, Sql!PopResult
  <1>2. /\ results' \in Seq(Sql!Result) /\ Len(results') = Len(results) - 1
        /\ \A i \in 1..Len(results') : results'[i] = results[i + 1]
    BY <1>1, HeadTailProperties
  <1>3. Len(results) \in Nat \ {0}
    BY <1>1, EmptySeq
  <1>4. Sql!TypeOK'
    BY <1>2 DEF Sql!TypeOK, Sql!PopResult
  <1>5. Head(results) = results[1] /\ results[1] \in Sql!Result
    BY <1>1, <1>3, ElementOfSeq
  <1> QED BY <1>2, <1>3, <1>4, <1>5

LEMMA QuitType ==
    ASSUME Sql!TypeOK, Sql!Quit \/ Sql!QuitRelease \/ Sql!QuitJoin
    PROVE  Sql!TypeOK'
  <1>1. /\ UNCHANGED <<query, copy, results, loop, count, failures>>
        /\ end' \in BOOLEAN /\ main' \in {"release", "join", "joined"}
    BY DEF Sql!TypeOK, Sql!Quit, Sql!QuitRelease, Sql!QuitJoin, Sql!thread
  <1>2. sem' \in 0..SemMax
    BY Constants DEF Sql!TypeOK, Sql!Quit, Sql!QuitRelease, Sql!QuitJoin, Sql!Release, Sql!thread
  <1> QED BY <1>1, <1>2 DEF Sql!TypeOK

LEMMA WaitType ==
    ASSUME Sql!TypeOK, Sql!LoopTop \/ Sql!SemWait \/ Sql!DrainRetry \/ Sql!DrainEnd
    PROVE  Sql!TypeOK'
  BY Constants DEF Sql!TypeOK, Sql!LoopTop, Sql!SemWait, Sql!DrainRetry, Sql!DrainEnd

LEMMA CopyType == ASSUME Sql!TypeOK, Sql!CopyQuery PROVE Sql!TypeOK'
  <1>1. copy \o query \in Seq(Query) /\ Len(copy \o query) \in Nat /\ <<>> \in Seq(Query)
    BY ConcatProperties, LenProperties, EmptySeq DEF Sql!TypeOK
  <1>2. /\ copy' \in Seq(Query) /\ query' \in Seq(Query) /\ count' \in Nat
        /\ loop' \in {"top", "batch"}
    BY <1>1 DEF Sql!TypeOK, Sql!CopyQuery
  <1> QED BY <1>2 DEF Sql!TypeOK, Sql!CopyQuery

LEMMA SlotType ==
    ASSUME IInv, loop = "batch", Sql!NextSlot
    PROVE  count' \in Nat /\ loop' \in {"top", "batch"}
  <1>1. count \in 1..Len(copy) /\ Len(copy) \in Nat
    BY LenProperties DEF IInv, Queues, BatchCovers, Sql!BatchCovers
  <1> QED BY <1>1 DEF Sql!NextSlot

LEMMA RepliedType ==
    ASSUME results \in Seq(Sql!Result), NEW q \in PriceQuery, NEW reply \in Answers,
           Sql!Replied(q, reply)
    PROVE  /\ results' \in Seq(Sql!Result)
           /\ results' = Append(results, [query |-> q, reply |-> reply])
           /\ Len(results') = Len(results) + 1 /\ Len(results) \in Nat
           /\ \A i \in 1..Len(results) : results'[i] = results[i]
           /\ results'[Len(results) + 1] = [query |-> q, reply |-> reply]
  <1> DEFINE r == [query |-> q, reply |-> reply]
  <1>1. r \in Sql!Result
    BY Constants
  <1>2. results' = Append(results, r)
    BY Constants DEF Sql!Replied
  <1>3. Len(results) \in Nat
    BY LenProperties
  <1> HIDE DEF r
  <1>4. /\ Append(results, r) \in Seq(Sql!Result)
        /\ Len(Append(results, r)) = Len(results) + 1
        /\ \A i \in 1..Len(results) : Append(results, r)[i] = results[i]
        /\ Append(results, r)[Len(results) + 1] = r
    BY <1>1, AppendProperties
  <1> QED BY <1>2, <1>3, <1>4 DEF r

LEMMA ExecuteType ==
    ASSUME Sql!TypeOK, IInv, NEW reply \in Answers, Sql!ExecuteQuery(reply)
    PROVE  /\ Sql!TypeOK' /\ copy # <<>> /\ Head(copy) \in PriceQuery
           /\ Sql!Replied(Head(copy), reply)
  <1>1. copy \in Seq(PriceQuery) /\ loop = "batch" /\ copy' = Tail(copy) /\ Sql!NextSlot
        /\ Sql!Replied(Head(copy), reply)
        /\ UNCHANGED <<query, sem, end, failures, main>>
    BY Constants DEF Sql!TypeOK, Sql!ExecuteQuery
  <1>2. copy # <<>>
    BY <1>1, EmptySeq DEF IInv, BatchCovers, Sql!BatchCovers
  <1>3. Head(copy) \in PriceQuery /\ copy' \in Seq(PriceQuery)
    BY <1>1, <1>2, HeadTailProperties
  <1>4. results' \in Seq(Sql!Result)
    BY <1>1, <1>3, RepliedType DEF Sql!TypeOK
  <1>5. count' \in Nat /\ loop' \in {"top", "batch"}
    BY <1>1, SlotType
  <1> QED BY <1>1, <1>2, <1>3, <1>4, <1>5, Constants DEF Sql!TypeOK

LEMMA RetryType == ASSUME Sql!TypeOK, IInv, Sql!RetryQuery PROVE Sql!TypeOK'
  <1>1. count' \in Nat /\ loop' \in {"top", "batch"}
    BY SlotType DEF Sql!RetryQuery
  <1> QED BY <1>1, Constants DEF Sql!TypeOK, Sql!RetryQuery, Sql!Release

LEMMA DrainType ==
    ASSUME Sql!TypeOK, NEW reply \in Answers, Sql!DrainQuery(reply)
    PROVE  /\ Sql!TypeOK' /\ query # <<>> /\ Head(query) \in PriceQuery
           /\ Sql!Replied(Head(query), reply)
  <1>1. query \in Seq(PriceQuery) /\ query # <<>> /\ query' = Tail(query)
        /\ Sql!Replied(Head(query), reply)
        /\ UNCHANGED <<copy, sem, end, loop, count, failures, main>>
    BY Constants DEF Sql!TypeOK, Sql!DrainQuery
  <1>2. Head(query) \in PriceQuery /\ query' \in Seq(PriceQuery)
    BY <1>1, HeadTailProperties
  <1>3. results' \in Seq(Sql!Result)
    BY <1>1, <1>2, RepliedType DEF Sql!TypeOK
  <1> QED BY <1>1, <1>2, <1>3, Constants DEF Sql!TypeOK

-----------------------------------------------------------------------------
(* The steps of the system keep the rows within their bound                *)

(* What a handler leaves in the cache.                                     *)
LEMMA CacheType ==
    ASSUME TypeOK, NEW o \in Owner, NEW list \in PriceLists, NEW dirty \in BOOLEAN,
           cache' = [cache EXCEPT ![o] = [list |-> list, needQuery |-> dirty]]
    PROVE  cache' \in [Owner -> CacheEntry]
  BY DEF TypeOK, CacheEntry

LEMMA UncachedType ==
    ASSUME TypeOK, NEW o \in Owner, cache' = [cache EXCEPT ![o] = NoList]
    PROVE  cache' \in [Owner -> CacheEntry]
  BY DEF TypeOK, CacheEntry

LEMMA CachedType ==
    ASSUME TypeOK, NEW o \in Owner, Cached(o)
    PROVE  cache[o].list \in PriceLists /\ cache[o].needQuery \in BOOLEAN
  BY DEF TypeOK, CacheEntry, Cached

(* A handler that pushes a query of its own.                               *)
LEMMA PushFlow ==
    ASSUME FlowInv, Ready, NEW q \in PriceQuery, q.op # "save", Sql!PushQuery(q),
           UNCHANGED <<cache, table, todo, serving>>
    PROVE  FlowInv'
  <1>1. TypeOK /\ IInv /\ RowsType(table) /\ todo = <<>> /\ main = "run"
    BY DEF FlowInv, Ready, Sql!PushQuery
  <1>2. TypeOK'
    BY <1>1, PushType DEF TypeOK
  <1>3. IInv'
    BY <1>1, PushOK
  <1>4. query' = Append(query, q) /\ UNCHANGED <<copy, results>>
    BY DEF Sql!PushQuery
  <1>5. Flows
    BY <1>1, RunFlows
  <1>6. Stream' = Append(Stream, q)
    BY <1>1, PushStream
  <1>7. Bounded(Append(Stream, q), table)
    BY <1>1, <1>5, StreamType, BoundedAppend DEF Flows
  <1>8. Flows'
    BY <1>4, <1>5, <1>6, <1>7 DEF Flows, Answered
  <1> QED BY <1>1, <1>2, <1>3, <1>8 DEF FlowInv

(* A result is taken.                                                      *)
LEMMA PopFlow ==
    ASSUME FlowInv, Sql!PopResult, cache' \in [Owner -> CacheEntry],
           UNCHANGED <<table, todo, serving>>
    PROVE  FlowInv'
  <1>1. TypeOK /\ IInv /\ RowsType(table) /\ main = "run" /\ Sql!TypeOK
    BY DEF FlowInv, TypeOK, Sql!PopResult
  <1>2. TypeOK'
    BY <1>1, PopType DEF TypeOK
  <1>3. IInv'
    BY <1>1, PopOK
  <1>4. UNCHANGED <<query, copy>>
    BY DEF Sql!PopResult
  <1>5. Flows
    BY <1>1, RunFlows
  <1>6. Answered'
    <2>1. /\ Len(results') = Len(results) - 1 /\ Len(results) \in Nat
          /\ \A i \in 1..Len(results') : results'[i] = results[i + 1]
      BY <1>1, PopType
    <2>2. \A i \in 1..Len(results') : i + 1 \in 1..Len(results)
      BY <2>1
    <2> QED BY <1>5, <2>1, <2>2 DEF Flows, Answered
  <1>7. Flows'
    BY <1>4, <1>5, <1>6 DEF Flows, Stream
  <1> QED BY <1>1, <1>2, <1>3, <1>7 DEF FlowInv

LEMMA HeadAnswer ==
    ASSUME FlowInv, Sql!PopResult
    PROVE  Head(results).reply \in PriceLists /\ Head(results).query \in PriceQuery
  <1>1. Sql!TypeOK /\ main = "run"
    BY DEF FlowInv, TypeOK, Sql!PopResult
  <1>2. Head(results) = results[1] /\ results[1] \in Sql!Result /\ 1 \in 1..Len(results)
    BY <1>1, PopType
  <1>3. Answered
    BY <1>1, RunFlows DEF Flows
  <1> QED BY <1>2, <1>3, Constants DEF Answered

(* Nothing of the connection or of the queue to be pushed changes.         *)
LEMMA SameFlow ==
    ASSUME FlowInv, UNCHANGED sqlVars, cache' \in [Owner -> CacheEntry], serving' \in BOOLEAN,
           UNCHANGED <<table, todo>>
    PROVE  FlowInv'
  <1>1. TypeOK'
    BY DEF FlowInv, TypeOK, Sql!TypeOK, sqlVars
  <1>2. IInv'
    BY SameOK DEF FlowInv
  <1> QED BY <1>1, <1>2 DEF FlowInv, sqlVars, Flows, Stream, Answered, Abandoned

(* A flush.                                                                *)
LEMMA FlushFlow ==
    ASSUME FlowInv, UNCHANGED sqlVars, todo = <<>>, NEW o \in Owner, NEW list \in PriceLists,
           todo' = OnFlush(o, list), cache' \in [Owner -> CacheEntry], UNCHANGED <<table, serving>>
    PROVE  FlowInv'
  <1>1. TypeOK /\ RowsType(table)
    BY DEF FlowInv
  <1>2. Stream \in Seq(PriceQuery)
    BY <1>1, StreamType
  <1>4. todo' \in Seq(PriceQuery) /\ Stream' = Stream \o OnFlush(o, list)
    BY <1>1, OnFlushIs, FlushStream
  <1>5. TypeOK'
    BY <1>4, Constants DEF FlowInv, TypeOK, Sql!TypeOK, sqlVars
  <1>6. IInv'
    BY SameOK DEF FlowInv
  <1>7. Flows => Flows'
    <2>1. SUFFICES ASSUME Flows PROVE Flows'
      OBVIOUS
    <2>2. Bounded(Stream \o OnFlush(o, list), table)
      BY <1>2, <2>1, BoundedFlush DEF Flows
    <2> QED BY <1>4, <2>1, <2>2 DEF Flows, Answered, sqlVars
  <1> QED BY <1>1, <1>5, <1>6, <1>7 DEF FlowInv, Abandoned, sqlVars

LEMMA HandlerFlow ==
    ASSUME FlowInv, NEW o \in Owner, NEW u \in Updates,
           \/ MyshopPricelistUpdate(o, u) \/ ResultPricelistLoadForUpdate(o, u)
           \/ MyshopPricelistRequest(o) \/ ResultPricelistLoad(o)
           \/ UpdateItemPriceListCache(o) \/ FinalFlush(o)
    PROVE  FlowInv'
  <1>1. TypeOK /\ u \in PriceLists /\ cache \in [Owner -> CacheEntry] /\ serving \in BOOLEAN
    BY PriceAssumption DEF FlowInv, TypeOK
  <1>2. CASE MyshopPricelistUpdate(o, u)
    <2>1. Ready /\ UNCHANGED <<table, todo, serving>>
      BY <1>2 DEF MyshopPricelistUpdate
    <2>2. CASE Cached(o)
      <3>1. /\ cache' = [cache EXCEPT ![o] = [list |-> UpdateList(cache[o].list, u), needQuery |-> TRUE]]
            /\ UNCHANGED sqlVars
        BY <1>1, <1>2, <2>2 DEF MyshopPricelistUpdate
      <3>2. UpdateList(cache[o].list, u) \in PriceLists
        BY <1>1, <2>2, CachedType, ListIs, UpdateListType
      <3>3. cache' \in [Owner -> CacheEntry]
        BY <1>1, <3>1, <3>2, CacheType
      <3> QED BY <1>1, <2>1, <3>1, <3>3, SameFlow
    <2>3. CASE ~Cached(o)
      <3> DEFINE q == [op |-> "loadForUpdate", owner |-> o, list |-> u]
      <3>1. Sql!PushQuery(q) /\ UNCHANGED cache
        BY <1>2, <2>3 DEF MyshopPricelistUpdate
      <3>2. q \in PriceQuery /\ q.op # "save"
        BY <1>1, QueryType
      <3> HIDE DEF q
      <3> QED BY <2>1, <3>1, <3>2, PushFlow
    <2> QED BY <2>2, <2>3
  <1>3. CASE MyshopPricelistRequest(o)
    <2> DEFINE q == [op |-> "load", owner |-> o, list |-> <<>>]
    <2>1. Ready /\ Sql!PushQuery(q) /\ UNCHANGED <<cache, table, todo, serving>>
      BY <1>3 DEF MyshopPricelistRequest
    <2>2. q \in PriceQuery /\ q.op # "save"
      BY QueryType
    <2> HIDE DEF q
    <2> QED BY <2>1, <2>2, PushFlow
  <1>4. CASE ResultPricelistLoad(o)
    <2>1. /\ Sql!PopResult /\ UNCHANGED <<table, todo, serving>>
          /\ \/ cache' = [cache EXCEPT ![o] = PutItemPriceListCache(o, Head(results).reply)]
             \/ UNCHANGED cache
      BY <1>4 DEF ResultPricelistLoad
    <2>2. CASE cache' = [cache EXCEPT ![o] = PutItemPriceListCache(o, Head(results).reply)]
      <3> DEFINE dirty == Cached(o) /\ cache[o].needQuery
      <3>1. dirty \in BOOLEAN
        BY <1>1, CachedType
      <3>2. Head(results).reply \in PriceLists
        BY <2>1, HeadAnswer
      <3>3. cache' = [cache EXCEPT ![o] = [list |-> Head(results).reply, needQuery |-> dirty]]
        BY <2>2 DEF PutItemPriceListCache
      <3> HIDE DEF dirty
      <3>4. cache' \in [Owner -> CacheEntry]
        BY <1>1, <3>1, <3>2, <3>3, CacheType
      <3> QED BY <2>1, <3>4, PopFlow
    <2>3. CASE UNCHANGED cache
      BY <1>1, <2>1, <2>3, PopFlow
    <2> QED BY <2>1, <2>2, <2>3
  <1>5. CASE ResultPricelistLoadForUpdate(o, u)
    <2>1. /\ Sql!PopResult /\ UNCHANGED <<table, todo, serving>>
          /\ cache' = [cache EXCEPT ![o] = [list |-> UpdateList(Head(results).reply, u), needQuery |-> TRUE]]
      BY <1>5 DEF ResultPricelistLoadForUpdate
    <2>2. UpdateList(Head(results).reply, u) \in PriceLists
      BY <1>1, <2>1, HeadAnswer, ListIs, UpdateListType
    <2>3. cache' \in [Owner -> CacheEntry]
      BY <1>1, <2>1, <2>2, CacheType
    <2> QED BY <2>1, <2>3, PopFlow
  <1>6. CASE UpdateItemPriceListCache(o)
    <2>1. /\ Cached(o) /\ todo = <<>> /\ todo' = OnFlush(o, cache[o].list)
          /\ cache' = [cache EXCEPT ![o] = NoList] /\ UNCHANGED <<sqlVars, table, serving>>
      BY <1>6 DEF UpdateItemPriceListCache, Ready
    <2>2. cache[o].list \in PriceLists /\ cache' \in [Owner -> CacheEntry]
      BY <1>1, <2>1, CachedType, UncachedType
    <2> QED BY <2>1, <2>2, FlushFlow
  <1>7. CASE FinalFlush(o)
    <2>1. /\ Cached(o) /\ todo = <<>>
          /\ todo' = IF cache[o].needQuery THEN OnFlush(o, cache[o].list) ELSE <<>>
          /\ cache' = [cache EXCEPT ![o] = NoList] /\ UNCHANGED <<sqlVars, table, serving>>
      BY <1>7 DEF FinalFlush
    <2>2. cache[o].list \in PriceLists /\ cache' \in [Owner -> CacheEntry]
      BY <1>1, <2>1, CachedType, UncachedType
    <2>3. CASE cache[o].needQuery
      BY <2>1, <2>2, <2>3, FlushFlow
    <2>4. CASE ~cache[o].needQuery
      <3>1. UNCHANGED todo
        BY <2>1, <2>4
      <3> QED BY <1>1, <2>1, <2>2, <3>1, SameFlow
    <2> QED BY <2>3, <2>4
  <1> QED BY <1>2, <1>3, <1>4, <1>5, <1>6, <1>7

LEMMA PushTodoFlow == ASSUME FlowInv, PushTodo PROVE FlowInv'
  <1>1. /\ todo # <<>> /\ todo' = Tail(todo) /\ Sql!PushQuery(Head(todo))
        /\ UNCHANGED <<cache, table, serving>>
    BY DEF PushTodo
  <1>2. TypeOK /\ IInv /\ RowsType(table) /\ main = "run"
    BY <1>1 DEF FlowInv, Sql!PushQuery
  <1>3. Head(todo) \in PriceQuery /\ todo' \in Seq(PriceQuery)
    BY <1>1, <1>2, StreamType, HeadTailProperties
  <1>4. TypeOK'
    BY <1>1, <1>2, <1>3, PushType, Constants DEF TypeOK
  <1>5. IInv'
    BY <1>1, <1>2, PushOK
  <1>6. query' = Append(query, Head(todo)) /\ UNCHANGED <<copy, results>>
    BY <1>1 DEF Sql!PushQuery
  <1>7. Stream' = Stream
    BY <1>2, PushTodoStream
  <1>8. Flows
    BY <1>2, RunFlows
  <1>9. Flows'
    BY <1>1, <1>6, <1>7, <1>8 DEF Flows, Answered
  <1> QED BY <1>1, <1>2, <1>4, <1>5, <1>9 DEF FlowInv

LEMMA MainFlow ==
    ASSUME FlowInv, ResultIgnored \/ PushTodo \/ MainLoopExit \/ Quit \/ QuitGoesOn
    PROVE  FlowInv'
  <1>1. cache \in [Owner -> CacheEntry]
    BY DEF FlowInv, TypeOK
  <1>2. CASE ResultIgnored
    BY <1>1, <1>2, PopFlow DEF ResultIgnored
  <1>3. CASE PushTodo
    BY <1>3, PushTodoFlow
  <1>4. CASE MainLoopExit
    BY <1>1, <1>4, SameFlow DEF MainLoopExit
  <1>5. CASE Quit \/ QuitGoesOn
    <2>1. /\ Sql!Quit \/ Sql!QuitRelease \/ Sql!QuitJoin
          /\ UNCHANGED <<cache, table, todo, serving>>
      BY <1>5 DEF Quit, QuitGoesOn
    <2>2. TypeOK'
      BY <2>1, QuitType DEF FlowInv, TypeOK
    <2>3. IInv'
      BY <2>1, QuitOK DEF FlowInv
    <2>4. UNCHANGED <<query, copy, results, loop>>
      BY <2>1 DEF Sql!Quit, Sql!QuitRelease, Sql!QuitJoin, Sql!thread
    <2> QED BY <2>1, <2>2, <2>3, <2>4 DEF FlowInv, Flows, Stream, Answered, Abandoned
  <1> QED BY <1>2, <1>3, <1>4, <1>5

(* A query in front is executed and answered.                              *)
LEMMA AnswerFlow ==
    ASSUME TypeOK, RowsType(table), Flows, Stream # <<>>, NEW q, q = Head(Stream),
           NEW reply \in Replies(q), Sql!Replied(q, reply),
           table' = Effect(table, q), Stream' = Tail(Stream)
    PROVE  Flows'
  <1>1. Stream \in Seq(PriceQuery) /\ results \in Seq(Sql!Result)
    BY StreamType DEF TypeOK, Sql!TypeOK
  <1>2. q \in PriceQuery
    BY <1>1, HeadTailProperties
  <1>3. reply \in Answers /\ reply \in PriceLists
    BY <1>2, RepliesOK DEF Flows
  <1>4. Answered'
    <2>1. /\ Len(results') = Len(results) + 1 /\ Len(results) \in Nat
          /\ \A i \in 1..Len(results) : results'[i] = results[i]
          /\ results'[Len(results) + 1] = [query |-> q, reply |-> reply]
      BY <1>1, <1>2, <1>3, RepliedType
    <2>2. SUFFICES ASSUME NEW i \in 1..Len(results') PROVE results'[i].reply \in PriceLists
      BY DEF Answered
    <2>3. CASE i \in 1..Len(results)
      BY <2>1, <2>3 DEF Flows, Answered
    <2>4. CASE i = Len(results) + 1
      BY <1>3, <2>1, <2>4
    <2> QED BY <2>1, <2>3, <2>4
  <1>5. Fit(Effect(table, q)) /\ Bounded(Tail(Stream), Effect(table, q))
    BY <1>1, BoundedTail DEF Flows
  <1> QED BY <1>4, <1>5 DEF Flows

(* The entries of a list.                                                  *)
LEMMA ListRange ==
    ASSUME NEW list \in PriceLists
    PROVE  /\ Range(list) \in SUBSET Entry /\ IsFiniteSet(Range(list))
           /\ Cardinality(Range(list)) <= PriceListMax
  <1>1. list \in Seq(Entry) /\ Len(list) <= PriceListMax /\ PriceListMax \in Nat /\ Len(list) \in Nat
    BY ListIs, PriceAssumption
  <1> DEFINE D == 1..Len(list)
             R == Range(list)
  <1>2. list \in [D -> R] /\ R \in SUBSET Entry /\ \A e \in R : \E i \in D : list[i] = e
    <2>1. DOMAIN list = D /\ list \in [D -> Entry]
      BY <1>1, LenProperties
    <2>2. R = {list[i] : i \in D}
      BY <2>1 DEF Range
    <2> HIDE DEF D, R
    <2>3. \A i \in D : list[i] \in R
      BY <2>2
    <2> QED BY <2>1, <2>2, <2>3
  <1>3. IsFiniteSet(D) /\ Cardinality(D) = Len(list)
    <2>1. \A k \in Nat : IsFiniteSet(1..k) /\ Cardinality(1..k) = k
      BY FS_Interval
    <2> QED BY <1>1, <2>1
  <1> HIDE DEF D, R
  <1>4. list \in Surjection(D, R)
    BY <1>2 DEF Surjection
  <1>5. IsFiniteSet(R) /\ Cardinality(R) <= Cardinality(D)
    BY <1>3, <1>4, FS_Surjection
  <1>6. Cardinality(R) \in Nat
    BY <1>5, FS_CardinalityType
  <1> QED BY <1>1, <1>2, <1>3, <1>5, <1>6 DEF R

LEMMA EffectType ==
    ASSUME NEW rows, RowsType(rows), NEW q \in PriceQuery
    PROVE  RowsType(Effect(rows, q))
  <1>1. CASE q.op = "save"
    <2> DEFINE R == Range(q.list)
               T == rows[q.owner]
    <2>1. q.owner \in Owner /\ R \in SUBSET Entry /\ IsFiniteSet(R)
      BY QueryType, ListRange
    <2>2. T \in SUBSET Entry /\ IsFiniteSet(T)
      BY <2>1 DEF RowsType
    <2>3. Effect(rows, q) = [rows EXCEPT ![q.owner] = T \cup R]
      BY <1>1 DEF Effect
    <2> HIDE DEF R, T
    <2>4. IsFiniteSet(T \cup R)
      BY <2>1, <2>2, FS_Union
    <2> QED BY <2>1, <2>2, <2>3, <2>4 DEF RowsType
  <1>2. CASE q.op # "save"
    BY <1>2, OtherRows
  <1> QED BY <1>1, <1>2

LEMMA ExecuteFlow == ASSUME FlowInv, ExecuteQuery PROVE FlowInv'
  <1>1. TypeOK /\ IInv /\ RowsType(table) /\ Sql!TypeOK
    BY DEF FlowInv, TypeOK
  <1>2. PICK reply \in Replies(Head(copy)) : Sql!ExecuteQuery(reply)
    BY DEF ExecuteQuery
  <1>3. loop = "batch" /\ table' = Effect(table, Head(copy)) /\ UNCHANGED <<cache, todo, serving>>
    BY DEF ExecuteQuery
  <1>4. copy # <<>> /\ Head(copy) \in PriceQuery /\ copy \in Seq(PriceQuery)
    <2>1. copy \in Seq(PriceQuery)
      BY <1>1, StreamType
    <2>2. copy # <<>>
      BY <1>1, <1>3, <2>1, EmptySeq DEF IInv, BatchCovers, Sql!BatchCovers
    <2> QED BY <2>1, <2>2, HeadTailProperties
  <1>5. reply \in Answers
    BY <1>1, <1>2, <1>4, RepliesOK
  <1>6. Sql!TypeOK' /\ Sql!Replied(Head(copy), reply)
    BY <1>1, <1>2, <1>5, ExecuteType
  <1>7. IInv'
    BY <1>1, <1>2, ExecuteOK
  <1>8. Flows
    BY <1>3 DEF FlowInv, Abandoned
  <1>9. Stream # <<>> /\ Head(Stream) = Head(copy) /\ Stream' = Tail(Stream)
    <2>1. copy' = Tail(copy) /\ UNCHANGED <<query, todo>>
      BY <1>2, <1>3 DEF Sql!ExecuteQuery
    <2> QED BY <1>1, <1>4, <2>1, ExecuteStream
  <1>10. Flows'
    BY <1>1, <1>2, <1>3, <1>6, <1>8, <1>9, AnswerFlow
  <1>11. RowsType(Effect(table, Head(copy)))
    BY <1>1, <1>4, EffectType
  <1>12. TypeOK' /\ RowsType(table)'
    BY <1>1, <1>3, <1>6, <1>11 DEF TypeOK, RowsType
  <1> QED BY <1>7, <1>10, <1>12 DEF FlowInv

LEMMA DrainFlow == ASSUME FlowInv, DrainQuery PROVE FlowInv'
  <1>1. TypeOK /\ IInv /\ RowsType(table) /\ Sql!TypeOK
    BY DEF FlowInv, TypeOK
  <1>2. PICK reply \in Replies(Head(query)) : Sql!DrainQuery(reply)
    BY DEF DrainQuery
  <1>3. /\ query # <<>> /\ table' = Effect(table, Head(query))
        /\ UNCHANGED <<cache, todo, serving>>
    BY DEF DrainQuery
  <1>4. /\ copy \in Seq(PriceQuery) /\ query \in Seq(PriceQuery)
        /\ todo \in Seq(PriceQuery)
    BY <1>1, StreamType
  <1>5. Head(query) \in PriceQuery
    BY <1>3, <1>4, HeadTailProperties
  <1>6. reply \in Answers
    BY <1>1, <1>2, <1>5, RepliesOK
  <1>7. Sql!TypeOK' /\ Sql!Replied(Head(query), reply)
    BY <1>1, <1>2, <1>6, DrainType
  <1>8. IInv'
    BY <1>1, <1>2, DrainOK
  <1>9. RowsType(Effect(table, Head(query)))
    BY <1>1, <1>5, EffectType
  <1>10. TypeOK' /\ RowsType(table)'
    BY <1>1, <1>3, <1>7, <1>9 DEF TypeOK, RowsType
  <1>11. query' = Tail(query) /\ UNCHANGED <<copy, loop>> /\ loop = "drain"
    BY <1>2 DEF Sql!DrainQuery
  <1>12. CASE Abandoned
    <2>1. Abandoned'
      BY <1>11, <1>12 DEF Abandoned
    <2> QED BY <1>8, <1>10, <2>1 DEF FlowInv
  <1>13. CASE ~Abandoned
    <2>1. copy = <<>> /\ Flows
      BY <1>11, <1>13 DEF FlowInv, Abandoned
    <2>5. Stream # <<>> /\ Head(Stream) = Head(query) /\ Stream' = Tail(Stream)
      BY <1>1, <1>3, <1>11, <2>1, DrainStream
    <2>6. Flows'
      BY <1>1, <1>2, <1>3, <1>7, <2>1, <2>5, AnswerFlow
    <2> QED BY <1>8, <1>10, <2>6 DEF FlowInv
  <1> QED BY <1>12, <1>13

LEMMA LoopFlow == ASSUME FlowInv, ChildLoopOnly PROVE FlowInv'
  <1>1. TypeOK /\ IInv /\ RowsType(table) /\ Sql!TypeOK
    BY DEF FlowInv, TypeOK
  <1>2. UNCHANGED <<cache, table, todo, serving>>
    BY DEF ChildLoopOnly
  <1>3. RowsType(table)'
    BY <1>1, <1>2 DEF RowsType
  <1>4. CASE Sql!LoopTop \/ Sql!SemWait \/ Sql!DrainRetry \/ Sql!DrainEnd
    <2>1. TypeOK'
      BY <1>1, <1>2, <1>4, WaitType DEF TypeOK
    <2>2. IInv'
      BY <1>1, <1>4, WaitOK
    <2>3. UNCHANGED <<query, copy, results>> /\ (Abandoned => Abandoned')
      BY <1>4 DEF Abandoned, Sql!LoopTop, Sql!SemWait, Sql!DrainRetry, Sql!DrainEnd
    <2>4. Flows => Flows'
      BY <1>2, <2>3 DEF Flows, Stream, Answered
    <2> QED BY <1>3, <2>1, <2>2, <2>3, <2>4 DEF FlowInv
  <1>5. CASE Sql!CopyQuery
    <2>1. TypeOK'
      BY <1>1, <1>2, <1>5, CopyType DEF TypeOK
    <2>2. IInv'
      BY <1>1, <1>5, CopyOK
    <2>3. Flows
      BY <1>5 DEF FlowInv, Abandoned, Sql!CopyQuery
    <2>4. UNCHANGED results /\ Stream' = Stream
      BY <1>1, <1>2, <1>5, CopyStream DEF Sql!CopyQuery
    <2>5. Flows'
      BY <1>2, <2>3, <2>4 DEF Flows, Answered
    <2> QED BY <1>3, <2>1, <2>2, <2>5 DEF FlowInv
  <1>6. CASE Sql!RetryQuery
    <2>1. TypeOK'
      BY <1>1, <1>2, <1>6, RetryType DEF TypeOK
    <2>2. IInv'
      BY <1>1, <1>6, RetryOK
    <2>3. UNCHANGED <<query, copy, results>> /\ loop = "batch"
      BY <1>6 DEF Sql!RetryQuery
    <2>4. Flows
      BY <2>3 DEF FlowInv, Abandoned
    <2>5. Flows'
      BY <1>2, <2>3, <2>4 DEF Flows, Stream, Answered
    <2> QED BY <1>3, <2>1, <2>2, <2>5 DEF FlowInv
  <1> QED BY <1>4, <1>5, <1>6 DEF ChildLoopOnly

LEMMA InitFlow == ASSUME Init PROVE FlowInv
  <1>1. /\ query = <<>> /\ copy = <<>> /\ results = <<>> /\ sem = 0 /\ end = FALSE
        /\ loop = "top" /\ count = 0 /\ failures = 0 /\ main = "run"
        /\ cache = [o \in Owner |-> NoList] /\ todo = <<>> /\ serving = TRUE
    BY DEF Init, Sql!Init
  <1> DEFINE u == CHOOSE v \in Updates : TRUE
  <1>2. u \in PriceLists
    BY PriceAssumption
  <1>3. table \in [Owner -> {{}, Range(u)}]
    BY DEF Init
  <1> HIDE DEF u
  <1>4. /\ Range(u) \in SUBSET Entry /\ IsFiniteSet(Range(u))
        /\ Cardinality(Range(u)) <= PriceListMax
    BY <1>2, ListRange
  <1>5. IsFiniteSet({}) /\ Cardinality({}) <= PriceListMax
    BY FS_EmptySet, PriceAssumption
  <1>6. RowsType(table) /\ Fit(table)
    BY <1>3, <1>4, <1>5 DEF RowsType, Fit
  <1>7. Sql!TypeOK
    <2>1. query \in Seq(Query) /\ copy \in Seq(Query) /\ results \in Seq(Sql!Result)
      BY <1>1, EmptySeq
    <2>2. sem \in 0..SemMax
      BY <1>1, Constants
    <2> QED BY <1>1, <2>1, <2>2 DEF Sql!TypeOK
  <1>8. TypeOK
    BY <1>1, <1>6, <1>7, EmptySeq DEF TypeOK, RowsType, CacheEntry
  <1>9. Stream = <<>>
    BY <1>1, EmptySeq, ConcatEmptySeq DEF Stream
  <1>10. Flows
    BY <1>1, <1>6, <1>9 DEF Flows, Bounded, Answered
  <1> QED BY <1>6, <1>8, <1>10, InitOK DEF FlowInv

LEMMA StepFlow == ASSUME FlowInv, [Next]_vars PROVE FlowInv'
  <1>1. CASE UNCHANGED vars
    <2>1. cache' \in [Owner -> CacheEntry] /\ serving' \in BOOLEAN
      BY <1>1 DEF FlowInv, TypeOK, vars
    <2> QED BY <1>1, <2>1, SameFlow DEF vars
  <1>2. CASE \E o \in Owner, u \in Updates :
                MyshopPricelistUpdate(o, u) \/ ResultPricelistLoadForUpdate(o, u)
    BY <1>2, HandlerFlow
  <1>3. CASE \E o \in Owner :
                \/ MyshopPricelistRequest(o) \/ ResultPricelistLoad(o)
                \/ UpdateItemPriceListCache(o) \/ FinalFlush(o)
    <2>1. \E u \in Updates : TRUE
      BY PriceAssumption
    <2> QED BY <1>3, <2>1, HandlerFlow
  <1>4. CASE ResultIgnored \/ PushTodo \/ MainLoopExit \/ Quit \/ QuitGoesOn
    BY <1>4, MainFlow
  <1>5. CASE ChildLoop
    BY <1>5, ExecuteFlow, DrainFlow, LoopFlow DEF ChildLoop
  <1> QED BY <1>1, <1>2, <1>3, <1>4, <1>5 DEF Next

LEMMA FlowInductive == Spec => []FlowInv
  <1>1. Init => FlowInv
    BY InitFlow
  <1>2. FlowInv /\ [Next]_vars => FlowInv'
    BY StepFlow
  <1> QED BY <1>1, <1>2, PTL DEF Spec

(* Types: what the handlers cache has at most the entries of a table, as   *)
(* a result is handled only before anything can be abandoned.              *)
THEOREM TypeCorrect == Spec => []TypeOK
  <1>1. FlowInv => TypeOK
    BY DEF FlowInv
  <1> QED BY <1>1, FlowInductive, PTL

(* No order of flushes, retries and executions leaves an owner with more   *)
(* rows than RESULT_PRICELIST_LOAD has room for, but for a DELETE that was *)
(* abandoned at the end.                                                   *)
THEOREM RowsAlwaysFit == Spec => []RowsFit
  <1>1. FlowInv => RowsFit
    BY DEF FlowInv, Flows, Fit, RowsFit
  <1> QED BY <1>1, FlowInductive, PTL

-----------------------------------------------------------------------------
(* What queries make of the rows                                           *)

(* The recursion that defines Executed has a solution, and Executed is one. *)
LEMMA ExecutedSteps ==
    ASSUME NEW rows, NEW queue \in Seq(PriceQuery)
    PROVE  /\ Executed(rows, queue)[0] = rows
           /\ \A n \in 1..Len(queue) :
                  Executed(rows, queue)[n] = Effect(Executed(rows, queue)[n - 1], queue[n])
  <1> DEFINE After(x, n) == Effect(x, queue[n])
             IsTable(f, n) == f = [k \in 0..n |-> IF k = 0 THEN rows ELSE After(f[k - 1], k)]
             S == {n \in Nat : \E f : IsTable(f, n)}
  <1> HIDE DEF After
  <1>1. 0 \in S
    <2> DEFINE f == [k \in 0..0 |-> rows]
    <2>1. IsTable(f, 0)
      OBVIOUS
    <2> QED BY <2>1
  <1>2. ASSUME NEW n \in Nat, n \in S
        PROVE  n + 1 \in S
    <2>1. PICK f : IsTable(f, n)
      BY <1>2
    <2> DEFINE g == [k \in 0 .. n + 1 |-> IF k = n + 1 THEN After(f[n], n + 1) ELSE f[k]]
    <2>2. \A k \in 0 .. n + 1 : g[k] = IF k = 0 THEN rows ELSE After(g[k - 1], k)
      <3>1. SUFFICES ASSUME NEW k \in 0 .. n + 1
                     PROVE  g[k] = IF k = 0 THEN rows ELSE After(g[k - 1], k)
        OBVIOUS
      <3>2. CASE k = 0
        BY <2>1, <3>2
      <3>3. CASE k = n + 1
        <4>1. g[k] = After(f[n], k) /\ k # 0 /\ k - 1 = n /\ g[n] = f[n]
          BY <3>3
        <4> QED BY <4>1
      <3>4. CASE k # 0 /\ k # n + 1
        <4>1. k \in 0..n /\ k - 1 \in 0..n /\ k - 1 # n + 1
          BY <3>4
        <4>2. g[k] = f[k] /\ g[k - 1] = f[k - 1]
          BY <3>4, <4>1
        <4>3. f[k] = After(f[k - 1], k)
          BY <2>1, <3>4, <4>1
        <4> QED BY <3>4, <4>2, <4>3
      <3> QED BY <3>2, <3>3, <3>4
    <2>3. IsTable(g, n + 1)
      BY <2>2
    <2> HIDE DEF g, IsTable
    <2>4. \E h : IsTable(h, n + 1)
      BY <2>3
    <2> QED BY <2>4
  <1>3. Nat \subseteq S
    <2> HIDE DEF S
    <2> QED BY <1>1, <1>2, NatSet
  <1>4. Len(queue) \in Nat
    OBVIOUS
  <1>5. \E f : IsTable(f, Len(queue))
    BY <1>3, <1>4
  <1>6. Executed(rows, queue) = CHOOSE f : IsTable(f, Len(queue))
    BY DEF Executed, After
  <1>7. IsTable(Executed(rows, queue), Len(queue))
    <2> HIDE DEF IsTable
    <2> QED BY <1>5, <1>6
  <1> QED BY <1>4, <1>7 DEF After

(* ... and the only one.                                                   *)
LEMMA ExecutedUnique ==
    ASSUME NEW rows, NEW queue \in Seq(PriceQuery), NEW f, f[0] = rows,
           \A n \in 1..Len(queue) : f[n] = Effect(f[n - 1], queue[n])
    PROVE  \A n \in 0..Len(queue) : f[n] = Executed(rows, queue)[n]
  <1> DEFINE t == Executed(rows, queue)
             S == {n \in Nat : n <= Len(queue) => f[n] = t[n]}
  <1>1. t[0] = rows /\ \A n \in 1..Len(queue) : t[n] = Effect(t[n - 1], queue[n])
    BY ExecutedSteps
  <1> HIDE DEF t
  <1>2. 0 \in S
    BY <1>1
  <1>3. Len(queue) \in Nat
    OBVIOUS
  <1>4. ASSUME NEW n \in Nat, n \in S
        PROVE  n + 1 \in S
    <2>1. SUFFICES ASSUME n + 1 <= Len(queue) PROVE f[n + 1] = t[n + 1]
      OBVIOUS
    <2>2. f[n] = t[n]
      BY <1>3, <1>4, <2>1
    <2>3. n + 1 \in 1..Len(queue) /\ (n + 1) - 1 = n
      BY <1>3, <2>1
    <2>4. f[n + 1] = Effect(f[n], queue[n + 1]) /\ t[n + 1] = Effect(t[n], queue[n + 1])
      BY <1>1, <2>3
    <2> QED BY <2>2, <2>4
  <1>5. Nat \subseteq S
    <2> HIDE DEF S
    <2> QED BY <1>2, <1>4, NatSet
  <1> QED BY <1>3, <1>5 DEF t

(* What is pushed later is executed later.                                 *)
LEMMA ExecutedSent ==
    ASSUME NEW rows, NEW queue \in Seq(PriceQuery), NEW more \in Seq(PriceQuery)
    PROVE  /\ queue \o more \in Seq(PriceQuery) /\ Len(queue \o more) = Len(queue) + Len(more)
           /\ \A n \in 0..Len(queue) :
                  Executed(rows, queue \o more)[n] = Executed(rows, queue)[n]
           /\ \A n \in 0..Len(more) :
                  Executed(rows, queue \o more)[Len(queue) + n]
                      = Executed(Executed(rows, queue)[Len(queue)], more)[n]
  <1> DEFINE all == queue \o more
             t == Executed(rows, all)
             u == Executed(rows, queue)
             f == [n \in 0..Len(more) |-> t[Len(queue) + n]]
  <1>1. /\ all \in Seq(PriceQuery) /\ Len(all) = Len(queue) + Len(more)
        /\ Len(queue) \in Nat /\ Len(more) \in Nat
        /\ \A n \in 1..Len(queue) : all[n] = queue[n]
        /\ \A n \in 1..Len(more) : all[Len(queue) + n] = more[n]
    OBVIOUS
  <1> HIDE DEF all
  <1>2. t[0] = rows /\ \A n \in 1..Len(all) : t[n] = Effect(t[n - 1], all[n])
    BY <1>1, ExecutedSteps
  <1> HIDE DEF t
  <1>3. \A n \in 1..Len(queue) : t[n] = Effect(t[n - 1], queue[n])
    BY <1>1, <1>2
  <1>4. \A n \in 0..Len(queue) : t[n] = u[n]
    BY <1>2, <1>3, ExecutedUnique
  <1> HIDE DEF u
  <1>5. f[0] = u[Len(queue)]
    BY <1>1, <1>4
  <1>6. ASSUME NEW n \in 1..Len(more)
        PROVE  f[n] = Effect(f[n - 1], more[n])
    <2>1. /\ Len(queue) + n \in 1..Len(all) /\ n \in 0..Len(more)
          /\ n - 1 \in 0..Len(more)
          /\ (Len(queue) + n) - 1 = Len(queue) + (n - 1)
      BY <1>1
    <2>2. t[Len(queue) + n] = Effect(t[Len(queue) + (n - 1)], more[n])
      BY <1>1, <1>2, <2>1
    <2> QED BY <2>1, <2>2
  <1>7. \A n \in 0..Len(more) : f[n] = Executed(u[Len(queue)], more)[n]
    <2> HIDE DEF f
    <2> QED BY <1>5, <1>6, ExecutedUnique
  <1>8. \A n \in 0..Len(more) : t[Len(queue) + n] = Executed(u[Len(queue)], more)[n]
    BY <1>7
  <1> QED BY <1>1, <1>4, <1>8 DEF all, t, u

(* The front of a queue is executed: what comes out of it is the same.     *)
LEMMA ExecutedHead ==
    ASSUME NEW rows, NEW queue \in Seq(PriceQuery), queue # <<>>
    PROVE  /\ Tail(queue) \in Seq(PriceQuery) /\ Len(Tail(queue)) = Len(queue) - 1
           /\ \A n \in 0..Len(queue) - 1 :
                  Executed(Effect(rows, Head(queue)), Tail(queue))[n]
                      = Executed(rows, queue)[n + 1]
  <1> DEFINE rest == Tail(queue)
             t == Executed(rows, queue)
             f == [n \in 0..Len(rest) |-> t[n + 1]]
  <1>1. /\ rest \in Seq(PriceQuery) /\ Len(rest) = Len(queue) - 1 /\ Len(queue) \in Nat
        /\ Len(queue) # 0 /\ Head(queue) = queue[1]
        /\ \A n \in 1..Len(rest) : rest[n] = queue[n + 1]
    OBVIOUS
  <1> HIDE DEF rest
  <1>2. t[0] = rows /\ \A n \in 1..Len(queue) : t[n] = Effect(t[n - 1], queue[n])
    BY ExecutedSteps
  <1> HIDE DEF t
  <1>3. f[0] = Effect(rows, Head(queue))
    <2>1. 1 \in 1..Len(queue) /\ 1 - 1 = 0 /\ 0 \in 0..Len(rest) /\ 0 + 1 = 1
      BY <1>1
    <2>2. t[1] = Effect(t[0], queue[1])
      BY <1>2, <2>1
    <2> QED BY <1>1, <1>2, <2>1, <2>2
  <1>4. ASSUME NEW n \in 1..Len(rest)
        PROVE  f[n] = Effect(f[n - 1], rest[n])
    <2>1. n + 1 \in 1..Len(queue) /\ (n + 1) - 1 = n /\ (n - 1) + 1 = n
             /\ n \in 0..Len(rest) /\ n - 1 \in 0..Len(rest)
      BY <1>1
    <2>2. t[n + 1] = Effect(t[n], queue[n + 1])
      BY <1>2, <2>1
    <2> QED BY <1>1, <2>1, <2>2
  <1>5. \A n \in 0..Len(rest) : f[n] = Executed(Effect(rows, Head(queue)), rest)[n]
    <2> HIDE DEF f
    <2> QED BY <1>1, <1>3, <1>4, ExecutedUnique
  <1> QED BY <1>1, <1>5 DEF rest, t

-----------------------------------------------------------------------------
(* The rows when all of a queue is executed.                               *)
Left(rows, s) == Executed(rows, s)[Len(s)]

Writes(q, o) == q.owner = o /\ q.op \in {"destroy", "save"}

LEMMA LeftSplit ==
    ASSUME NEW rows, NEW s \in Seq(PriceQuery), NEW t \in Seq(PriceQuery)
    PROVE  Left(rows, s \o t) = Left(Left(rows, s), t)
  <1>1. Len(t) \in 0..Len(t)
    BY LenProperties
  <1> QED BY <1>1, ExecutedSent DEF Left

LEMMA LeftHead ==
    ASSUME NEW rows, NEW s \in Seq(PriceQuery), s # <<>>
    PROVE  Left(Effect(rows, Head(s)), Tail(s)) = Left(rows, s)
  <1>1. Len(s) \in Nat \ {0}
    BY EmptySeq
  <1> DEFINE n == Len(s) - 1
  <1>2. n \in 0..Len(s) - 1 /\ n + 1 = Len(s) /\ Len(Tail(s)) = n
    BY <1>1, ExecutedHead
  <1> HIDE DEF n
  <1> QED BY <1>2, ExecutedHead DEF Left

LEMMA LeftEmpty == ASSUME NEW rows PROVE Left(rows, <<>>) = rows
  <1>1. <<>> \in Seq(PriceQuery) /\ Len(<<>>) = 0
    BY EmptySeq
  <1> QED BY <1>1, ExecutedSteps DEF Left

LEMMA EffectAt ==
    ASSUME NEW rows, RowsType(rows), NEW q \in PriceQuery, NEW o \in Owner
    PROVE  Effect(rows, q)[o] = IF ~Writes(q, o) THEN rows[o]
                                ELSE IF q.op = "destroy" THEN {} ELSE rows[o] \cup Range(q.list)
  <1>1. q.op \in {"load", "destroy", "loadForUpdate", "save"}
    BY QueryType
  <1>2. rows \in [Owner -> SUBSET Entry]
    BY DEF RowsType
  <1>3. CASE q.op = "destroy"
    BY <1>2, <1>3 DEF Effect, Writes
  <1>4. CASE q.op = "save"
    BY <1>2, <1>4 DEF Effect, Writes
  <1>5. CASE q.op \notin {"destroy", "save"}
    BY <1>1, <1>5 DEF Effect, Writes
  <1> QED BY <1>3, <1>4, <1>5

LEMMA ExecutedType ==
    ASSUME NEW rows, RowsType(rows), NEW queue \in Seq(PriceQuery)
    PROVE  \A n \in 0..Len(queue) : RowsType(Executed(rows, queue)[n])
  <1> DEFINE t == Executed(rows, queue)
             S == {n \in Nat : n <= Len(queue) => RowsType(t[n])}
  <1>1. t[0] = rows /\ \A n \in 1..Len(queue) : t[n] = Effect(t[n - 1], queue[n])
    BY ExecutedSteps
  <1> HIDE DEF t
  <1>2. 0 \in S
    BY <1>1
  <1>3. Len(queue) \in Nat /\ \A n \in 1..Len(queue) : queue[n] \in PriceQuery
    OBVIOUS
  <1>4. ASSUME NEW n \in Nat, n \in S PROVE n + 1 \in S
    <2>1. SUFFICES ASSUME n + 1 <= Len(queue) PROVE RowsType(t[n + 1])
      OBVIOUS
    <2>2. RowsType(t[n]) /\ n + 1 \in 1..Len(queue) /\ (n + 1) - 1 = n
      BY <1>3, <1>4, <2>1
    <2>3. t[n + 1] = Effect(t[n], queue[n + 1]) /\ queue[n + 1] \in PriceQuery
      BY <1>1, <1>3, <2>2
    <2> QED BY <2>2, <2>3, EffectType
  <1>5. Nat \subseteq S
    <2> HIDE DEF S
    <2> QED BY <1>2, <1>4, NatSet
  <1> QED BY <1>3, <1>5 DEF t

LEMMA LeftType ==
    ASSUME NEW rows, RowsType(rows), NEW s \in Seq(PriceQuery)
    PROVE  RowsType(Left(rows, s))
  <1>1. Len(s) \in 0..Len(s)
    BY LenProperties
  <1> QED BY <1>1, ExecutedType DEF Left

(* Queries that write no rows of o.                                        *)
LEMMA LeftUnwritten ==
    ASSUME NEW rows, RowsType(rows), NEW queue \in Seq(PriceQuery), NEW o \in Owner,
           \A n \in 1..Len(queue) : ~Writes(queue[n], o)
    PROVE  Left(rows, queue)[o] = rows[o]
  <1> DEFINE t == Executed(rows, queue)
             S == {n \in Nat : n <= Len(queue) => t[n][o] = rows[o]}
  <1>1. /\ t[0] = rows /\ \A n \in 1..Len(queue) : t[n] = Effect(t[n - 1], queue[n])
        /\ \A n \in 0..Len(queue) : RowsType(t[n])
    BY ExecutedSteps, ExecutedType
  <1> HIDE DEF t
  <1>2. 0 \in S
    BY <1>1
  <1>3. Len(queue) \in Nat /\ \A n \in 1..Len(queue) : queue[n] \in PriceQuery
    OBVIOUS
  <1>4. ASSUME NEW n \in Nat, n \in S PROVE n + 1 \in S
    <2>1. SUFFICES ASSUME n + 1 <= Len(queue) PROVE t[n + 1][o] = rows[o]
      OBVIOUS
    <2>2. t[n][o] = rows[o] /\ n + 1 \in 1..Len(queue) /\ (n + 1) - 1 = n /\ n \in 0..Len(queue)
      BY <1>3, <1>4, <2>1
    <2>3. t[n + 1] = Effect(t[n], queue[n + 1]) /\ queue[n + 1] \in PriceQuery
          /\ ~Writes(queue[n + 1], o) /\ RowsType(t[n])
      BY <1>1, <1>3, <2>2
    <2> DEFINE q == queue[n + 1]
               old == t[n]
    <2>4. t[n + 1] = Effect(old, q) /\ q \in PriceQuery /\ ~Writes(q, o) /\ RowsType(old) /\ old[o] = rows[o]
      BY <2>2, <2>3
    <2> HIDE DEF q, old
    <2>5. Effect(old, q)[o] = old[o]
      BY <2>4, EffectAt
    <2> QED BY <2>4, <2>5
  <1>5. Nat \subseteq S
    <2> HIDE DEF S
    <2> QED BY <1>2, <1>4, NatSet
  <1> QED BY <1>3, <1>5 DEF t, Left

LEMMA ListElements ==
    ASSUME NEW list \in PriceLists
    PROVE  /\ Len(list) \in Nat /\ DOMAIN list = 1..Len(list)
           /\ Range(list) = {list[i] : i \in 1..Len(list)}
  <1>1. list \in Seq(Entry) /\ Len(list) \in Nat /\ DOMAIN list = 1..Len(list)
    BY ListIs, LenProperties
  <1> QED BY <1>1 DEF Range

(* A flush writes its list, whatever the rows were.                        *)
LEMMA LeftFlushed ==
    ASSUME NEW rows, RowsType(rows), NEW o \in Owner, NEW list \in PriceLists
    PROVE  Left(rows, OnFlush(o, list))[o] = Range(list)
  <1> DEFINE f == OnFlush(o, list)
             t == Executed(rows, f)
             S == {n \in Nat : n <= Len(list) => t[n + 1][o] = {list[i] : i \in 1..n}}
  <1>1. /\ f \in Seq(PriceQuery) /\ Len(list) \in Nat /\ Len(f) = Len(list) + 1
        /\ f[1] = [op |-> "destroy", owner |-> o, list |-> <<>>]
        /\ \A i \in 1..Len(list) : f[i + 1] = [op |-> "save", owner |-> o, list |-> <<list[i]>>]
    BY OnFlushIs
  <1> HIDE DEF f
  <1>2. /\ t[0] = rows /\ \A n \in 1..Len(f) : t[n] = Effect(t[n - 1], f[n])
        /\ \A n \in 0..Len(f) : RowsType(t[n])
    BY <1>1, ExecutedSteps, ExecutedType
  <1> HIDE DEF t
  <1>3. \A n \in 1..Len(f) : f[n] \in PriceQuery
    BY <1>1
  <1>4. 0 \in S
    <2>1. 1 \in 1..Len(f) /\ 1 - 1 = 0 /\ 0 + 1 = 1
      BY <1>1
    <2>2. t[1] = Effect(rows, f[1]) /\ f[1] \in PriceQuery
      BY <1>2, <1>3, <2>1
    <2>3. Writes(f[1], o) /\ f[1].op = "destroy"
      BY <1>1 DEF Writes
    <2>4. t[1][o] = {}
      BY <2>2, <2>3, EffectAt
    <2>5. {list[i] : i \in 1..0} = {}
      OBVIOUS
    <2> QED BY <2>1, <2>4, <2>5
  <1>5. ASSUME NEW n \in Nat, n \in S PROVE n + 1 \in S
    <2> DEFINE m == n + 1
    <2>1. SUFFICES ASSUME m <= Len(list) PROVE t[m + 1][o] = {list[i] : i \in 1..m}
      OBVIOUS
    <2>2. /\ t[m][o] = {list[i] : i \in 1..n} /\ m \in 1..Len(list) /\ m + 1 \in 1..Len(f)
          /\ m \in 0..Len(f) /\ (m + 1) - 1 = m
      BY <1>1, <1>5, <2>1
    <2>3. 1..m = (1..n) \cup {m}
      OBVIOUS
    <2>4. {list[i] : i \in 1..m} = {list[i] : i \in 1..n} \cup {list[m]}
      BY <2>3
    <2> HIDE DEF m
    <2>5. t[m + 1] = Effect(t[m], f[m + 1]) /\ f[m + 1] \in PriceQuery /\ RowsType(t[m])
      BY <1>2, <1>3, <2>2
    <2>6. f[m + 1] = [op |-> "save", owner |-> o, list |-> <<list[m]>>]
      BY <1>1, <2>2
    <2>7. Range(<<list[m]>>) = {list[m]}
      BY DEF Range
    <2>8. Writes(f[m + 1], o) /\ f[m + 1].op = "save" /\ f[m + 1].list = <<list[m]>>
      BY <2>6 DEF Writes
    <2>9. t[m + 1][o] = t[m][o] \cup {list[m]}
      <3> DEFINE q == f[m + 1]
                 T == t[m]
      <3>1. q \in PriceQuery /\ RowsType(T) /\ Writes(q, o) /\ q.op # "destroy"
        BY <2>5, <2>8
      <3>2. t[m + 1] = Effect(T, q) /\ Range(q.list) = {list[m]}
        BY <2>5, <2>7, <2>8
      <3> HIDE DEF q, T
      <3>3. Effect(T, q)[o] = T[o] \cup Range(q.list)
        BY <3>1, EffectAt
      <3> QED BY <3>2, <3>3 DEF T
    <2> QED BY <2>2, <2>4, <2>9
  <1>6. Nat \subseteq S
    <2> HIDE DEF S
    <2> QED BY <1>4, <1>5, NatSet
  <1>7. t[Len(list) + 1][o] = {list[i] : i \in 1..Len(list)}
    BY <1>1, <1>6
  <1> QED BY <1>1, <1>7, ListElements DEF Left, f, t

-----------------------------------------------------------------------------
(* What an update makes of a list                                          *)

Elements(s) == {s[i] : i \in 1..Len(s)}

(* The prices of e's kind are not new.                                     *)
Stays(e, new) == \A i \in DOMAIN new : new[i].vnum # e.vnum

LEMMA AppendElements ==
    ASSUME NEW s \in Seq(Entry), NEW e \in Entry
    PROVE  /\ Append(s, e) \in Seq(Entry)
           /\ Elements(Append(s, e)) = Elements(s) \cup {e}
  <1> DEFINE t == Append(s, e)
  <1>1. /\ t \in Seq(Entry) /\ Len(t) = Len(s) + 1 /\ Len(s) \in Nat
        /\ \A i \in 1..Len(s) : t[i] = s[i]
        /\ t[Len(s) + 1] = e
    BY AppendProperties, LenProperties
  <1> HIDE DEF t
  <1>2. 1..Len(t) = (1..Len(s)) \cup {Len(s) + 1}
    BY <1>1
  <1>3. Elements(t) = Elements(s) \cup {e}
    BY <1>1, <1>2 DEF Elements
  <1> QED BY <1>1, <1>3 DEF t

(* What is kept: the old entries of other kinds.                           *)
LEMMA KeptIs ==
    ASSUME NEW old \in Seq(Entry), NEW new
    PROVE  Elements(Kept(old, new)[Len(old)]) = {e \in Elements(old) : Stays(e, new)}
  <1> DEFINE t == Kept(old, new)
             Part(n) == {e \in {old[i] : i \in 1..n} : Stays(e, new)}
             S == {n \in Nat : n <= Len(old) => Elements(t[n]) = Part(n)}
  <1>1. /\ t[0] = <<>>
        /\ \A n \in 1..Len(old) : t[n] = IF ~Stays(old[n], new) THEN t[n - 1] ELSE Append(t[n - 1], old[n])
    BY KeptSteps DEF Stays
  <1>2. \A n \in 0..Len(old) : t[n] \in Seq(Entry)
    BY KeptType
  <1> HIDE DEF t
  <1>3. Len(old) \in Nat /\ \A n \in 1..Len(old) : old[n] \in Entry
    OBVIOUS
  <1>4. 0 \in S
    <2>1. Len(t[0]) = 0
      BY <1>1, EmptySeq
    <2>2. Elements(t[0]) = {}
      BY <2>1 DEF Elements
    <2>3. Part(0) = {}
      OBVIOUS
    <2> QED BY <2>2, <2>3
  <1>5. ASSUME NEW n \in Nat, n \in S PROVE n + 1 \in S
    <2> DEFINE m == n + 1
    <2>1. SUFFICES ASSUME m <= Len(old) PROVE Elements(t[m]) = Part(m)
      OBVIOUS
    <2>2. /\ Elements(t[n]) = Part(n) /\ n \in 0..Len(old)
          /\ m \in 1..Len(old) /\ m - 1 = n
      BY <1>3, <1>5, <2>1
    <2>3. 1..m = (1..n) \cup {m}
      OBVIOUS
    <2>4. {old[i] : i \in 1..m} = {old[i] : i \in 1..n} \cup {old[m]}
      BY <2>3
    <2>5. t[m] = IF ~Stays(old[m], new) THEN t[n] ELSE Append(t[n], old[m])
      BY <1>1, <2>2
    <2>6. t[n] \in Seq(Entry) /\ old[m] \in Entry
      BY <1>2, <1>3, <2>2
    <2> HIDE DEF m
    <2>7. CASE ~Stays(old[m], new)
      <3>1. Part(m) = Part(n)
        BY <2>4, <2>7
      <3> QED BY <2>2, <2>5, <2>7, <3>1
    <2>8. CASE Stays(old[m], new)
      <3>1. Part(m) = Part(n) \cup {old[m]}
        BY <2>4, <2>8
      <3>2. Elements(Append(t[n], old[m])) = Elements(t[n]) \cup {old[m]}
        BY <2>6, AppendElements
      <3> QED BY <2>2, <2>5, <2>8, <3>1, <3>2
    <2> QED BY <2>7, <2>8
  <1>6. Nat \subseteq S
    <2> HIDE DEF S
    <2> QED BY <1>4, <1>5, NatSet
  <1>7. Elements(t[Len(old)]) = Part(Len(old))
    BY <1>3, <1>6
  <1> QED BY <1>7 DEF t, Elements

(* An update is what ListsKept allows.                                     *)
LEMMA UpdateMerges ==
    ASSUME NEW old \in PriceLists, NEW u \in PriceLists
    PROVE  /\ UpdateList(old, u) \in PriceLists
           /\ Merged(Range(old), u, UpdateList(old, u))
  <1> DEFINE kept == Kept(old, u)[Len(old)]
             room == PriceListMax - Len(u)
             m == IF Len(kept) < room THEN Len(kept) ELSE room
             front == SubSeq(kept, 1, m)
             new == UpdateList(old, u)
  <1>1. /\ old \in Seq(Entry) /\ u \in Seq(Entry) /\ Len(u) <= PriceListMax /\ PriceListMax \in Nat
        /\ Len(u) \in Nat /\ Len(old) \in Nat
    BY ListIs, PriceAssumption
  <1>2. kept \in Seq(Entry)
    BY <1>1, KeptType
  <1>3. Elements(kept) = {e \in Elements(old) : Stays(e, u)}
    BY <1>1, KeptIs
  <1>4. new = u \o front
    BY DEF UpdateList
  <1> HIDE DEF kept, new
  <1>5. Len(kept) \in Nat /\ m \in 0..Len(kept) /\ m <= room /\ room \in Nat /\ (m = Len(kept) \/ m = room)
    BY <1>1, <1>2
  <1> HIDE DEF m
  <1>6. front \in Seq(Entry) /\ Len(front) = m /\ \A i \in 1..m : front[i] = kept[i]
    <2>1. \A i \in 1..m : kept[i] \in Entry
      BY <1>2, <1>5
    <2> QED BY <1>2, <1>5, <2>1, SubSeqProperties
  <1> HIDE DEF front
  <1>7. /\ new \in Seq(Entry) /\ Len(new) = Len(u) + m
        /\ \A i \in 1..Len(u) : new[i] = u[i]
        /\ \A i \in 1..m : new[Len(u) + i] = kept[i]
    <2>1. /\ new \in Seq(Entry) /\ Len(new) = Len(u) + m
          /\ \A i \in 1..Len(u) + m : new[i] = IF i <= Len(u) THEN u[i] ELSE front[i - Len(u)]
      BY <1>1, <1>4, <1>6, ConcatProperties
    <2>2. \A i \in 1..m : Len(u) + i \in 1..Len(u) + m /\ ~(Len(u) + i <= Len(u)) /\ (Len(u) + i) - Len(u) = i
      BY <1>1, <1>5
    <2>3. \A i \in 1..m : new[Len(u) + i] = front[i]
      BY <2>1, <2>2
    <2>4. \A i \in 1..Len(u) : i \in 1..Len(u) + m /\ i <= Len(u)
      BY <1>1, <1>5
    <2> QED BY <1>6, <2>1, <2>3, <2>4
  <1>8. \A i \in 1..Len(new) : i \in 1..Len(u) \/ (i - Len(u) \in 1..m /\ new[i] = kept[i - Len(u)])
    <2>1. SUFFICES ASSUME NEW i \in 1..Len(new), i \notin 1..Len(u)
                   PROVE  i - Len(u) \in 1..m /\ new[i] = kept[i - Len(u)]
      OBVIOUS
    <2> DEFINE k == i - Len(u)
    <2>2. k \in 1..m /\ Len(u) + k = i
      BY <1>1, <1>5, <1>7, <2>1
    <2> HIDE DEF k
    <2>3. new[Len(u) + k] = kept[k]
      BY <1>7, <2>2
    <2> QED BY <2>2, <2>3 DEF k
  <1>9. \A j \in 1..m : j \in 1..Len(kept)
    BY <1>5
  <1>10. new \in PriceLists
    BY <1>1, <1>5, <1>7, ListIs
  <1>11. Range(new) = Elements(new) /\ Range(old) = Elements(old) /\ Range(u) = Elements(u)
    BY <1>10, ListElements DEF Elements
  <1>12. Elements(u) \subseteq Elements(new)
    <2>1. \A i \in 1..Len(u) : i \in 1..Len(new)
      BY <1>1, <1>5, <1>7
    <2> QED BY <1>7, <2>1 DEF Elements
  <1>13. Elements(new) \subseteq Elements(u) \cup Elements(kept)
    BY <1>7, <1>8, <1>9 DEF Elements
  <1>14. Elements(kept) \subseteq Elements(new) \/ Len(new) = PriceListMax
    <2>1. CASE m = Len(kept)
      <3>1. \A j \in 1..Len(kept) : Len(u) + j \in 1..Len(new) /\ new[Len(u) + j] = kept[j]
        BY <1>1, <1>5, <1>7, <2>1
      <3> QED BY <3>1 DEF Elements
    <2>2. CASE m = room
      BY <1>1, <1>7, <2>2
    <2> QED BY <1>5, <2>1, <2>2
  <1> DEFINE named(e) == \E i \in DOMAIN u : u[i].vnum = e.vnum
  <1>15. {e \in Range(old) : ~named(e)} = Elements(kept)
    BY <1>3, <1>11 DEF Stays
  <1>16. Cardinality({i \in DOMAIN new : named(new[i])}) = Len(u)
    <2>1. DOMAIN new = 1..Len(new) /\ DOMAIN u = 1..Len(u)
      BY <1>1, <1>7, LenProperties
    <2>2. \A i \in 1..Len(u) : i \in 1..Len(new) /\ named(new[i])
      BY <1>1, <1>5, <1>7, <2>1
    <2>3. \A j \in 1..Len(kept) : ~named(kept[j])
      <3>1. \A j \in 1..Len(kept) : kept[j] \in Elements(kept)
        BY DEF Elements
      <3> QED BY <1>3, <3>1 DEF Stays
    <2>4. \A i \in 1..Len(new) : i \notin 1..Len(u) => ~named(new[i])
      BY <1>8, <1>9, <2>3
    <2> HIDE DEF named
    <2>5. {i \in DOMAIN new : named(new[i])} = 1..Len(u)
      BY <2>1, <2>2, <2>4
    <2>6. \A k \in Nat : IsFiniteSet(1..k) /\ Cardinality(1..k) = k
      BY FS_Interval
    <2> QED BY <1>1, <2>5, <2>6
  <1>17. Merged(Range(old), u, new)
    BY <1>11, <1>12, <1>13, <1>14, <1>15, <1>16 DEF Merged
  <1> QED BY <1>10, <1>17 DEF new

(* Every answer of MySQL names all of the rows.                            *)
LEMMA AnswerAll ==
    ASSUME NEW T \in SUBSET Entry, IsFiniteSet(T), NEW reply \in SetToSeqs(T)
    PROVE  Range(reply) = T
  <1> DEFINE D == 1..Cardinality(T)
  <1>1. reply \in [D -> T] /\ \A i, j \in D : i # j => reply[i] # reply[j]
    BY DEF SetToSeqs
  <1>2. IsFiniteSet(D) /\ Cardinality(D) = Cardinality(T)
    <2>1. \A k \in Nat : IsFiniteSet(1..k) /\ Cardinality(1..k) = k
      BY FS_Interval
    <2>2. Cardinality(T) \in Nat
      BY FS_CardinalityType
    <2> QED BY <2>1, <2>2
  <1> HIDE DEF D
  <1>3. reply \in Injection(D, T)
    BY <1>1 DEF Injection, IsInjective
  <1>4. reply \in Surjection(D, T)
    BY <1>2, <1>3, FS_Injection
  <1> QED BY <1>1, <1>4 DEF Surjection, Range

-----------------------------------------------------------------------------
(* Results are up to date or something is known to have overtaken them     *)

IsLoad(q) == q.op \in {"load", "loadForUpdate"}

WrittenIn(s, o) == \E j \in 1..Len(s) : Writes(s[j], o)

WrittenAfter(rs, i, o) == \E j \in i + 1..Len(rs) : Writes(rs[j].query, o)

Current(rs, rows, s, i) ==
    LET o == rs[i].query.owner IN
    \/ Range(rs[i].reply) = rows[o]
    \/ WrittenAfter(rs, i, o)
    \/ WrittenIn(s, o)

(* A result brings the rows as they are, unless a query that writes them   *)
(* has been executed after it or will be.                                  *)
Fresh ==
    main = "run" => \A i \in 1..Len(results) :
        IsLoad(results[i].query) => Current(results, table, Stream, i)

ListInv == FlowInv /\ Fresh

(* A queue that has become longer.                                         *)
LEMMA WrittenMore ==
    ASSUME NEW s \in Seq(PriceQuery), NEW t \in Seq(PriceQuery), NEW o, WrittenIn(s, o)
    PROVE  WrittenIn(s \o t, o)
  <1>1. PICK j \in 1..Len(s) : Writes(s[j], o)
    BY DEF WrittenIn
  <1>2. j \in 1..Len(s \o t) /\ (s \o t)[j] = s[j]
    <2>1. /\ s \o t \in Seq(PriceQuery) /\ Len(s \o t) = Len(s) + Len(t) /\ Len(s) \in Nat /\ Len(t) \in Nat
          /\ \A i \in 1..Len(s) + Len(t) : (s \o t)[i] = IF i <= Len(s) THEN s[i] ELSE t[i - Len(s)]
      BY ConcatProperties, LenProperties
    <2> QED BY <2>1
  <1> QED BY <1>1, <1>2 DEF WrittenIn

(* What is written by a queue is written by its first query or the rest.   *)
LEMMA WrittenHead ==
    ASSUME NEW s \in Seq(PriceQuery), s # <<>>, NEW o, WrittenIn(s, o)
    PROVE  Writes(Head(s), o) \/ WrittenIn(Tail(s), o)
  <1>1. PICK j \in 1..Len(s) : Writes(s[j], o)
    BY DEF WrittenIn
  <1>2. /\ Len(Tail(s)) = Len(s) - 1 /\ Len(s) \in Nat /\ Head(s) = s[1]
        /\ \A i \in 1..Len(Tail(s)) : Tail(s)[i] = s[i + 1]
    BY HeadTailProperties, LenProperties
  <1>3. CASE j = 1
    BY <1>1, <1>2, <1>3
  <1>4. CASE j # 1
    <2> DEFINE k == j - 1
    <2>1. k \in 1..Len(Tail(s)) /\ k + 1 = j
      BY <1>2, <1>4
    <2> HIDE DEF k
    <2>2. Tail(s)[k] = s[j]
      BY <1>2, <2>1
    <2> QED BY <1>1, <2>1, <2>2 DEF WrittenIn
  <1> QED BY <1>3, <1>4

(* The queue has become longer, nothing else has changed.                  *)
LEMMA FreshSent ==
    ASSUME Fresh, TypeOK, NEW t \in Seq(PriceQuery), Stream' = Stream \o t, UNCHANGED <<results, table>>,
           main' = "run" => main = "run"
    PROVE  Fresh'
  <1>1. Stream \in Seq(PriceQuery)
    BY StreamType
  <1>2. \A o : WrittenIn(Stream, o) => WrittenIn(Stream', o)
    BY <1>1, WrittenMore
  <1> QED BY <1>2 DEF Fresh, Current, WrittenAfter

LEMMA FreshSame ==
    ASSUME Fresh, UNCHANGED <<results, table>>, Stream' = Stream, main' = "run" => main = "run"
    PROVE  Fresh'
  BY DEF Fresh, Current, WrittenAfter

LEMMA FreshPop ==
    ASSUME Fresh, TypeOK, Sql!PopResult, UNCHANGED <<table, todo>>
    PROVE  Fresh'
  <1>1. /\ Len(results') = Len(results) - 1 /\ Len(results) \in Nat
        /\ \A i \in 1..Len(results') : results'[i] = results[i + 1]
    BY PopType DEF TypeOK
  <1>2. main = "run" /\ Stream' = Stream
    BY DEF Sql!PopResult, Stream
  <1>3. SUFFICES ASSUME NEW i \in 1..Len(results'), IsLoad(results'[i].query)
                 PROVE  Current(results', table', Stream', i)
    BY DEF Fresh
  <1> DEFINE o == results'[i].query.owner
             k == i + 1
  <1>4. k \in 1..Len(results) /\ results'[i] = results[k]
    BY <1>1
  <1>5. Current(results, table, Stream, k)
    BY <1>2, <1>3, <1>4 DEF Fresh
  <1>6. WrittenAfter(results, k, o) => WrittenAfter(results', i, o)
    <2>1. SUFFICES ASSUME NEW j \in k + 1..Len(results), Writes(results[j].query, o)
                   PROVE  WrittenAfter(results', i, o)
      BY DEF WrittenAfter
    <2> DEFINE n == j - 1
    <2>2. n \in i + 1..Len(results') /\ n \in 1..Len(results') /\ n + 1 = j
      BY <1>1
    <2> HIDE DEF n, o
    <2>3. results'[n] = results[j]
      BY <1>1, <2>2
    <2> QED BY <2>1, <2>2, <2>3 DEF WrittenAfter
  <1> HIDE DEF k
  <1> QED BY <1>2, <1>4, <1>5, <1>6 DEF Current

(* A query in front is executed.                                           *)
LEMMA FreshExecuted ==
    ASSUME Fresh, TypeOK, RowsType(table), main = "run", Stream # <<>>, NEW q, q = Head(Stream),
           NEW reply \in Replies(q), Sql!Replied(q, reply),
           table' = Effect(table, q), Stream' = Tail(Stream)
    PROVE  Fresh'
  <1>1. Stream \in Seq(PriceQuery) /\ results \in Seq(Sql!Result)
    BY StreamType DEF TypeOK, Sql!TypeOK
  <1>2. q \in PriceQuery
    BY <1>1, HeadTailProperties
  <1>3. reply \in Answers
    BY <1>2, RepliesOK
  <1>4. /\ Len(results') = Len(results) + 1 /\ Len(results) \in Nat
        /\ \A i \in 1..Len(results) : results'[i] = results[i]
        /\ results'[Len(results) + 1] = [query |-> q, reply |-> reply]
    BY <1>1, <1>2, <1>3, RepliedType
  <1>5. SUFFICES ASSUME NEW i \in 1..Len(results'), IsLoad(results'[i].query)
                 PROVE  Current(results', table', Stream', i)
    BY DEF Fresh
  <1>6. CASE i \in 1..Len(results)
    <2> DEFINE o == results'[i].query.owner
    <2>1. results'[i] = results[i] /\ o \in Owner
      <3>1. results[i] \in Sql!Result
        BY <1>1, <1>6, ElementOfSeq
      <3> QED BY <1>4, <1>6, <3>1, Constants, QueryType
    <2>2. Current(results, table, Stream, i)
      BY <1>5, <1>6, <2>1 DEF Fresh
    <2> HIDE DEF o
    <2>3. Writes(q, o) => WrittenAfter(results', i, o)
      <3> DEFINE j == Len(results) + 1
      <3>1. j \in i + 1..Len(results') /\ results'[j].query = q
        BY <1>4, <1>6
      <3> HIDE DEF j
      <3> QED BY <3>1 DEF WrittenAfter
    <2>4. WrittenAfter(results, i, o) => WrittenAfter(results', i, o)
      <3>1. \A j \in i + 1..Len(results) : j \in 1..Len(results) /\ j \in i + 1..Len(results')
        BY <1>4, <1>6
      <3> QED BY <1>4, <3>1 DEF WrittenAfter
    <2>5. ~Writes(q, o) => table'[o] = table[o]
      BY <1>2, <2>1, EffectAt
    <2>6. ~Writes(q, o) /\ WrittenIn(Stream, o) => WrittenIn(Stream', o)
      BY <1>1, WrittenHead
    <2>7. Current(results', table', Stream', i)
      BY <2>1, <2>2, <2>3, <2>4, <2>5, <2>6 DEF Current, o
    <2> QED BY <2>7
  <1>7. CASE i = Len(results) + 1
    <2>1. results'[i] = [query |-> q, reply |-> reply]
      BY <1>4, <1>7
    <2>2. results'[i].query = q /\ results'[i].reply = reply /\ IsLoad(q) /\ q.owner \in Owner
      BY <1>2, <1>5, <2>1, QueryType
    <2>3. reply \in SetToSeqs(table[q.owner])
      BY <2>2 DEF Replies, IsLoad
    <2>4. table[q.owner] \in SUBSET Entry /\ IsFiniteSet(table[q.owner])
      BY <2>2 DEF RowsType
    <2>5. Range(reply) = table[q.owner]
      BY <2>3, <2>4, AnswerAll
    <2>6. ~Writes(q, q.owner)
      BY <2>2 DEF IsLoad, Writes
    <2>7. table'[q.owner] = table[q.owner]
      BY <1>2, <2>2, <2>6, EffectAt
    <2>8. Range(results'[i].reply) = table'[q.owner]
      BY <2>2, <2>5, <2>7
    <2> QED BY <2>2, <2>8 DEF Current
  <1> QED BY <1>4, <1>6, <1>7

-----------------------------------------------------------------------------
(* What counts as the prices of an owner                                   *)

StoredLeft ==
    \A o \in Owner :
        /\ Rows(o) = Left(table, Stream)[o]
        /\ Stored(o) = IF Cached(o) THEN Range(cache[o].list) ELSE Left(table, Stream)[o]

LEMMA StoredIs == TypeOK /\ ~Abandoned => StoredLeft
  <1>1. SUFFICES ASSUME TypeOK, ~Abandoned
                 PROVE  Sql!Pending \o todo = Stream
    BY DEF StoredLeft, Rows, Stored, Left
  <1>2. CASE loop \in {"drain", "done"}
    <2>1. copy = <<>> /\ query \in Seq(PriceQuery)
      BY <1>1, <1>2, StreamType DEF Abandoned
    <2>2. copy \o query = query
      BY <2>1, ConcatEmptySeq
    <2> QED BY <1>2, <2>2 DEF Stream, Sql!Pending
  <1>3. CASE loop \notin {"drain", "done"}
    BY <1>3 DEF Stream, Sql!Pending
  <1> QED BY <1>2, <1>3

LEMMA StoredNext == TypeOK' /\ ~Abandoned' => StoredLeft'
  BY StoredIs, PTL

(* A step of ListsKept.                                                    *)
ListStep(o) ==
    \/ Stored(o)' = Stored(o)
    \/ Cached(o)' /\ \E u \in Updates : Merged(Stored(o), u, cache'[o].list)
    \/ Overtaken(o)
    \/ Abandoned'
    \/ ~serving /\ Cached(o) /\ ~cache[o].needQuery

-----------------------------------------------------------------------------
(* The steps                                                               *)

Keeps == Fresh' /\ \A o \in Owner : ListStep(o)

(* What counts is the same before and after.                               *)
LEMMA SameStored ==
    ASSUME TypeOK, TypeOK', Abandoned => Abandoned', NEW o \in Owner, cache'[o] = cache[o],
           Left(table', Stream')[o] = Left(table, Stream)[o]
    PROVE  ListStep(o)
  <1>1. CASE Abandoned'
    BY <1>1 DEF ListStep
  <1>2. CASE ~Abandoned'
    <2>1. StoredLeft /\ StoredLeft'
      BY <1>2, StoredIs, StoredNext
    <2>2. Cached(o)' <=> Cached(o)
      BY DEF Cached
    <2>3. Stored(o)' = Stored(o)
      BY <2>1, <2>2 DEF StoredLeft
    <2> QED BY <2>3 DEF ListStep
  <1> QED BY <1>1, <1>2

(* Queries that do not write o go to the end.                              *)
LEMMA SentLeft ==
    ASSUME TypeOK, RowsType(table), NEW t \in Seq(PriceQuery), NEW o \in Owner,
           \A n \in 1..Len(t) : ~Writes(t[n], o)
    PROVE  Left(table, Stream \o t)[o] = Left(table, Stream)[o]
  <1>1. Stream \in Seq(PriceQuery)
    BY StreamType
  <1>2. Left(table, Stream \o t) = Left(Left(table, Stream), t)
    BY <1>1, LeftSplit
  <1>3. RowsType(Left(table, Stream))
    BY <1>1, LeftType
  <1>4. Left(Left(table, Stream), t)[o] = Left(table, Stream)[o]
    <2> DEFINE rows == Left(table, Stream)
    <2> HIDE DEF rows
    <2> QED BY <1>3, LeftUnwritten DEF rows
  <1> QED BY <1>2, <1>4

(* A handler has pushed a query that writes nothing.                       *)
LEMMA PushKeeps ==
    ASSUME ListInv, TypeOK', Ready, NEW q \in PriceQuery, IsLoad(q), Sql!PushQuery(q),
           UNCHANGED <<cache, table, todo, serving>>
    PROVE  Keeps
  <1>1. TypeOK /\ RowsType(table) /\ FlowInv /\ Fresh /\ todo = <<>> /\ main = "run"
    BY DEF ListInv, FlowInv, Ready, Sql!PushQuery
  <1>2. UNCHANGED <<results, copy, loop>> /\ Stream' = Append(Stream, q)
    BY <1>1, PushStream DEF Sql!PushQuery
  <1>3. Stream \in Seq(PriceQuery) /\ <<q>> \in Seq(PriceQuery)
    BY <1>1, StreamType
  <1>4. Stream' = Stream \o <<q>>
    BY <1>2, <1>3, AppendIsConcat
  <1>5. Fresh'
    BY <1>1, <1>2, <1>3, <1>4, FreshSent
  <1>6. ASSUME NEW o \in Owner PROVE ListStep(o)
    <2>1. \A n \in 1..Len(<<q>>) : ~Writes(<<q>>[n], o)
      BY DEF Writes, IsLoad
    <2>2. Left(table, Stream \o <<q>>)[o] = Left(table, Stream)[o]
      BY <1>1, <1>3, <2>1, SentLeft
    <2>3. Abandoned => Abandoned'
      BY <1>2 DEF Abandoned
    <2> QED BY <1>1, <1>4, <2>2, <2>3, SameStored
  <1> QED BY <1>5, <1>6 DEF Keeps

(* The result that comes next is what counts, or is overtaken.             *)
LEMMA NextCurrent ==
    ASSUME ListInv, Sql!PopResult, UNCHANGED todo, NEW o \in Owner,
           IsLoad(Head(results).query), Head(results).query.owner = o
    PROVE  Overtaken(o) \/ Range(Head(results).reply) = Stored(o)
  <1>1. TypeOK /\ RowsType(table) /\ FlowInv /\ Fresh /\ main = "run"
    BY DEF ListInv, FlowInv, Sql!PopResult
  <1>2. /\ results # <<>> /\ results' = Tail(results) /\ Len(results) \in Nat
        /\ Head(results) = results[1] /\ 1 \in 1..Len(results)
    BY <1>1, PopType DEF TypeOK, Sql!PopResult
  <1>3. Current(results, table, Stream, 1)
    BY <1>1, <1>2 DEF Fresh
  <1>4. SUFFICES ASSUME ~Overtaken(o) PROVE Range(Head(results).reply) = Stored(o)
    OBVIOUS
  <1>5. ~Flushing(o) /\ (Cached(o) => Range(cache[o].list) = Rows(o))
    BY <1>2, <1>4 DEF Overtaken
  <1>6. Stream \in Seq(PriceQuery) /\ results \in Seq(Sql!Result)
    BY <1>1, StreamType DEF TypeOK, Sql!TypeOK
  <1>7. \A n \in 1..Len(Stream) : ~Writes(Stream[n], o)
    <2>1. \A n \in 1..Len(Stream) : Stream[n] \in Range(Stream)
      BY <1>6, LenProperties DEF Range
    <2> QED BY <1>5, <2>1 DEF Flushing, Writes, Stream
  <1>8. \A n \in 1..Len(results) : ~Writes(results[n].query, o)
    <2>1. \A n \in 1..Len(results) : results[n] \in Range(results)
      BY <1>6, LenProperties DEF Range
    <2> QED BY <1>5, <2>1 DEF Flushing, Writes
  <1>9. Range(Head(results).reply) = table[o]
    <2>1. ~WrittenAfter(results, 1, o)
      BY <1>2, <1>8 DEF WrittenAfter
    <2>2. ~WrittenIn(Stream, o)
      BY <1>7 DEF WrittenIn
    <2> QED BY <1>2, <1>3, <2>1, <2>2 DEF Current
  <1>10. Left(table, Stream)[o] = table[o]
    BY <1>1, <1>6, <1>7, LeftUnwritten
  <1>11. StoredLeft
    BY <1>1, RunFlows, StoredIs DEF Abandoned
  <1> QED BY <1>5, <1>9, <1>10, <1>11 DEF StoredLeft

(* ... and names nothing twice.                                            *)
(* A result is handled: whose list is not touched is not concerned.        *)
LEMMA PopKeeps ==
    ASSUME ListInv, TypeOK', Sql!PopResult, UNCHANGED <<table, todo>>
    PROVE  /\ Fresh'
           /\ \A o \in Owner : cache'[o] = cache[o] => ListStep(o)
  <1>1. TypeOK /\ Fresh
    BY DEF ListInv, FlowInv
  <1>2. UNCHANGED <<copy, query, loop>> /\ Stream' = Stream
    BY DEF Sql!PopResult, Stream
  <1>3. Abandoned => Abandoned'
    BY <1>2 DEF Abandoned
  <1> QED BY <1>1, <1>2, <1>3, FreshPop, SameStored

(* A flush, of what counts or of what is in the table anyway.              *)
LEMMA FlushKeeps ==
    ASSUME ListInv, TypeOK', UNCHANGED <<sqlVars, table>>, todo = <<>>, NEW o \in Owner, Cached(o),
           todo' = OnFlush(o, cache[o].list), cache' = [cache EXCEPT ![o] = NoList]
    PROVE  Keeps
  <1>1. TypeOK /\ RowsType(table) /\ FlowInv /\ Fresh
    BY DEF ListInv, FlowInv
  <1> DEFINE list == cache[o].list
             f == OnFlush(o, list)
  <1>2. list \in PriceLists
    BY <1>1, CachedType
  <1> HIDE DEF list
  <1>3. Stream' = Stream \o f /\ f \in Seq(PriceQuery) /\ Stream \in Seq(PriceQuery)
    BY <1>1, <1>2, FlushStream, OnFlushIs, StreamType DEF list
  <1>4. UNCHANGED <<results, copy, loop, main>>
    BY DEF sqlVars
  <1>5. Fresh'
    BY <1>1, <1>3, <1>4, FreshSent
  <1>6. Abandoned => Abandoned'
    BY <1>4 DEF Abandoned
  <1>7. ListStep(o)
    <2>1. CASE Abandoned'
      BY <2>1 DEF ListStep
    <2>2. CASE ~Abandoned'
      <3>1. StoredLeft /\ StoredLeft'
        BY <1>1, <1>6, <2>2, StoredIs, StoredNext
      <3>2. ~Cached(o)'
        BY <1>1 DEF Cached, TypeOK
      <3>3. Left(table, Stream \o f) = Left(Left(table, Stream), f) /\ RowsType(Left(table, Stream))
        BY <1>1, <1>3, LeftSplit, LeftType
      <3>4. Left(Left(table, Stream), f)[o] = Range(list)
        <4> DEFINE rows == Left(table, Stream)
        <4> HIDE DEF rows
        <4> QED BY <1>2, <3>3, LeftFlushed DEF rows
      <3>5. Stored(o)' = Range(list)
        BY <1>3, <3>1, <3>2, <3>3, <3>4 DEF StoredLeft
      <3>6. Stored(o) = Range(list)
        BY DEF Stored, list
      <3> QED BY <3>5, <3>6 DEF ListStep
    <2> QED BY <2>1, <2>2
  <1>8. ASSUME NEW c \in Owner, c # o PROVE ListStep(c)
    <2>1. cache'[c] = cache[c]
      BY <1>1, <1>8 DEF TypeOK
    <2>2. \A n \in 1..Len(f) : ~Writes(f[n], c)
      <3>1. /\ Len(list) \in Nat /\ Len(f) = Len(list) + 1
            /\ f[1] = [op |-> "destroy", owner |-> o, list |-> <<>>]
            /\ \A i \in 1..Len(list) : f[i + 1] = [op |-> "save", owner |-> o, list |-> <<list[i]>>]
        BY <1>2, OnFlushIs
      <3> HIDE DEF f
      <3>2. f[1].owner = o
        BY <3>1
      <3>3. ASSUME NEW i \in 1..Len(list) PROVE f[i + 1].owner = o
        <4>1. f[i + 1] = [op |-> "save", owner |-> o, list |-> <<list[i]>>]
          BY <3>1
        <4> QED BY <4>1
      <3>4. \A n \in 1..Len(f) : n = 1 \/ (n - 1 \in 1..Len(list) /\ (n - 1) + 1 = n)
        BY <3>1
      <3>5. \A n \in 1..Len(f) : f[n].owner = o
        BY <3>2, <3>3, <3>4
      <3> QED BY <1>8, <3>5 DEF Writes
    <2>3. Left(table, Stream \o f)[c] = Left(table, Stream)[c]
      <3> HIDE DEF f
      <3> QED BY <1>1, <1>3, <2>2, SentLeft
    <2> QED BY <1>1, <1>3, <1>6, <2>1, <2>3, SameStored
  <1> QED BY <1>5, <1>7, <1>8 DEF Keeps

(* Neither queries nor rows change.                                        *)
LEMMA CacheKeeps ==
    ASSUME ListInv, TypeOK', UNCHANGED <<sqlVars, table, todo>>
    PROVE  /\ Fresh'
           /\ \A o \in Owner : cache'[o] = cache[o] => ListStep(o)
  <1>1. TypeOK /\ Fresh
    BY DEF ListInv, FlowInv
  <1>2. UNCHANGED <<results, copy, loop, main>> /\ Stream' = Stream
    BY DEF sqlVars, Stream
  <1>3. Fresh'
    BY <1>1, <1>2, FreshSame
  <1>4. Abandoned => Abandoned'
    BY <1>2 DEF Abandoned
  <1> QED BY <1>1, <1>2, <1>3, <1>4, SameStored

LEMMA IsEntry ==
    ASSUME NEW list \in PriceLists, NEW dirty \in BOOLEAN
    PROVE  [list |-> list, needQuery |-> dirty] # NoList
  BY PriceAssumption

LEMMA UpdateKeeps ==
    ASSUME ListInv, TypeOK', NEW o \in Owner, NEW u \in Updates,
           MyshopPricelistUpdate(o, u)
    PROVE  Keeps
  <1>1. TypeOK /\ Ready /\ UNCHANGED <<table, todo, serving>>
    BY DEF ListInv, FlowInv, MyshopPricelistUpdate
  <1>2. u \in PriceLists
    BY PriceAssumption
  <1>3. CASE Cached(o)
    <2> DEFINE old == cache[o].list
               new == UpdateList(old, u)
    <2>1. UNCHANGED sqlVars /\ cache' = [cache EXCEPT ![o] = [list |-> new, needQuery |-> TRUE]]
      BY <1>1, <1>3 DEF MyshopPricelistUpdate, TypeOK
    <2>2. old \in PriceLists
      BY <1>1, <1>3, CachedType
    <2>3. Merged(Range(old), u, new) /\ new \in PriceLists
      <3> HIDE DEF old
      <3> QED BY <1>2, <2>2, UpdateMerges
    <2> HIDE DEF new
    <2>4. Fresh' /\ \A c \in Owner : cache'[c] = cache[c] => ListStep(c)
      BY <1>1, <2>1, CacheKeeps
    <2>5. ListStep(o)
      <3>1. cache'[o] = [list |-> new, needQuery |-> TRUE]
        BY <1>1, <2>1 DEF TypeOK
      <3>2. [list |-> new, needQuery |-> TRUE] # NoList
        BY <2>3, IsEntry
      <3>3. Stored(o) = Range(old) /\ Cached(o)' /\ cache'[o].list = new
        BY <1>3, <3>1, <3>2 DEF Stored, Cached
      <3> QED BY <2>3, <3>3 DEF ListStep
    <2>6. \A c \in Owner : c # o => cache'[c] = cache[c]
      BY <1>1, <2>1 DEF TypeOK
    <2> QED BY <2>4, <2>5, <2>6 DEF Keeps
  <1>4. CASE ~Cached(o)
    <2> DEFINE q == [op |-> "loadForUpdate", owner |-> o, list |-> u]
    <2>1. Sql!PushQuery(q) /\ UNCHANGED cache
      BY <1>4 DEF MyshopPricelistUpdate
    <2>2. q \in PriceQuery /\ IsLoad(q)
      BY <1>2, QueryType DEF IsLoad
    <2> HIDE DEF q
    <2> QED BY <1>1, <2>1, <2>2, PushKeeps
  <1> QED BY <1>3, <1>4

LEMMA RequestKeeps ==
    ASSUME ListInv, TypeOK', NEW o \in Owner, MyshopPricelistRequest(o)
    PROVE  Keeps
  <1> DEFINE q == [op |-> "load", owner |-> o, list |-> <<>>]
  <1>1. Ready /\ Sql!PushQuery(q) /\ UNCHANGED <<cache, table, todo, serving>>
    BY DEF MyshopPricelistRequest
  <1>2. q \in PriceQuery /\ IsLoad(q)
    BY QueryType DEF IsLoad
  <1> HIDE DEF q
  <1> QED BY <1>1, <1>2, PushKeeps

LEMMA LoadKeeps ==
    ASSUME ListInv, TypeOK', NEW o \in Owner, ResultPricelistLoad(o)
    PROVE  Keeps
  <1> DEFINE reply == Head(results).reply
  <1>1. /\ TypeOK /\ FlowInv /\ Sql!PopResult /\ UNCHANGED <<table, todo>>
        /\ Head(results).query.op = "load" /\ Head(results).query.owner = o
        /\ UNCHANGED cache \/ cache' = [cache EXCEPT ![o] = PutItemPriceListCache(o, reply)]
    BY DEF ListInv, FlowInv, ResultPricelistLoad
  <1>2. reply \in PriceLists
    BY <1>1, HeadAnswer
  <1>3. Fresh' /\ \A c \in Owner : cache'[c] = cache[c] => ListStep(c)
    BY <1>1, PopKeeps
  <1>4. Overtaken(o) \/ Range(reply) = Stored(o)
    BY <1>1, NextCurrent DEF IsLoad
  <1> HIDE DEF reply
  <1>5. CASE UNCHANGED cache
    BY <1>1, <1>3, <1>5 DEF Keeps
  <1>6. CASE cache' = [cache EXCEPT ![o] = PutItemPriceListCache(o, reply)]
    <2> DEFINE dirty == Cached(o) /\ cache[o].needQuery
    <2>1. cache' = [cache EXCEPT ![o] = [list |-> reply, needQuery |-> dirty]] /\ dirty \in BOOLEAN
      BY <1>1, <1>6, CachedType DEF PutItemPriceListCache
    <2> HIDE DEF dirty
    <2>2. ListStep(o)
      <3>1. cache'[o] = [list |-> reply, needQuery |-> dirty]
        BY <1>1, <2>1 DEF TypeOK
      <3>2. [list |-> reply, needQuery |-> dirty] # NoList
        BY <1>2, <2>1, IsEntry
      <3>3. Stored(o)' = Range(reply)
        BY <3>1, <3>2 DEF Stored, Cached
      <3> QED BY <1>4, <3>3 DEF ListStep
    <2>3. \A c \in Owner : c # o => cache'[c] = cache[c]
      BY <1>1, <2>1 DEF TypeOK
    <2> QED BY <1>3, <2>2, <2>3 DEF Keeps
  <1> QED BY <1>1, <1>5, <1>6

LEMMA LoadForUpdateKeeps ==
    ASSUME ListInv, TypeOK', NEW o \in Owner, NEW u \in Updates,
           ResultPricelistLoadForUpdate(o, u)
    PROVE  Keeps
  <1> DEFINE reply == Head(results).reply
             new == UpdateList(reply, u)
  <1>1. /\ TypeOK /\ FlowInv /\ Sql!PopResult /\ UNCHANGED <<table, todo>>
        /\ Head(results).query = [op |-> "loadForUpdate", owner |-> o, list |-> u]
        /\ cache' = [cache EXCEPT ![o] = [list |-> new, needQuery |-> TRUE]]
    BY DEF ListInv, FlowInv, ResultPricelistLoadForUpdate
  <1>2. reply \in PriceLists
    BY <1>1, HeadAnswer
  <1>3. Fresh' /\ \A c \in Owner : cache'[c] = cache[c] => ListStep(c)
    BY <1>1, PopKeeps
  <1>4. Overtaken(o) \/ Range(reply) = Stored(o)
    <2>1. IsLoad(Head(results).query) /\ Head(results).query.owner = o
      BY <1>1 DEF IsLoad
    <2> QED BY <1>1, <2>1, NextCurrent
  <1> HIDE DEF reply
  <1>5. Merged(Range(reply), u, new) /\ new \in PriceLists
    <2>1. u \in PriceLists
      BY PriceAssumption
    <2> QED BY <1>2, <2>1, UpdateMerges
  <1> HIDE DEF new
  <1>6. ListStep(o)
    <2>1. cache'[o] = [list |-> new, needQuery |-> TRUE]
      BY <1>1 DEF TypeOK
    <2>2. [list |-> new, needQuery |-> TRUE] # NoList
      BY <1>5, IsEntry
    <2>3. Cached(o)' /\ cache'[o].list = new
      BY <2>1, <2>2 DEF Cached
    <2> QED BY <1>4, <1>5, <2>3 DEF ListStep
  <1>7. \A c \in Owner : c # o => cache'[c] = cache[c]
    BY <1>1 DEF TypeOK
  <1> QED BY <1>3, <1>6, <1>7 DEF Keeps

LEMMA FlushesKeep ==
    ASSUME ListInv, TypeOK', NEW o \in Owner, UpdateItemPriceListCache(o) \/ FinalFlush(o)
    PROVE  Keeps
  <1>1. TypeOK /\ Cached(o) /\ todo = <<>>
    BY DEF ListInv, FlowInv, UpdateItemPriceListCache, FinalFlush, Ready
  <1>2. cache' = [cache EXCEPT ![o] = NoList] /\ UNCHANGED <<sqlVars, table>>
    BY DEF UpdateItemPriceListCache, FinalFlush
  <1>3. CASE cache[o].needQuery
    <2>1. todo' = OnFlush(o, cache[o].list)
      BY <1>3 DEF UpdateItemPriceListCache, FinalFlush
    <2> QED BY <1>1, <1>2, <2>1, FlushKeeps
  <1>4. CASE ~cache[o].needQuery
    <2>1. ~serving /\ todo' = todo
      BY <1>1, <1>4 DEF UpdateItemPriceListCache, FinalFlush
    <2>2. Fresh' /\ \A c \in Owner : cache'[c] = cache[c] => ListStep(c)
      BY <1>2, <2>1, CacheKeeps
    <2>3. ListStep(o)
      BY <1>1, <1>4, <2>1 DEF ListStep
    <2>4. \A c \in Owner : c # o => cache'[c] = cache[c]
      BY <1>1, <1>2 DEF TypeOK
    <2> QED BY <2>2, <2>3, <2>4 DEF Keeps
  <1> QED BY <1>3, <1>4

(* Nothing but the cache of owners has a part in Stored besides the        *)
(* stream, which is as before or has lost its head to the rows.            *)
LEMMA StreamKeeps ==
    ASSUME ListInv, TypeOK', UNCHANGED cache, Abandoned => Abandoned',
           Abandoned' \/ Left(table', Stream') = Left(table, Stream), Fresh'
    PROVE  Keeps
  <1>1. TypeOK
    BY DEF ListInv, FlowInv
  <1>2. ASSUME NEW o \in Owner PROVE ListStep(o)
    <2>1. CASE Abandoned'
      BY <2>1 DEF ListStep
    <2>2. CASE ~Abandoned'
      BY <1>1, <2>2, SameStored
    <2> QED BY <2>1, <2>2
  <1> QED BY <1>2 DEF Keeps

LEMMA MainKeeps ==
    ASSUME ListInv, TypeOK', ResultIgnored \/ PushTodo \/ MainLoopExit \/ Quit \/ QuitGoesOn
    PROVE  Keeps
  <1>1. TypeOK /\ Fresh /\ UNCHANGED <<cache, table>>
    BY DEF ListInv, FlowInv, ResultIgnored, PushTodo, MainLoopExit, Quit, QuitGoesOn
  <1>2. CASE ResultIgnored
    <2>1. Sql!PopResult /\ UNCHANGED todo
      BY <1>2 DEF ResultIgnored
    <2> QED BY <1>1, <2>1, PopKeeps DEF Keeps
  <1>3. CASE PushTodo \/ MainLoopExit \/ Quit \/ QuitGoesOn
    <2>1. Stream' = Stream
      <3>1. CASE PushTodo
        BY <1>1, <3>1, PushTodoStream
      <3>2. CASE MainLoopExit
        BY <3>2 DEF MainLoopExit, sqlVars, Stream
      <3>3. CASE Quit \/ QuitGoesOn
        BY <3>3 DEF Quit, QuitGoesOn, Sql!Quit, Sql!QuitRelease, Sql!QuitJoin, Sql!thread, Stream
      <3> QED BY <1>3, <3>1, <3>2, <3>3
    <2>2. UNCHANGED <<results, copy, loop>> /\ (main' = "run" => main = "run")
      BY <1>3 DEF PushTodo, MainLoopExit, Quit, QuitGoesOn, sqlVars, Sql!PushQuery,
          Sql!Quit, Sql!QuitRelease, Sql!QuitJoin, Sql!thread
    <2>3. Fresh'
      BY <1>1, <2>1, <2>2, FreshSame
    <2>4. Abandoned => Abandoned'
      BY <2>2 DEF Abandoned
    <2> QED BY <1>1, <2>1, <2>3, <2>4, StreamKeeps
  <1> QED BY <1>2, <1>3

LEMMA ExecuteKeeps == ASSUME ListInv, TypeOK', ExecuteQuery PROVE Keeps
  <1>1. TypeOK /\ IInv /\ RowsType(table) /\ Fresh
    BY DEF ListInv, FlowInv
  <1>2. PICK reply \in Replies(Head(copy)) : Sql!ExecuteQuery(reply)
    BY DEF ExecuteQuery
  <1>3. /\ loop = "batch" /\ table' = Effect(table, Head(copy)) /\ UNCHANGED <<cache, todo, query, main>>
        /\ copy' = Tail(copy) /\ Sql!Replied(Head(copy), reply)
    BY <1>2 DEF ExecuteQuery, Sql!ExecuteQuery
  <1>4. copy # <<>>
    BY <1>1, <1>3, EmptySeq DEF IInv, BatchCovers, Sql!BatchCovers
  <1>5. Stream # <<>> /\ Head(Stream) = Head(copy) /\ Stream' = Tail(Stream) /\ Stream \in Seq(PriceQuery)
    BY <1>1, <1>3, <1>4, ExecuteStream, StreamType
  <1>6. Left(table', Stream') = Left(table, Stream)
    BY <1>3, <1>5, LeftHead
  <1>7. Fresh'
    <2>1. CASE main = "run"
      <3> DEFINE q == Head(copy)
      <3>1. q = Head(Stream) /\ reply \in Replies(q) /\ Sql!Replied(q, reply) /\ table' = Effect(table, q)
        BY <1>2, <1>3, <1>5
      <3> HIDE DEF q
      <3> QED BY <1>1, <1>5, <2>1, <3>1, FreshExecuted
    <2>2. CASE main # "run"
      BY <1>3, <2>2 DEF Fresh
    <2> QED BY <2>1, <2>2
  <1>8. ~Abandoned
    BY <1>3 DEF Abandoned
  <1> QED BY <1>3, <1>6, <1>7, <1>8, StreamKeeps

LEMMA DrainKeeps == ASSUME ListInv, TypeOK', DrainQuery PROVE Keeps
  <1>1. TypeOK /\ FlowInv
    BY DEF ListInv, FlowInv
  <1>2. PICK reply \in Replies(Head(query)) : Sql!DrainQuery(reply)
    BY DEF DrainQuery
  <1>3. /\ loop = "drain" /\ query # <<>> /\ table' = Effect(table, Head(query))
        /\ query' = Tail(query) /\ UNCHANGED <<cache, todo, copy, loop, main>>
    BY <1>2 DEF DrainQuery, Sql!DrainQuery
  <1>4. main # "run"
    BY <1>1, <1>3, RunFlows
  <1>5. Fresh'
    BY <1>3, <1>4 DEF Fresh
  <1>6. Abandoned => Abandoned'
    BY <1>3 DEF Abandoned
  <1>7. Abandoned' \/ Left(table', Stream') = Left(table, Stream)
    <2>1. SUFFICES ASSUME copy = <<>> PROVE Left(table', Stream') = Left(table, Stream)
      BY <1>3 DEF Abandoned
    <2>2. Stream # <<>> /\ Head(Stream) = Head(query) /\ Stream' = Tail(Stream) /\ Stream \in Seq(PriceQuery)
      BY <1>1, <1>3, <2>1, DrainStream, StreamType
    <2> QED BY <1>3, <2>2, LeftHead
  <1> QED BY <1>3, <1>5, <1>6, <1>7, StreamKeeps

LEMMA LoopKeeps == ASSUME ListInv, TypeOK', ChildLoopOnly PROVE Keeps
  <1>1. TypeOK /\ Fresh
    BY DEF ListInv, FlowInv
  <1>2. UNCHANGED <<cache, table, todo>>
    BY DEF ChildLoopOnly
  <1>3. UNCHANGED <<results, main>> /\ (Abandoned => Abandoned')
    BY DEF ChildLoopOnly, Abandoned, Sql!LoopTop, Sql!SemWait, Sql!CopyQuery, Sql!RetryQuery,
        Sql!DrainRetry, Sql!DrainEnd
  <1>4. Stream' = Stream
    <2>1. CASE Sql!CopyQuery
      BY <1>1, <1>2, <2>1, CopyStream
    <2>2. CASE Sql!LoopTop \/ Sql!SemWait \/ Sql!RetryQuery \/ Sql!DrainRetry \/ Sql!DrainEnd
      BY <1>2, <2>2 DEF Stream, Sql!LoopTop, Sql!SemWait, Sql!RetryQuery, Sql!DrainRetry, Sql!DrainEnd
    <2> QED BY <2>1, <2>2 DEF ChildLoopOnly
  <1>5. Fresh'
    BY <1>1, <1>2, <1>3, <1>4, FreshSame
  <1> QED BY <1>2, <1>3, <1>4, <1>5, StreamKeeps

LEMMA StepKeeps ==
    ASSUME ListInv, TypeOK', [Next]_vars
    PROVE  Keeps
  <1>1. CASE UNCHANGED vars
    <2>1. UNCHANGED <<sqlVars, cache, table, todo>>
      BY <1>1 DEF vars
    <2> QED BY <2>1, CacheKeeps DEF Keeps
  <1>2. CASE \E o \in Owner, u \in Updates :
                MyshopPricelistUpdate(o, u) \/ ResultPricelistLoadForUpdate(o, u)
    BY <1>2, UpdateKeeps, LoadForUpdateKeeps
  <1>3. CASE \E o \in Owner :
                \/ MyshopPricelistRequest(o) \/ ResultPricelistLoad(o)
                \/ UpdateItemPriceListCache(o) \/ FinalFlush(o)
    BY <1>3, RequestKeeps, LoadKeeps, FlushesKeep
  <1>4. CASE ResultIgnored \/ PushTodo \/ MainLoopExit \/ Quit \/ QuitGoesOn
    BY <1>4, MainKeeps
  <1>5. CASE ChildLoop
    BY <1>5, ExecuteKeeps, DrainKeeps, LoopKeeps DEF ChildLoop
  <1> QED BY <1>1, <1>2, <1>3, <1>4, <1>5 DEF Next

LEMMA InitList == ASSUME Init PROVE ListInv
  <1>1. results = <<>> /\ Len(<<>>) = 0 /\ \A o \in Owner : ~Cached(o)
    BY EmptySeq DEF Init, Sql!Init, Cached
  <1>2. Fresh
    BY <1>1 DEF Fresh
  <1> QED BY <1>2, InitFlow DEF ListInv

LEMMA StepList ==
    ASSUME ListInv, [Next]_vars
    PROVE  ListInv' /\ \A o \in Owner : ListStep(o)
  <1>1. FlowInv
    BY DEF ListInv
  <1>2. FlowInv'
    BY <1>1, StepFlow
  <1>3. TypeOK'
    BY <1>2 DEF FlowInv
  <1>4. Keeps
    BY <1>3, StepKeeps
  <1> QED BY <1>2, <1>4 DEF ListInv, Keeps

(* A price changes only by an update of its kind, or by what ListsKept     *)
(* excepts, whatever is cached, flushed, retried and loaded in whatever    *)
(* order.                                                                  *)
THEOREM PricesKept == Spec => ListsKept
  <1>1. Init => ListInv
    BY InitList
  <1>2. ListInv /\ [Next]_vars => ListInv'
    BY StepList
  <1>3. ListInv /\ [Next]_vars => [\A o \in Owner : ListStep(o)]_vars
    BY StepList
  <1> QED BY <1>1, <1>2, <1>3, PTL DEF Spec, ListsKept, ListStep

-----------------------------------------------------------------------------
(* The connection under the price list                                     *)

(* The connection with the lemmas proved about it.                         *)
SqlProofs == INSTANCE AsyncSqlProofs

(* A handler does to the connection what one of its users may.             *)
LEMMA SqlSteps ==
    ASSUME FlowInv, [Next]_vars
    PROVE  [Sql!Next]_(Sql!vars)
  <1>1. RowsType(table) /\ TypeOK /\ IInv
    BY DEF FlowInv
  <1>2. CASE UNCHANGED vars
    BY <1>2 DEF vars, sqlVars, Sql!vars
  <1>3. ASSUME NEW o \in Owner, NEW u \in Updates, MyshopPricelistUpdate(o, u)
        PROVE  [Sql!Next]_(Sql!vars)
    <2>1. CASE UNCHANGED sqlVars
      BY <2>1 DEF sqlVars, Sql!vars
    <2>2. CASE Sql!PushQuery([op |-> "loadForUpdate", owner |-> o, list |-> u])
      <3> DEFINE q == [op |-> "loadForUpdate", owner |-> o, list |-> u]
      <3>1. u \in PriceLists
        BY PriceAssumption
      <3>2. q \in Query
        BY <3>1, QueryType, Constants
      <3> HIDE DEF q
      <3> QED BY <2>2, <3>2 DEF Sql!Next, q
    <2> QED BY <1>3, <2>1, <2>2 DEF MyshopPricelistUpdate
  <1>4. ASSUME NEW o \in Owner, MyshopPricelistRequest(o) PROVE Sql!Next
    <2> DEFINE q == [op |-> "load", owner |-> o, list |-> <<>>]
    <2>1. Sql!PushQuery(q)
      BY <1>4 DEF MyshopPricelistRequest
    <2>2. q \in Query
      BY QueryType, Constants
    <2> HIDE DEF q
    <2> QED BY <2>1, <2>2 DEF Sql!Next
  <1>5. CASE PushTodo
    <2>1. Head(todo) \in Query
      BY <1>1, <1>5, HeadTailProperties DEF TypeOK, PushTodo
    <2> QED BY <1>5, <2>1 DEF PushTodo, Sql!Next
  <1>6. ASSUME NEW o \in Owner, \/ ResultPricelistLoad(o)
                                \/ \E u \in Updates : ResultPricelistLoadForUpdate(o, u)
        PROVE  Sql!Next
    BY <1>6 DEF ResultPricelistLoad, ResultPricelistLoadForUpdate, Sql!Next
  <1>7. CASE ResultIgnored \/ Quit \/ QuitGoesOn
    BY <1>7 DEF ResultIgnored, Quit, QuitGoesOn, Sql!MainQuit, Sql!Next
  <1>8. ASSUME NEW o \in Owner, UpdateItemPriceListCache(o) \/ FinalFlush(o)
        PROVE  UNCHANGED Sql!vars
    BY <1>8 DEF UpdateItemPriceListCache, FinalFlush, sqlVars, Sql!vars
  <1>9. CASE MainLoopExit
    BY <1>9 DEF MainLoopExit, sqlVars, Sql!vars
  <1>10. CASE ExecuteQuery
    <2>1. PICK reply \in Replies(Head(copy)) : Sql!ExecuteQuery(reply)
      BY <1>10 DEF ExecuteQuery
    <2>2. copy # <<>> /\ copy \in Seq(PriceQuery)
      BY <1>1, <2>1, EmptySeq, StreamType DEF IInv, BatchCovers, Sql!BatchCovers, Sql!ExecuteQuery
    <2>3. Head(copy) \in PriceQuery
      BY <2>2, HeadTailProperties
    <2>4. reply \in Reply
      BY <1>1, <2>3, RepliesOK, Constants
    <2> QED BY <2>1, <2>4 DEF Sql!ChildLoop, Sql!Next
  <1>11. CASE DrainQuery
    <2>1. PICK reply \in Replies(Head(query)) : Sql!DrainQuery(reply)
      BY <1>11 DEF DrainQuery
    <2>2. query # <<>> /\ query \in Seq(PriceQuery)
      BY <1>1, <2>1, StreamType DEF Sql!DrainQuery
    <2>3. Head(query) \in PriceQuery
      BY <2>2, HeadTailProperties
    <2>4. reply \in Reply
      BY <1>1, <2>3, RepliesOK, Constants
    <2> QED BY <2>1, <2>4 DEF Sql!ChildLoop, Sql!Next
  <1>12. CASE ChildLoopOnly
    BY <1>12 DEF ChildLoopOnly, Sql!ChildLoop, Sql!Next
  <1> QED BY <1>2, <1>3, <1>4, <1>5, <1>6, <1>7, <1>8, <1>9, <1>10, <1>11, <1>12 DEF Next, ChildLoop

(* The definitions of the connection as the module of its proofs has them. *)
LEMMA SameSteps == [Sql!Next]_(Sql!vars) => [SqlProofs!Next]_(SqlProofs!vars)
  <1> USE DEF Sql!Release, Sql!thread, Sql!Replied, Sql!NextSlot,
        SqlProofs!Release, SqlProofs!thread, SqlProofs!Replied, SqlProofs!NextSlot
  <1>1. UNCHANGED Sql!vars => UNCHANGED SqlProofs!vars
    BY DEF Sql!vars, SqlProofs!vars
  <1>2. \A q : Sql!PushQuery(q) => SqlProofs!PushQuery(q)
    BY DEF Sql!PushQuery, SqlProofs!PushQuery
  <1>3. Sql!PopResult => SqlProofs!PopResult
    BY DEF Sql!PopResult, SqlProofs!PopResult
  <1>4. Sql!MainQuit => SqlProofs!MainQuit
    BY DEF Sql!MainQuit, SqlProofs!MainQuit, Sql!Quit, SqlProofs!Quit,
        Sql!QuitRelease, SqlProofs!QuitRelease, Sql!QuitJoin, SqlProofs!QuitJoin
  <1>5. Sql!LoopTop \/ Sql!SemWait => SqlProofs!LoopTop \/ SqlProofs!SemWait
    BY DEF Sql!LoopTop, SqlProofs!LoopTop, Sql!SemWait, SqlProofs!SemWait
  <1>6. Sql!CopyQuery => SqlProofs!CopyQuery
    BY DEF Sql!CopyQuery, SqlProofs!CopyQuery
  <1>7. \A reply : Sql!ExecuteQuery(reply) => SqlProofs!ExecuteQuery(reply)
    BY DEF Sql!ExecuteQuery, SqlProofs!ExecuteQuery
  <1>8. \A reply : Sql!DrainQuery(reply) => SqlProofs!DrainQuery(reply)
    BY DEF Sql!DrainQuery, SqlProofs!DrainQuery
  <1>9. Sql!RetryQuery \/ Sql!DrainRetry => SqlProofs!RetryQuery \/ SqlProofs!DrainRetry
    BY DEF Sql!RetryQuery, SqlProofs!RetryQuery, Sql!DrainRetry, SqlProofs!DrainRetry
  <1>10. Sql!DrainEnd => SqlProofs!DrainEnd
    BY DEF Sql!DrainEnd, SqlProofs!DrainEnd
  <1>11. Sql!ChildLoop => SqlProofs!ChildLoop
    BY <1>5, <1>6, <1>7, <1>8, <1>9, <1>10 DEF Sql!ChildLoop, SqlProofs!ChildLoop
  <1> QED BY <1>1, <1>2, <1>3, <1>4, <1>11 DEF Sql!Next, SqlProofs!Next

LEMMA SameQueue ==
    [SqlProofs!Queue!Next]_(SqlProofs!Queue!vars) => [Sql!Queue!Next]_(Sql!Queue!vars)
  <1>1. SqlProofs!Queue!Next => Sql!Queue!Next
    BY DEF SqlProofs!Queue!Next, Sql!Queue!Next, SqlProofs!Queue!Push, Sql!Queue!Push,
        SqlProofs!Queue!Finish, Sql!Queue!Finish, SqlProofs!Queue!Take, Sql!Queue!Take,
        SqlProofs!Queue!Trouble, Sql!Queue!Trouble, SqlProofs!Queue!Abandon, Sql!Queue!Abandon,
        Sql!Pending, SqlProofs!Pending
  <1>2. UNCHANGED SqlProofs!Queue!vars => UNCHANGED Sql!Queue!vars
    BY DEF SqlProofs!Queue!vars, Sql!Queue!vars, Sql!Pending, SqlProofs!Pending
  <1> QED BY <1>1, <1>2

LEMMA SameInv == TypeOK /\ IInv => SqlProofs!IInv
  BY DEF TypeOK, IInv, Sql!TypeOK, SqlProofs!IInv, SqlProofs!TypeOK, SqlProofs!Result, Sql!Result,
        NoLostWakeUp, Sql!NoLostWakeUp, SqlProofs!NoLostWakeUp, BatchCovers, Sql!BatchCovers,
        SqlProofs!BatchCovers, Ended, SqlProofs!Ended, DrainedAtEnd, Sql!DrainedAtEnd,
        SqlProofs!DrainedAtEnd

LEMMA QueueSteps ==
    ASSUME FlowInv, [Next]_vars
    PROVE  [Sql!Queue!Next]_(Sql!Queue!vars)
  <1>1. [SqlProofs!Next]_(SqlProofs!vars)
    BY SqlSteps, SameSteps
  <1>2. SqlProofs!IInv
    BY SameInv DEF FlowInv
  <1> QED BY <1>1, <1>2, SqlProofs!StepMaps, SameQueue

LEMMA QueueInit == Init => Sql!Queue!Init
  <1>1. <<>> \o <<>> = <<>>
    OBVIOUS
  <1> QED BY <1>1 DEF Init, Sql!Init, Sql!Pending, Sql!Queue!Init

(* Under the price list the connection is the queue that SqlQueue promises:*)
(* what handlers and flushes push is executed once and in order, and only  *)
(* after a failure lost, from the front (CAsyncSQL::ChildLoop).            *)
THEOREM PricesOverQueue == Spec => Sql!Queue!Spec
  <1>1. FlowInv /\ [Next]_vars => [Sql!Queue!Next]_(Sql!Queue!vars)
    BY QueueSteps
  <1> QED BY <1>1, QueueInit, FlowInductive, PTL DEF Spec, Sql!Queue!Spec
=============================================================================
