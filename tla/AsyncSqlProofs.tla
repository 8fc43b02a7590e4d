--------------------------- MODULE AsyncSqlProofs ---------------------------
(***************************************************************************)
(* Proofs about the SQL connection, for any queries, any number of them    *)
(* under way, any number of failures and any size of the semaphore.        *)
(***************************************************************************)
EXTENDS AsyncSql, SequenceTheorems, TLAPS

(* m_bEnd and the stages of Quit, and what the loop has seen of them.      *)
Ended ==
    /\ end <=> main # "run"
    /\ loop \in {"drain", "done"} => end

IInv == TypeOK /\ NoLostWakeUp /\ BatchCovers /\ Ended /\ DrainedAtEnd

-----------------------------------------------------------------------------
(* Sequences                                                               *)

LEMMA AppendType ==
    ASSUME NEW S, NEW s \in Seq(S), NEW e \in S
    PROVE  Append(s, e) \in Seq(S)
  OBVIOUS

LEMMA TailType ==
    ASSUME NEW S, NEW s \in Seq(S), s # <<>>
    PROVE  /\ Head(s) \in S
           /\ Tail(s) \in Seq(S)
           /\ Len(Tail(s)) = Len(s) - 1
           /\ Len(s) \in Nat \ {0}
  BY HeadTailProperties, EmptySeq

-----------------------------------------------------------------------------
(* What a query that was executed does                                     *)

LEMMA RepliedType ==
    ASSUME TypeOK, NEW q \in Query, NEW reply \in Reply, Replied(q, reply)
    PROVE  results' \in Seq(Result)
  <1>1. CASE q \in Returning
    <2>1. [query |-> q, reply |-> reply] \in Result
      BY <1>1 DEF Result
    <2>2. Append(results, [query |-> q, reply |-> reply]) \in Seq(Result)
      BY <2>1, AppendType DEF TypeOK
    <2> QED BY <1>1, <2>2 DEF Replied
  <1>2. CASE q \notin Returning
    BY <1>2 DEF Replied, TypeOK
  <1> QED BY <1>1, <1>2

(* In a batch there is a query to execute.                                 *)
LEMMA BatchHasQuery ==
    ASSUME TypeOK, BatchCovers, loop = "batch"
    PROVE  /\ copy # <<>>
           /\ Head(copy) \in Query
           /\ Tail(copy) \in Seq(Query)
           /\ Len(Tail(copy)) = Len(copy) - 1
           /\ Len(copy) \in Nat \ {0}
  <1>1. copy \in Seq(Query) /\ Len(copy) \in Nat /\ count \in 1..Len(copy)
    BY DEF TypeOK, BatchCovers
  <1>2. copy # <<>>
    BY <1>1
  <1> QED BY <1>1, <1>2, TailType

-----------------------------------------------------------------------------
(* One lemma for each kind of step                                         *)

LEMMA InitOK == ASSUME SqlAssumption, Init PROVE IInv
  <1>1. TypeOK
    <2>1. 0 \in 0..SemMax
      BY DEF SqlAssumption
    <2>2. <<>> \in Seq(Query) /\ <<>> \in Seq(Result)
      OBVIOUS
    <2> QED BY <2>1, <2>2 DEF Init, TypeOK
  <1>2. Len(copy) = 0
    BY DEF Init
  <1> QED BY <1>1, <1>2 DEF Init, IInv, NoLostWakeUp, BatchCovers, Ended, DrainedAtEnd

LEMMA PushOK ==
    ASSUME SqlAssumption, IInv, NEW q \in Query, PushQuery(q)
    PROVE  IInv'
  <1>1. Append(query, q) \in Seq(Query)
    BY AppendType DEF IInv, TypeOK
  <1>2. sem' \in 0..SemMax /\ sem' > 0
    BY DEF SqlAssumption, IInv, TypeOK, PushQuery, Release
  <1>3. TypeOK'
    BY <1>1, <1>2 DEF IInv, TypeOK, PushQuery, Result
  <1>4. loop # "done"
    BY DEF IInv, Ended, PushQuery
  <1> QED BY <1>2, <1>3, <1>4 DEF IInv, PushQuery, NoLostWakeUp, BatchCovers, Ended, DrainedAtEnd

LEMMA PopResultOK == ASSUME IInv, PopResult PROVE IInv'
  <1>1. Tail(results) \in Seq(Result)
    BY TailType DEF IInv, TypeOK, PopResult
  <1>2. TypeOK'
    BY <1>1 DEF IInv, TypeOK, PopResult, Result
  <1> QED BY <1>2 DEF IInv, PopResult, NoLostWakeUp, BatchCovers, Ended, DrainedAtEnd

LEMMA QuitOK == ASSUME SqlAssumption, IInv, MainQuit PROVE IInv'
  <1>1. sem' \in 0..SemMax /\ (sem > 0 => sem' > 0)
    BY DEF SqlAssumption, IInv, TypeOK, MainQuit, Quit, QuitRelease, QuitJoin, thread, Release
  <1>2. TypeOK'
    BY <1>1 DEF IInv, TypeOK, Result, MainQuit, Quit, QuitRelease, QuitJoin, thread
  <1> QED BY <1>1, <1>2 DEF IInv, MainQuit, Quit, QuitRelease, QuitJoin, thread,
                      NoLostWakeUp, BatchCovers, Ended, DrainedAtEnd

LEMMA WaitOK ==
    ASSUME SqlAssumption, IInv, LoopTop \/ SemWait \/ DrainRetry \/ DrainEnd
    PROVE  IInv'
  <1>1. TypeOK'
    BY DEF SqlAssumption, IInv, TypeOK, Result, LoopTop, SemWait, DrainRetry, DrainEnd
  <1>2. NoLostWakeUp' /\ Ended'
    BY DEF IInv, TypeOK, NoLostWakeUp, Ended, LoopTop, SemWait, DrainRetry, DrainEnd
  <1>3. BatchCovers' /\ DrainedAtEnd'
    <2>1. copy \in Seq(Query) /\ failures \in Nat
      BY DEF IInv, TypeOK
    <2>2. Len(copy) = 0 => copy = <<>>
      BY <2>1, EmptySeq
    <2> QED BY <2>1, <2>2 DEF IInv, BatchCovers, DrainedAtEnd, LoopTop, SemWait, DrainRetry, DrainEnd
  <1> QED BY <1>1, <1>2, <1>3 DEF IInv

LEMMA CopyOK == ASSUME IInv, CopyQuery PROVE IInv'
  <1>1. CASE query = <<>>
    <2>1. UNCHANGED <<query, copy, results, sem, end, count, failures, main>> /\ loop' = "top"
      BY <1>1 DEF CopyQuery
    <2> QED BY <1>1, <2>1 DEF IInv, TypeOK, Result, CopyQuery, NoLostWakeUp, BatchCovers, Ended, DrainedAtEnd
  <1>2. CASE query # <<>>
    <2>1. query \in Seq(Query) /\ copy \in Seq(Query) /\ Len(query) \in Nat \ {0}
      BY <1>2, TailType DEF IInv, TypeOK
    <2>2. /\ copy \o query \in Seq(Query)
          /\ Len(copy \o query) = Len(copy) + Len(query)
          /\ Len(copy) \in Nat
      BY <2>1
    <2>3. /\ copy' = copy \o query /\ query' = <<>> /\ count' = Len(copy') /\ loop' = "batch"
          /\ UNCHANGED <<results, sem, end, failures, main>>
      BY <1>2 DEF CopyQuery
    <2>4. TypeOK'
      BY <2>2, <2>3 DEF IInv, TypeOK, Result
    <2>5. BatchCovers'
      BY <2>1, <2>2, <2>3 DEF BatchCovers
    <2> QED BY <2>3, <2>4, <2>5 DEF IInv, NoLostWakeUp, Ended, DrainedAtEnd
  <1> QED BY <1>1, <1>2

LEMMA ExecuteOK ==
    ASSUME IInv, NEW reply \in Reply, ExecuteQuery(reply)
    PROVE  IInv'
  <1>1. /\ loop = "batch" /\ copy' = Tail(copy) /\ Replied(Head(copy), reply) /\ NextSlot
        /\ UNCHANGED <<query, sem, end, failures, main>>
    BY DEF ExecuteQuery
  <1>2. /\ Head(copy) \in Query /\ Tail(copy) \in Seq(Query)
        /\ Len(Tail(copy)) = Len(copy) - 1
        /\ Len(copy) \in Nat \ {0}
    BY <1>1, BatchHasQuery DEF IInv
  <1>3. results' \in Seq(Result)
    BY <1>1, <1>2, RepliedType DEF IInv
  <1>4. /\ count \in 1..Len(copy) /\ (failures = 0 => Len(copy) = count)
        /\ count' = count - 1 /\ loop' = IF count = 1 THEN "top" ELSE "batch"
    BY <1>1 DEF IInv, BatchCovers, NextSlot
  <1>5. /\ count \in Nat /\ count' \in Nat /\ count <= Len(copy) /\ count >= 1
        /\ loop' = "batch" => count' >= 1
        /\ loop' \in {"top", "batch"}
    <2>1. count \in 1..Len(copy) /\ Len(copy) \in Nat
      BY <1>2, <1>4
    <2>2. count \in Nat /\ count <= Len(copy) /\ count >= 1
      BY <2>1
    <2>3. CASE count = 1
      BY <1>4, <2>2, <2>3
    <2>4. CASE count # 1
      BY <1>4, <2>2, <2>4
    <2> QED BY <2>2, <2>3, <2>4
  <1>6. copy' \in Seq(Query)
    BY <1>1, <1>2
  <1>7. TypeOK'
    BY <1>1, <1>3, <1>5, <1>6 DEF IInv, TypeOK, Result
  <1>8. Len(copy') = Len(copy) - 1 /\ failures' = failures
    BY <1>1, <1>2
  <1>9. BatchCovers'
    <2>1. loop' = "batch" => count' \in 1..Len(copy')
      <3>1. count' = count - 1
        BY <1>4
      <3>2. Len(copy') \in Nat
        BY <1>2, <1>8
      <3>3. count' <= Len(copy')
        BY <1>2, <1>5, <1>8, <3>1
      <3> QED BY <1>5, <3>2, <3>3
    <2>2. failures = 0 => Len(copy') = IF loop' = "batch" THEN count' ELSE 0
      <3>1. CASE count = 1
        BY <1>2, <1>4, <1>8, <3>1
      <3>2. CASE count # 1
        BY <1>2, <1>4, <1>8, <3>2
      <3> QED BY <3>1, <3>2
    <2> QED BY <1>8, <2>1, <2>2 DEF BatchCovers
  <1> QED BY <1>1, <1>4, <1>7, <1>9 DEF IInv, NoLostWakeUp, Ended, DrainedAtEnd

LEMMA RetryOK == ASSUME SqlAssumption, IInv, RetryQuery PROVE IInv'
  <1>1. /\ loop = "batch" /\ failures' = failures + 1 /\ failures \in Nat
        /\ count' = count - 1 /\ loop' = IF count = 1 THEN "top" ELSE "batch"
        /\ UNCHANGED <<query, copy, results, end, main>>
    BY DEF RetryQuery, NextSlot, IInv, TypeOK
  <1>2. sem' \in 0..SemMax /\ sem' > 0
    BY DEF SqlAssumption, IInv, TypeOK, RetryQuery, Release
  <1>3. count \in 1..Len(copy) /\ Len(copy) \in Nat
    BY <1>1 DEF IInv, TypeOK, BatchCovers
  <1>4. TypeOK'
    BY <1>1, <1>2, <1>3 DEF IInv, TypeOK, Result
  <1>5. BatchCovers'
    BY <1>1, <1>3 DEF BatchCovers
  <1> QED BY <1>1, <1>2, <1>4, <1>5 DEF IInv, NoLostWakeUp, Ended, DrainedAtEnd

LEMMA DrainOK ==
    ASSUME IInv, NEW reply \in Reply, DrainQuery(reply)
    PROVE  IInv'
  <1>1. /\ loop = "drain" /\ query # <<>> /\ query' = Tail(query) /\ Replied(Head(query), reply)
        /\ UNCHANGED <<copy, sem, end, loop, count, failures, main>>
    BY DEF DrainQuery
  <1>2. Head(query) \in Query /\ Tail(query) \in Seq(Query)
    BY <1>1, TailType DEF IInv, TypeOK
  <1>3. results' \in Seq(Result)
    BY <1>1, <1>2, RepliedType DEF IInv
  <1>4. TypeOK'
    BY <1>1, <1>2, <1>3 DEF IInv, TypeOK, Result
  <1> QED BY <1>1, <1>4 DEF IInv, NoLostWakeUp, BatchCovers, Ended, DrainedAtEnd

LEMMA StepOK == ASSUME SqlAssumption, IInv, [Next]_vars PROVE IInv'
  <1>1. CASE UNCHANGED vars
    BY <1>1 DEF vars, IInv, TypeOK, Result, NoLostWakeUp, BatchCovers, Ended, DrainedAtEnd
  <1> QED BY <1>1, PushOK, PopResultOK, QuitOK, WaitOK, CopyOK, ExecuteOK, RetryOK, DrainOK DEF Next, ChildLoop

-----------------------------------------------------------------------------

(* The connection never loses a wake-up, no batch runs over its queue, and *)
(* when the thread is gone nothing is left but what failed before.         *)
THEOREM ConnectionSafe ==
    ASSUME SqlAssumption
    PROVE  Spec => [](TypeOK /\ NoLostWakeUp /\ BatchCovers /\ DrainedAtEnd)
  <1>1. Init => IInv
    BY InitOK
  <1>2. IInv /\ [Next]_vars => IInv'
    BY StepOK
  <1>3. IInv => TypeOK /\ NoLostWakeUp /\ BatchCovers /\ DrainedAtEnd
    BY DEF IInv
  <1> QED BY <1>1, <1>2, <1>3, PTL DEF Spec

-----------------------------------------------------------------------------
(* The queue that users see                                                *)

LEMMA ConcatAppend ==
    ASSUME NEW S, NEW s \in Seq(S), NEW t \in Seq(S), NEW e \in S
    PROVE  s \o Append(t, e) = Append(s \o t, e)
  <1>1. <<e>> \in Seq(S)
    OBVIOUS
  <1>2. s \o t \in Seq(S) /\ Append(t, e) = t \o <<e>>
    BY ConcatProperties, AppendIsConcat
  <1>3. Append(s \o t, e) = (s \o t) \o <<e>>
    BY <1>2, AppendIsConcat
  <1> QED BY <1>1, <1>2, <1>3, ConcatAssociative

LEMMA ConcatHeadTail ==
    ASSUME NEW S, NEW s \in Seq(S), NEW t \in Seq(S), s # <<>>
    PROVE  /\ s \o t # <<>>
           /\ Head(s \o t) = Head(s)
           /\ Tail(s \o t) = Tail(s) \o t
  <1>1. /\ s \o t \in Seq(S) /\ Len(s \o t) = Len(s) + Len(t)
        /\ Len(s) \in Nat \ {0} /\ Len(t) \in Nat
        /\ Tail(s) \in Seq(S) /\ Len(Tail(s)) = Len(s) - 1
    BY TailType, ConcatProperties, LenProperties
  <1>2. s \o t # <<>> /\ Head(s \o t) = Head(s)
    BY <1>1, ConcatProperties, EmptySeq
  <1>3. /\ Tail(s \o t) \in Seq(S) /\ Tail(s) \o t \in Seq(S)
        /\ Len(Tail(s \o t)) = Len(s) + Len(t) - 1
        /\ Len(Tail(s) \o t) = Len(s) + Len(t) - 1
    BY <1>1, <1>2, HeadTailProperties, ConcatProperties
  <1>4. ASSUME NEW i \in 1 .. Len(s) + Len(t) - 1
        PROVE  Tail(s \o t)[i] = (Tail(s) \o t)[i]
    <2>1. Tail(s \o t)[i] = (s \o t)[i + 1]
      BY <1>1, <1>2, <1>3, HeadTailProperties
    <2>2. (s \o t)[i + 1] = IF i + 1 <= Len(s) THEN s[i + 1] ELSE t[i + 1 - Len(s)]
      BY <1>1, ConcatProperties
    <2>3. (Tail(s) \o t)[i] = IF i <= Len(s) - 1 THEN Tail(s)[i] ELSE t[i - (Len(s) - 1)]
      BY <1>1, ConcatProperties
    <2>4. i <= Len(s) - 1 => Tail(s)[i] = s[i + 1]
      BY <1>1, HeadTailProperties
    <2>5. i + 1 - Len(s) = i - (Len(s) - 1) /\ (i + 1 <= Len(s) <=> i <= Len(s) - 1)
      BY <1>1
    <2> QED BY <2>1, <2>2, <2>3, <2>4, <2>5
  <1>5. Tail(s \o t) = Tail(s) \o t
    BY <1>3, <1>4, SeqEqual
  <1> QED BY <1>2, <1>5

(* The rest of a sequence behind its first part.                           *)
LEMMA SubSeqBehind ==
    ASSUME NEW S, NEW s \in Seq(S), NEW t \in Seq(S)
    PROVE  SubSeq(s \o t, Len(s) + 1, Len(s \o t)) = t
  <1>1. /\ Len(s) \in Nat /\ Len(t) \in Nat
        /\ s \o t \in Seq(S) /\ Len(s \o t) = Len(s) + Len(t)
    BY ConcatProperties, LenProperties
  <1>2. CASE Len(t) = 0
    BY <1>1, <1>2, SubSeqEmpty, EmptySeq
  <1>3. CASE Len(t) # 0
    <2>1. /\ Len(s) + 1 \in Len(s) + 1 .. Len(s) + Len(t)
          /\ Len(s) + Len(t) \in Len(s) + 1 .. Len(s) + Len(t)
      BY <1>1, <1>3
    <2>2. SubSeq(s \o t, Len(s) + 1, Len(s) + Len(t))
              = SubSeq(t, Len(s) + 1 - Len(s), Len(s) + Len(t) - Len(s))
      BY <2>1, SubSeqOfConcat2
    <2>3. Len(s) + 1 - Len(s) = 1 /\ Len(s) + Len(t) - Len(s) = Len(t)
      BY <1>1
    <2> QED BY <1>1, <2>2, <2>3, SubSeqFull
  <1> QED BY <1>2, <1>3

(* Queues of the connection are sequences, and Pending with them.          *)
LEMMA PendingType ==
    ASSUME TypeOK
    PROVE  /\ copy \in Seq(Query) /\ query \in Seq(Query) /\ failures \in Nat
           /\ copy \o query \in Seq(Query)
           /\ copy \o <<>> = copy /\ <<>> \o query = query
  BY ConcatProperties, ConcatEmptySeq DEF TypeOK

LEMMA PushMaps ==
    ASSUME IInv, NEW q \in Query, PushQuery(q)
    PROVE  Queue!Push(q)
  <1>1. Pending' = Append(Pending, q)
    BY PendingType, ConcatAppend DEF IInv, PushQuery, Pending
  <1> QED BY <1>1 DEF PushQuery, Queue!Push

LEMMA TopMaps ==
    ASSUME IInv, LoopTop
    PROVE  Queue!Abandon \/ UNCHANGED Queue!vars
  <1>1. /\ loop = "top" /\ Pending = copy \o query
        /\ UNCHANGED <<query, copy, results, failures>>
    BY DEF LoopTop, Pending
  <1>2. CASE ~end
    BY <1>1, <1>2 DEF LoopTop, Pending, Queue!vars
  <1>3. CASE end
    <2>1. Pending' = query
      BY <1>3 DEF LoopTop, Pending
    <2>2. CASE copy = <<>>
      BY <1>1, <2>1, <2>2, PendingType DEF IInv, Queue!vars
    <2>3. CASE copy # <<>>
      <3>1. Len(copy) \in Nat \ {0}
        BY <2>3, PendingType, TailType DEF IInv
      <3>2. failures # 0 /\ failures > 0
        BY <1>1, <3>1, PendingType DEF IInv, BatchCovers
      <3>3. Pending' = SubSeq(Pending, Len(copy) + 1, Len(Pending))
        BY <1>1, <2>1, PendingType, SubSeqBehind DEF IInv
      <3>4. Len(copy) \in 1..Len(Pending)
        <4>1. Len(Pending) = Len(copy) + Len(query) /\ Len(query) \in Nat
          BY <1>1, PendingType, ConcatProperties, LenProperties DEF IInv
        <4> QED BY <3>1, <4>1
      <3> QED BY <1>1, <3>2, <3>3, <3>4 DEF Queue!Abandon
    <2> QED BY <2>2, <2>3
  <1> QED BY <1>2, <1>3

LEMMA CopyMaps == ASSUME IInv, CopyQuery PROVE UNCHANGED Queue!vars
  <1>1. copy' \o query' = copy \o query
    <2>1. CASE query = <<>>
      BY <2>1 DEF CopyQuery
    <2>2. CASE query # <<>>
      <3>1. copy' = copy \o query /\ query' = <<>>
        BY <2>2 DEF CopyQuery
      <3>2. copy \o query \in Seq(Query)
        BY PendingType DEF IInv
      <3> QED BY <3>1, <3>2, ConcatEmptySeq
    <2> QED BY <2>1, <2>2
  <1>2. loop = "copy" /\ loop' \in {"top", "batch"}
    BY DEF CopyQuery
  <1> QED BY <1>1, <1>2 DEF CopyQuery, Pending, Queue!vars

LEMMA ExecuteMaps ==
    ASSUME IInv, NEW reply \in Reply, ExecuteQuery(reply)
    PROVE  Queue!Finish(reply)
  <1>1. /\ loop = "batch" /\ loop' \in {"top", "batch"}
        /\ copy' = Tail(copy) /\ query' = query /\ failures' = failures
        /\ Replied(Head(copy), reply)
    BY DEF ExecuteQuery, NextSlot
  <1>2. copy # <<>> /\ copy \in Seq(Query) /\ query \in Seq(Query)
    BY <1>1, BatchHasQuery, PendingType DEF IInv
  <1>3. Pending # <<>> /\ Head(Pending) = Head(copy) /\ Pending' = Tail(Pending)
    BY <1>1, <1>2, ConcatHeadTail DEF Pending
  <1> QED BY <1>1, <1>3 DEF Replied, Queue!Finish

LEMMA DrainMaps ==
    ASSUME NEW reply \in Reply, DrainQuery(reply)
    PROVE  Queue!Finish(reply)
  BY DEF DrainQuery, Replied, Pending, Queue!Finish

LEMMA RetryMaps ==
    ASSUME IInv, RetryQuery \/ DrainRetry
    PROVE  Queue!Trouble
  <1>1. failures' = failures + 1 /\ failures \in Nat /\ UNCHANGED <<query, copy, results>>
    BY DEF IInv, TypeOK, RetryQuery, DrainRetry
  <1>2. Pending' = Pending
    <2>1. CASE RetryQuery
      BY <1>1, <2>1 DEF RetryQuery, NextSlot, Pending
    <2>2. CASE DrainRetry
      BY <1>1, <2>2 DEF DrainRetry, Pending
    <2> QED BY <2>1, <2>2
  <1>3. failures' > 0
    BY <1>1
  <1> QED BY <1>1, <1>2, <1>3 DEF Queue!Trouble

LEMMA OthersMap ==
    ASSUME MainQuit \/ SemWait \/ DrainEnd \/ UNCHANGED vars
    PROVE  UNCHANGED Queue!vars
  BY DEF MainQuit, Quit, QuitRelease, QuitJoin, thread, SemWait, DrainEnd, vars, Pending, Queue!vars

LEMMA StepMaps ==
    ASSUME IInv, [Next]_vars
    PROVE  [Queue!Next]_(Queue!vars)
  <1>1. CASE PopResult
    BY <1>1 DEF PopResult, Pending, Queue!Take, Queue!Next
  <1>2. ASSUME NEW q \in Query, PushQuery(q) PROVE Queue!Next
    BY <1>2, PushMaps DEF Queue!Next
  <1>3. ASSUME NEW reply \in Reply, ExecuteQuery(reply) \/ DrainQuery(reply) PROVE Queue!Next
    BY <1>3, ExecuteMaps, DrainMaps DEF Queue!Next
  <1>4. CASE RetryQuery \/ DrainRetry
    BY <1>4, RetryMaps DEF Queue!Next
  <1>5. CASE LoopTop
    BY <1>5, TopMaps DEF Queue!Next
  <1>6. CASE CopyQuery
    BY <1>6, CopyMaps
  <1>7. CASE MainQuit \/ SemWait \/ DrainEnd \/ UNCHANGED vars
    BY <1>7, OthersMap
  <1> QED BY <1>1, <1>2, <1>3, <1>4, <1>5, <1>6, <1>7 DEF Next, ChildLoop

(* Whatever is pushed is finished in order, each query once, and what is   *)
(* lost is lost only after a failure and from the front: the safety part   *)
(* of ImplementsQueue.                                                     *)
THEOREM ConnectionIsQueue ==
    ASSUME SqlAssumption
    PROVE  Spec => Queue!Spec
  <1>1. Init => IInv
    BY InitOK
  <1>2. IInv /\ [Next]_vars => IInv'
    BY StepOK
  <1>3. Init => Queue!Init
    <2>1. <<>> \o <<>> = <<>>
      OBVIOUS
    <2> QED BY <2>1 DEF Init, Pending, Queue!Init
  <1>4. IInv /\ [Next]_vars => [Queue!Next]_(Queue!vars)
    BY StepMaps
  <1> QED BY <1>1, <1>2, <1>3, <1>4, PTL DEF Spec, Queue!Spec
=============================================================================
