------------------------------ MODULE AsyncSql ------------------------------
(***************************************************************************)
(* One connection to MySQL (CAsyncSQL): the thread of the DB server pushes *)
(* queries and takes results, a thread of the connection (ChildLoop) waits *)
(* on a semaphore, moves the pushed queries to a queue of its own and      *)
(* executes them.                                                          *)
(***************************************************************************)
EXTENDS Naturals, Sequences

CONSTANTS Query,        \* the queries
          Returning,    \* those pushed by ReturnQuery, which have a result
          Reply,        \* what MySQL can say to a query
          SemMax,       \* the largest value of the semaphore
          MaxFailures   \* bound: failures for a passing reason

(* What the constants must be.                                             *)
SqlAssumption ==
    /\ Returning \subseteq Query
    /\ SemMax \in Nat \ {0}
    /\ MaxFailures \in Nat

VARIABLES query,     \* m_queue_query, under m_mtxQuery
          copy,      \* m_queue_query_copy, of the thread alone
          results,   \* m_queue_result, under m_mtxResult
          sem,       \* m_sem
          end,       \* m_bEnd
          loop,      \* where ChildLoop is
          count,     \* what is left of the batch
          failures,  \* executions that failed for a passing reason
          main       \* where the main thread is in Quit

vars == <<query, copy, results, sem, end, loop, count, failures, main>>
thread == <<query, copy, results, sem, loop, count, failures>>

Result == [query : Returning, reply : Reply]

TypeOK ==
    /\ query \in Seq(Query)
    /\ copy \in Seq(Query)
    /\ results \in Seq(Result)
    /\ sem \in 0..SemMax
    /\ end \in BOOLEAN
    /\ loop \in {"top", "wait", "copy", "batch", "drain", "done"}
    /\ count \in Nat
    /\ failures \in Nat
    /\ main \in {"run", "release", "join", "joined"}

Init ==
    /\ query = <<>>
    /\ copy = <<>>
    /\ results = <<>>
    /\ sem = 0
    /\ end = FALSE
    /\ loop = "top"
    /\ count = 0
    /\ failures = 0
    /\ main = "run"

(* CSemaphore::Release. The Windows build creates the semaphore with a     *)
(* largest count, at which a release has no effect.                        *)
Release == sem' = IF sem < SemMax THEN sem + 1 ELSE sem

-----------------------------------------------------------------------------
(* The main thread                                                         *)

(* Mutant: the wake-up is forgotten.                                       *)
PushQuerySilent(q) ==
    /\ main = "run"
    /\ query' = Append(query, q)
    /\ UNCHANGED <<copy, results, sem, end, loop, count, failures, main>>

(* AsyncQuery, ReturnQuery: PushQuery in one section of m_mtxQuery.        *)
PushQuery(q) ==
    /\ main = "run"
    /\ query' = Append(query, q)
    /\ Release
    /\ UNCHANGED <<copy, results, end, loop, count, failures, main>>

PopResult ==
    /\ main = "run"
    /\ results # <<>>
    /\ results' = Tail(results)
    /\ UNCHANGED <<query, copy, sem, end, loop, count, failures, main>>

(* Quit: m_bEnd is set first, then the semaphore is released.              *)
Quit ==
    /\ main = "run"
    /\ end' = TRUE
    /\ main' = "release"
    /\ UNCHANGED thread

(* Mutant: the thread is not woken up to see m_bEnd.                       *)
QuitReleaseForgotten ==
    /\ main = "release"
    /\ main' = "join"
    /\ UNCHANGED <<query, copy, results, sem, end, loop, count, failures>>

QuitRelease ==
    /\ main = "release"
    /\ main' = "join"
    /\ Release
    /\ UNCHANGED <<query, copy, results, end, loop, count, failures>>

QuitJoin ==
    /\ main = "join"
    /\ loop = "done"
    /\ main' = "joined"
    /\ UNCHANGED <<end, thread>>

-----------------------------------------------------------------------------
(* ChildLoop                                                               *)

LoopTop ==
    /\ loop = "top"
    /\ loop' = IF end THEN "drain" ELSE "wait"
    /\ UNCHANGED <<query, copy, results, sem, end, count, failures, main>>

SemWait ==
    /\ loop = "wait"
    /\ sem > 0
    /\ sem' = sem - 1
    /\ loop' = "copy"
    /\ UNCHANGED <<query, copy, results, end, count, failures, main>>

(* Mutant: one query for each wake-up, as if the semaphore counted them.   *)
CopyQueryOne ==
    /\ loop = "copy"
    /\ \/ /\ query = <<>>
          /\ loop' = "top"
          /\ UNCHANGED <<query, copy, count>>
       \/ /\ query # <<>>
          /\ copy' = copy \o query
          /\ query' = <<>>
          /\ count' = 1
          /\ loop' = "batch"
    /\ UNCHANGED <<results, sem, end, failures, main>>

(* Mutant: the batch is what was pushed, without what is left from before. *)
CopyQueryFresh ==
    /\ loop = "copy"
    /\ \/ /\ query = <<>>
          /\ loop' = "top"
          /\ UNCHANGED <<query, copy, count>>
       \/ /\ query # <<>>
          /\ copy' = copy \o query
          /\ query' = <<>>
          /\ count' = Len(query)
          /\ loop' = "batch"
    /\ UNCHANGED <<results, sem, end, failures, main>>

(* CopyQuery: all that was pushed goes behind what an earlier batch left.  *)
CopyQuery ==
    /\ loop = "copy"
    /\ \/ /\ query = <<>>
          /\ loop' = "top"
          /\ UNCHANGED <<query, copy, count>>
       \/ /\ query # <<>>
          /\ copy' = copy \o query
          /\ query' = <<>>
          /\ count' = Len(copy')
          /\ loop' = "batch"
    /\ UNCHANGED <<results, sem, end, failures, main>>

(* What a query that was executed leaves for PopResult.                    *)
Replied(q, reply) ==
    results' = IF q \in Returning
               THEN Append(results, [query |-> q, reply |-> reply])
               ELSE results

(* A slot of the batch is spent, whatever becomes of the query.            *)
NextSlot ==
    /\ count' = count - 1
    /\ loop' = IF count = 1 THEN "top" ELSE "batch"

(* mysql_real_query succeeded, or failed for a reason that a retry would   *)
(* not mend: the query is done with.                                       *)
ExecuteQuery(reply) ==
    /\ loop = "batch"
    /\ copy' = Tail(copy)
    /\ Replied(Head(copy), reply)
    /\ NextSlot
    /\ UNCHANGED <<query, sem, end, failures, main>>

(* Mutant: the retried query goes to the back.                             *)
RetryQueryLater ==
    /\ loop = "batch"
    /\ failures < MaxFailures
    /\ failures' = failures + 1
    /\ copy' = Append(Tail(copy), Head(copy))
    /\ NextSlot
    /\ Release
    /\ UNCHANGED <<query, results, end, main>>

(* A passing reason (connection refused, server gone, table crashed): the  *)
(* query stays in front, the semaphore is released for another turn.       *)
RetryQuery ==
    /\ loop = "batch"
    /\ failures < MaxFailures
    /\ failures' = failures + 1
    /\ NextSlot
    /\ Release
    /\ UNCHANGED <<query, copy, results, end, main>>

(* After the loop: PeekQuery, execute, PopQuery until nothing is pushed.   *)
DrainQuery(reply) ==
    /\ loop = "drain"
    /\ query # <<>>
    /\ query' = Tail(query)
    /\ Replied(Head(query), reply)
    /\ UNCHANGED <<copy, sem, end, loop, count, failures, main>>

DrainRetry ==
    /\ loop = "drain"
    /\ query # <<>>
    /\ failures < MaxFailures
    /\ failures' = failures + 1
    /\ UNCHANGED <<query, copy, results, sem, end, loop, count, main>>

(* Mutant: nothing is executed after the loop.                             *)
DrainEndAtOnce ==
    /\ loop = "drain"
    /\ loop' = "done"
    /\ UNCHANGED <<query, copy, results, sem, end, count, failures, main>>

DrainEnd ==
    /\ loop = "drain"
    /\ query = <<>>
    /\ loop' = "done"
    /\ UNCHANGED <<query, copy, results, sem, end, count, failures, main>>

ChildLoop ==
    \/ LoopTop
    \/ SemWait
    \/ CopyQuery
    \/ \E reply \in Reply : ExecuteQuery(reply)
    \/ RetryQuery
    \/ \E reply \in Reply : DrainQuery(reply)
    \/ DrainRetry
    \/ DrainEnd

MainQuit == Quit \/ QuitRelease \/ QuitJoin

Next ==
    \/ \E q \in Query : PushQuery(q)
    \/ PopResult
    \/ MainQuit
    \/ ChildLoop

Spec == Init /\ [][Next]_vars

(* The thread runs until the process ends and MySQL answers in the end;    *)
(* Quit goes on once it is called. Nobody is bound to push or to quit.     *)
Fairness == WF_vars(ChildLoop) /\ WF_vars(QuitRelease) /\ WF_vars(QuitJoin)

FairSpec == Spec /\ Fairness

-----------------------------------------------------------------------------
(* Properties                                                              *)

(* What the users see as pushed and not executed. What failed and was left *)
(* in the thread's queue is out of reach once the loop has ended.          *)
Pending == IF loop \in {"drain", "done"} THEN query ELSE copy \o query

Queue == INSTANCE SqlQueue WITH pending <- Pending, troubled <- failures > 0

(* Queries are executed in the order of the calls, each once, and results  *)
(* come back in that order; a query is lost only after a retry. Without    *)
(* failures every query is executed in the end.                            *)
ImplementsQueue == Queue!FairSpec

(* A pushed query has a wake-up of its own or the thread is about to copy  *)
(* it: the wake-ups of one batch may be used up by another one.            *)
NoLostWakeUp == query # <<>> => sem > 0 \/ loop = "copy"

(* The batch is what the queue of the thread holds, so no slot of it is    *)
(* spent on an empty queue, and only a retry leaves something behind.      *)
BatchCovers ==
    /\ loop = "batch" => count \in 1..Len(copy)
    /\ failures = 0 => Len(copy) = IF loop = "batch" THEN count ELSE 0

(* When the thread is gone, as CDBManager::Quit waits for, nothing pushed  *)
(* is left but what failed before.                                         *)
DrainedAtEnd == loop = "done" => query = <<>> /\ (copy = <<>> \/ failures > 0)

(* What a retry has left behind waits for the next push, no longer: with   *)
(* it everything is executed, unless there is another failure or the end.  *)
LeftOversServed ==
    \A n \in 0..MaxFailures :
        copy # <<>> /\ query # <<>> /\ failures = n
            ~> copy = <<>> \/ failures > n \/ end

(* Quit comes back: the thread it joins sees m_bEnd before it waits again. *)
QuitReturns == main = "release" ~> main = "joined"
=============================================================================
