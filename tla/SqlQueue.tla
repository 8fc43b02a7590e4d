------------------------------ MODULE SqlQueue ------------------------------
(***************************************************************************)
(* What the users of a CAsyncSQL connection rely on: the queries that are  *)
(* pushed are finished one after the other in the order of the calls, each *)
(* once, and the replies to those that want one come back in that order.   *)
(* Only a connection that was in trouble may abandon queries, and then     *)
(* the oldest ones.                                                        *)
(***************************************************************************)
EXTENDS Naturals, Sequences

CONSTANTS Query,      \* the queries
          Returning,  \* those pushed by ReturnQuery, which have a reply
          Reply       \* what MySQL can say to a query

VARIABLES pending,    \* pushed and not finished, oldest first
          results,    \* replies that nobody has taken
          troubled    \* a query failed for a passing reason

vars == <<pending, results, troubled>>

Result == [query : Returning, reply : Reply]

TypeOK ==
    /\ pending \in Seq(Query)
    /\ results \in Seq(Result)
    /\ troubled \in BOOLEAN

Init ==
    /\ pending = <<>>
    /\ results = <<>>
    /\ troubled = FALSE

-----------------------------------------------------------------------------

Push(q) ==
    /\ pending' = Append(pending, q)
    /\ UNCHANGED <<results, troubled>>

Finish(reply) ==
    /\ pending # <<>>
    /\ pending' = Tail(pending)
    /\ results' = IF Head(pending) \in Returning
                  THEN Append(results, [query |-> Head(pending), reply |-> reply])
                  ELSE results
    /\ UNCHANGED troubled

Take ==
    /\ results # <<>>
    /\ results' = Tail(results)
    /\ UNCHANGED <<pending, troubled>>

Trouble ==
    /\ troubled' = TRUE
    /\ UNCHANGED <<pending, results>>

Abandon ==
    /\ troubled
    /\ \E n \in 1..Len(pending) : pending' = SubSeq(pending, n + 1, Len(pending))
    /\ UNCHANGED <<results, troubled>>

Next ==
    \/ \E q \in Query : Push(q)
    \/ \E reply \in Reply : Finish(reply)
    \/ Take
    \/ Trouble
    \/ Abandon

Spec == Init /\ [][Next]_vars

(* Without trouble every query is finished in the end.                     *)
FairSpec == Spec /\ WF_vars(~troubled /\ \E reply \in Reply : Finish(reply))
=============================================================================
