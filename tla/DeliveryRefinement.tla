-------------------------- MODULE DeliveryRefinement -------------------------
(***************************************************************************)
(* The cluster implements Delivery: a row is visible when it is committed, *)
(* consumed when processed_at is set, owed a reply while its runner is     *)
(* between ack and the COMMIT of send.                                     *)
(***************************************************************************)
EXTENDS Cluster

CONSTANT RowId      \* row ids; a bound in a run, where few rows are constructed

OwedRows ==
    {cur[r] : r \in {s \in Runner :
                        pc[s] \in {"loopcheck", "maxcheck", "send", "store"}}}

AnsweredRows == {msgs[i].parent : i \in stored} \ {NoParent}

D == INSTANCE Delivery WITH
        Message <- RowId,
        visible <- stored,
        consumed <- processed,
        owed <- OwedRows,
        answered <- AnsweredRows

\* Every behaviour of the processes, with their crashes, retries and
\* cancellations, is one Delivery allows: what is consumed is consumed once,
\* a reply appears once and only for a row its runner has acknowledged, and
\* a reply that was lost does not come back.
ImplementsDelivery == D!DSpec

\* Nothing is owed a reply it already has, and what is owed one has been
\* acknowledged: between ack and send a runner works on a reply that nobody
\* has sent (Delivery's invariant, for the rows).
OwedOnce == D!OwedOnce

=============================================================================
