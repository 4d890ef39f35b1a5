---------------------------- MODULE RecordChannel ----------------------------
(***************************************************************************)
(* What the record ring promises, without slots, cursors or sequence       *)
(* words: a bounded queue of records.  A producer reserves the next place, *)
(* fills it and commits it; the consumer takes the oldest record, once it  *)
(* is committed; a record may be refused, and is then counted.             *)
(* MpscRing is shown to implement this.                                    *)
(***************************************************************************)
EXTENDS Naturals, Sequences

CONSTANTS
    Records,   \* what a consumer can receive
    Capacity   \* places in the channel

VARIABLES
    queue,      \* places reserved and not yet delivered, oldest first
    delivered,  \* everything delivered so far
    dropped     \* number of records refused

chanVars == <<queue, delivered, dropped>>

Init == queue = <<>> /\ delivered = <<>> /\ dropped = 0

\* A producer takes the next place for r.
Reserve(r) ==
    /\ Len(queue) < Capacity
    /\ queue' = Append(queue, [rec |-> r, ready |-> FALSE])
    /\ UNCHANGED <<delivered, dropped>>

\* The record in place i is complete.
Commit(i) ==
    /\ ~queue[i].ready
    /\ queue' = [queue EXCEPT ![i].ready = TRUE]
    /\ UNCHANGED <<delivered, dropped>>

\* The consumer takes the oldest record.
Deliver ==
    /\ queue # <<>> /\ Head(queue).ready
    /\ delivered' = Append(delivered, Head(queue).rec)
    /\ queue' = Tail(queue)
    /\ UNCHANGED dropped

\* A record is turned away: the channel was full, or too contended, a
\* moment ago.
Drop ==
    /\ dropped' = dropped + 1
    /\ UNCHANGED <<queue, delivered>>

Next ==
    \/ \E r \in Records : Reserve(r)
    \/ \E i \in 1 .. Len(queue) : Commit(i)
    \/ Deliver
    \/ Drop

Spec == Init /\ [][Next]_chanVars
=============================================================================
