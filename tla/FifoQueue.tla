------------------------------ MODULE FifoQueue ------------------------------
(***************************************************************************)
(* What src/include/wlpq.h promises of the query queue: queries are        *)
(* enqueued atomically (wlpq.h:196), they are handed to the database in    *)
(* the order in which they were enqueued, each of them once, and a query   *)
(* created with lock_until_done "blocks all processing of further queries  *)
(* until complete" (wlpq.h:174).  The queue is kept as two logs, what went *)
(* in and what came out; QueryQueue.tla, the linked list of                *)
(* src/src/wlpq.c, is shown to implement it.                               *)
(***************************************************************************)
EXTENDS Integers, Sequences

CONSTANTS Queries,   \* the wlpq_query_data_st objects
          Blocking   \* those created with lock_until_done = 1

VARIABLES enqueued,  \* every query accepted so far, in order
          dequeued,  \* every query handed out so far, in order
          barrier    \* the lock_until_done query now being processed, if any

fifoVars == <<enqueued, dequeued, barrier>>

Occurs(q, log) == \E i \in DOMAIN log : log[i] = q

Init == enqueued = <<>> /\ dequeued = <<>> /\ barrier = {}

Enqueue(q) ==
    /\ ~ Occurs(q, enqueued)
    /\ enqueued' = Append(enqueued, q)
    /\ UNCHANGED <<dequeued, barrier>>

(* The oldest query leaves, unless a lock_until_done query is in progress.  *)
Dequeue ==
    /\ barrier = {}
    /\ Len(dequeued) < Len(enqueued)
    /\ LET q == enqueued[Len(dequeued) + 1]
       IN  /\ dequeued' = Append(dequeued, q)
           /\ barrier' = {q} \cap Blocking
    /\ UNCHANGED enqueued

Complete ==
    /\ barrier # {}
    /\ barrier' = {}
    /\ UNCHANGED <<enqueued, dequeued>>

Next == (\E q \in Queries : Enqueue(q)) \/ Dequeue \/ Complete

Spec == Init /\ [][Next]_fifoVars
==============================================================================
