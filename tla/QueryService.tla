----------------------------- MODULE QueryService -----------------------------
(***************************************************************************)
(* What wlpq promises to those who enqueue queries, whatever threads and   *)
(* connections carry them out: a query is taken once, its fate is decided  *)
(* once (its callback has run, or it failed without), and only queries     *)
(* that were never sent are discarded, after the service was closed.       *)
(***************************************************************************)
CONSTANT Queries

VARIABLES outcome,    \* what has become of each query
          open        \* the send/poll threads have not been told to stop

States == {"new", "queued", "taken", "sent", "answered", "failed", "dropped"}

Init == outcome = [q \in Queries |-> "new"] /\ open = TRUE

Becomes(q, states) ==
    \E s \in states : outcome' = [outcome EXCEPT ![q] = s] /\ UNCHANGED open

Submit(q)   == open /\ outcome[q] = "new" /\ Becomes(q, {"queued"})
Take(q)     == outcome[q] = "queued" /\ Becomes(q, {"taken"})
Dispatch(q) == outcome[q] = "taken" /\ Becomes(q, {"sent"})
Conclude(q) == outcome[q] \in {"taken", "sent"} /\ Becomes(q, {"answered", "failed"})

Close == open /\ open' = FALSE /\ UNCHANGED outcome

Discard ==
    /\ ~ open
    /\ outcome' = [q \in Queries |-> IF outcome[q] = "queued" THEN "dropped"
                                     ELSE outcome[q]]
    /\ UNCHANGED open

Next ==
    \/ \E q \in Queries : Submit(q) \/ Take(q) \/ Dispatch(q) \/ Conclude(q)
    \/ Close \/ Discard

Spec == Init /\ [][Next]_<<outcome, open>>
===============================================================================
