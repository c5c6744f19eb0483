----------------------------- MODULE ChartRequest -----------------------------
(***************************************************************************)
(* The chart requests of src/src/emiss_resource.c: an HTTP worker makes a  *)
(* result storage for every item it needs (one for a map chart, one per    *)
(* country for a line chart), enqueues a query for each, waits on the      *)
(* storages' in_progress flags in turn, reads and frees them, and replies. *)
(* The callback of a query writes into the storage from a send/poll thread *)
(* and clears the flag.  The send/poll threads appear as the QueryService  *)
(* that SendPollLoop implements; the server's stop and the release of the  *)
(* connection context come after the workers.                              *)
(*                                                                         *)
(* The service does not carry every query through.  Workers are several    *)
(* producers, whose queries the queue may lose (wlpq.c:360, shown by       *)
(* QueryQueue); after a failure the threads may leave other queries where   *)
(* they are (wlpq.c:510, 537, 148), and with several threads also without  *)
(* one (wlpq.c:371).  Such a query gets stuck, and the join of its threads  *)
(* may hang, as SendPollLoop shows.                                        *)
(*                                                                         *)
(* A worker serves one request.  Requests are well formed: as many country *)
(* codes as their count says.  Failing calls count against MaxFaults.      *)
(***************************************************************************)
EXTENDS Integers

CONSTANTS Workers,     \* CivetWeb's worker threads
          MaxItems,    \* bound on the items of one chart
          NThreads,    \* WLPQ_MAX_NCONNTHREADS
          MaxFaults    \* bound on the failing calls of one behaviour

ASSUME ChartAssumption ==
    MaxItems \in Nat \ {0} /\ NThreads \in Nat \ {0} /\ MaxFaults \in Nat

VARIABLES
    outcome, open,     \* the query service
    storage,           \* struct result_storage_s of each query: none, live, freed
    in_progress,       \* its flag
    callback,          \* how far callback_datapoint_res_handler() has come
    pc, items, item,   \* each worker: position, number of items, the current one
    status,            \* the HTTP status of its reply, 0 before
    server,            \* running, stopping (mg_stop() waits), stopped, released,
                       \* or hung in the join of the threads
    raced,             \* history: two workers' enqueues have overlapped
    impaired,          \* history: a thread or a connection has failed
    stuck,             \* queries that nobody will take, or answer, any more
    faults

Items   == 1..MaxItems
Queries == Workers \X Items
Service == INSTANCE QueryService

storageVars == <<storage, in_progress, callback>>
workerVars  == <<pc, items, item, status>>
lossVars    == <<raced, impaired, stuck>>
vars == <<outcome, open, storageVars, workerVars, server, lossVars, faults>>

Current(w) == <<w, item[w]>>
Fault      == faults < MaxFaults /\ faults' = faults + 1
Finish(w, code) ==
    /\ pc' = [pc EXCEPT ![w] = "done"]
    /\ status' = [status EXCEPT ![w] = code]

Init ==
    /\ Service!Init
    /\ storage = [q \in Queries |-> "none"]
    /\ in_progress = [q \in Queries |-> FALSE]
    /\ callback = [q \in Queries |-> "none"]
    /\ pc = [w \in Workers |-> "idle"]
    /\ items = [w \in Workers |-> 1] /\ item = [w \in Workers |-> 1]
    /\ status = [w \in Workers |-> 0]
    /\ server = "running" /\ faults = 0
    /\ raced = FALSE /\ impaired = FALSE /\ stuck = {}

-----------------------------------------------------------------------------
(* The worker                                                               *)

(* forward_to_format(): a parameter is missing or invalid.                   *)
Refuse(w) ==
    /\ server = "running" /\ pc[w] = "idle"
    /\ Finish(w, 400)
    /\ UNCHANGED <<outcome, open, storageVars, items, item, server, lossVars,
                   faults>>

Accept(w) ==
    /\ server = "running" /\ pc[w] = "idle"
    /\ pc' = [pc EXCEPT ![w] = "enqueue"]
    /\ \E n \in Items : items' = [items EXCEPT ![w] = n]
    /\ UNCHANGED <<outcome, open, storageVars, item, status, server, lossVars,
                   faults>>

(* Mutant of NextItem: the index runs one too far.                           *)
NextItemBeyond(w, after) ==
    IF item[w] <= items[w]
      THEN item' = [item EXCEPT ![w] = @ + 1] /\ UNCHANGED pc
      ELSE item' = [item EXCEPT ![w] = 1] /\ pc' = [pc EXCEPT ![w] = after]

(* Goes to the next item, or to where the worker goes after the last one.    *)
NextItem(w, after) ==
    IF item[w] < items[w]
      THEN item' = [item EXCEPT ![w] = @ + 1] /\ UNCHANGED pc
      ELSE item' = [item EXCEPT ![w] = 1] /\ pc' = [pc EXCEPT ![w] = after]

(* The worker may not yet have written the queue's tail after its last         *)
(* enqueue: it has released the lock, and taken no step since.              *)
Publishing(v) ==
    (pc[v] = "enqueue" /\ item[v] > 1) \/ (pc[v] = "wait" /\ item[v] = 1)

(* retrieve_matching_data(): a storage with its flag set, then the query,     *)
(* perhaps linked behind a tail that another worker is about to write.       *)
EnqueueItem(w) ==
    /\ pc[w] = "enqueue"
    /\ storage' = [storage EXCEPT ![Current(w)] = "live"]
    /\ in_progress' = [in_progress EXCEPT ![Current(w)] = TRUE]
    /\ Service!Submit(Current(w))
    /\ NextItem(w, "wait")
    /\ \/ UNCHANGED raced
       \/ (\E v \in Workers \ {w} : Publishing(v)) /\ raced' = TRUE
    /\ UNCHANGED <<callback, items, status, server, impaired, stuck, faults>>

(* Mutant of EnqueueFails: the error path frees what it has made so far.     *)
EnqueueFailsFreeing(w) ==
    /\ pc[w] = "enqueue" /\ Fault
    /\ storage' = [q \in Queries |-> IF q[1] = w /\ storage[q] = "live" THEN "freed"
                                     ELSE storage[q]]
    /\ Finish(w, 500)
    /\ UNCHANGED <<outcome, open, in_progress, callback, items, item, server,
                   lossVars>>

(* A call fails before the item is enqueued, with or without its storage     *)
(* made.  What was made and enqueued stays as it is.                        *)
EnqueueFails(w) ==
    /\ pc[w] = "enqueue" /\ Fault
    /\ \/ UNCHANGED <<storage, in_progress>>
       \/ /\ storage' = [storage EXCEPT ![Current(w)] = "live"]
          /\ in_progress' = [in_progress EXCEPT ![Current(w)] = TRUE]
    /\ Finish(w, 500)
    /\ UNCHANGED <<outcome, open, callback, items, item, server, lossVars>>

(* atomic_flag_test_and_set() returns false: the callback is through.  The   *)
(* data is formatted, and the storage freed.                                *)
ReadItemLeaving(w, s) ==
    /\ pc[w] = "wait" /\ ~ in_progress[Current(w)]
    /\ in_progress' = [in_progress EXCEPT ![Current(w)] = TRUE]
    /\ storage' = [storage EXCEPT ![Current(w)] = s]
    /\ NextItem(w, "reply")
    /\ UNCHANGED <<outcome, open, callback, items, status, server, lossVars,
                   faults>>

(* Mutant of ReadItem: the storage is not freed.                             *)
ReadItemKeeping(w) == ReadItemLeaving(w, "live")

ReadItem(w) == ReadItemLeaving(w, "freed")

(* A calloc() before the first wait, or the formatting of an item, fails.    *)
FormatFails(w) ==
    /\ pc[w] = "wait" /\ Fault
    /\ \/ item[w] = 1 /\ UNCHANGED in_progress
       \/ /\ ~ in_progress[Current(w)]
          /\ in_progress' = [in_progress EXCEPT ![Current(w)] = TRUE]
    /\ Finish(w, 500)
    /\ UNCHANGED <<outcome, open, storage, callback, items, item, server, lossVars>>

Reply(w) ==
    /\ pc[w] = "reply"
    /\ Finish(w, 200)
    /\ UNCHANGED <<outcome, open, storageVars, items, item, server, lossVars,
                   faults>>

Worker(w) ==
    \/ Refuse(w) \/ Accept(w) \/ EnqueueItem(w) \/ EnqueueFails(w)
    \/ ReadItem(w) \/ FormatFails(w) \/ Reply(w)

-----------------------------------------------------------------------------
(* The send/poll threads                                                    *)

Send(q) ==
    /\ Service!Take(q) \/ Service!Dispatch(q)
    /\ UNCHANGED <<storageVars, workerVars, server, lossVars, faults>>

(* callback_datapoint_res_handler(): a step of the callback, leaving the flag *)
(* in some state.  (When it cannot allocate memory the program exits.)       *)
CallbackStep(q, from, to, flag) ==
    /\ outcome[q] = "sent" /\ callback[q] = from
    /\ callback' = [callback EXCEPT ![q] = to]
    /\ in_progress' = [in_progress EXCEPT ![q] = flag]
    /\ UNCHANGED <<outcome, open, storage, workerVars, server, lossVars, faults>>

(* Mutant of Fill: the flag is cleared before the data is complete.          *)
FillClearing(q) == CallbackStep(q, "none", "filled", FALSE)

(* It stores the data,                                                       *)
Fill(q) == CallbackStep(q, "none", "filled", in_progress[q])

(* Mutant of Clear: the callback returns without clearing the flag.          *)
ClearForgotten(q) == CallbackStep(q, "filled", "cleared", in_progress[q])

(* and on every way out clears the flag;                                     *)
Clear(q) == CallbackStep(q, "filled", "cleared", FALSE)

(* the query is freed after it.                                              *)
Answer(q) ==
    /\ callback[q] = "cleared" /\ outcome[q] = "sent"
    /\ outcome' = [outcome EXCEPT ![q] = "answered"]
    /\ UNCHANGED <<open, storageVars, workerVars, server, lossVars, faults>>

(* A failed send, a lost connection or a bad status: the callback never runs. *)
QueryFails(q) ==
    /\ outcome[q] \in {"taken", "sent"} /\ callback[q] = "none" /\ Fault
    /\ outcome' = [outcome EXCEPT ![q] = "failed"]
    /\ impaired' = TRUE
    /\ UNCHANGED <<open, storageVars, workerVars, server, raced, stuck>>

(* A thread leaves its loop, is never launched, or loses a connection that     *)
(* carries no query.                                                        *)
ThreadFails ==
    /\ Fault
    /\ impaired' = TRUE
    /\ UNCHANGED <<outcome, open, storageVars, workerVars, server, raced, stuck>>

(* A queued query has dropped out of the list, from an overlap of enqueues on, *)
(* or no thread has a sound connection left to dequeue it.                  *)
LeftQueued(q) == outcome[q] = "queued" /\ (raced \/ impaired)

(* A query in flight was on a connection that is marked, or that its thread     *)
(* polls no more: the thread has left its loop, or, if there are others to   *)
(* empty the queue before it, stays in queue_dequeue_item().                *)
LeftInFlight(q) ==
    outcome[q] = "sent" /\ callback[q] = "none" /\ (impaired \/ NThreads > 1)

GetStuck(q) ==
    /\ q \notin stuck /\ (LeftQueued(q) \/ LeftInFlight(q))
    /\ stuck' = stuck \cup {q}
    /\ UNCHANGED <<outcome, open, storageVars, workerVars, server, raced, impaired,
                   faults>>

QueryStep(q) ==
    /\ q \notin stuck
    /\ Send(q) \/ Fill(q) \/ Clear(q) \/ Answer(q) \/ QueryFails(q)

-----------------------------------------------------------------------------
(* emiss_server_run() after termination was requested, then main()           *)

Terminate ==
    /\ server = "running"
    /\ server' = "stopping"
    /\ UNCHANGED <<outcome, open, storageVars, workerVars, lossVars, faults>>

(* mg_stop() returns when the workers have finished what they serve.         *)
ServerStopsWhen(finished) ==
    /\ server = "stopping" /\ finished
    /\ server' = "stopped"
    /\ UNCHANGED <<outcome, open, storageVars, workerVars, lossVars, faults>>

(* Mutant of ServerStops: mg_stop() is not called.                           *)
ServerStopsAtOnce == ServerStopsWhen(TRUE)

ServerStops == ServerStopsWhen(\A w \in Workers : pc[w] \in {"idle", "done"})

(* wlpq_conn_ctx_free(): the threads are told to stop,                       *)
StopThreads ==
    /\ server = "stopped"
    /\ Service!Close
    /\ UNCHANGED <<storageVars, workerVars, server, lossVars, faults>>

(* finish what they have in hand, and what is still queued is discarded.     *)
Release ==
    /\ server = "stopped"
    /\ \A q \in Queries : outcome[q] \notin {"taken", "sent"}
    /\ Service!Discard
    /\ server' = "released"
    /\ UNCHANGED <<storageVars, workerVars, lossVars, faults>>

(* A thread never comes out: after a failure it may be without a connection    *)
(* to empty the queue with (wlpq.c:450), and with a query left in flight it  *)
(* waits for ever in inl_free_query_thread_ctx() (wlpq.c:148).              *)
JoinHangs ==
    /\ server = "stopped" /\ ~ open
    /\ impaired \/ \E q \in stuck : outcome[q] = "sent"
    /\ server' = "hung"
    /\ UNCHANGED <<outcome, open, storageVars, workerVars, lossVars, faults>>

Next ==
    \/ \E w \in Workers : Worker(w)
    \/ \E q \in Queries : QueryStep(q) \/ GetStuck(q)
    \/ ThreadFails
    \/ Terminate \/ ServerStops \/ StopThreads \/ Release \/ JoinHangs

Spec == Init /\ [][Next]_vars

(* The worker's next step in a request is taken, and so are the next step of  *)
(* a query as long as it is not stuck, and the steps of main().  A query may *)
(* get stuck instead, and the join hang instead of the release; requests and *)
(* failures need not come.                                                  *)
Fairness ==
    /\ \A w \in Workers : WF_vars(EnqueueItem(w) \/ ReadItem(w) \/ Reply(w))
    /\ \A q \in Queries : WF_vars(QueryStep(q))
    /\ WF_vars(ServerStops \/ StopThreads \/ Release \/ JoinHangs)

FairSpec == Spec /\ Fairness

-----------------------------------------------------------------------------
(* The types of the storages, the workers and the server.                    *)
TypeOK ==
    /\ outcome \in [Queries -> Service!States] /\ open \in BOOLEAN
    /\ storage \in [Queries -> {"none", "live", "freed"}]
    /\ in_progress \in [Queries -> BOOLEAN]
    /\ callback \in [Queries -> {"none", "filled", "cleared"}]
    /\ pc \in [Workers -> {"idle", "enqueue", "wait", "reply", "done"}]
    /\ items \in [Workers -> Items] /\ item \in [Workers -> Items]
    /\ status \in [Workers -> {0, 200, 400, 500}]
    /\ server \in {"running", "stopping", "stopped", "released", "hung"}
    /\ raced \in BOOLEAN /\ impaired \in BOOLEAN /\ stuck \subseteq Queries
    /\ faults \in 0..MaxFaults

(* The callback's argument is a bare pointer: as long as a query's callback  *)
(* may still run or is running, the storage it writes to has not been freed, *)
(* whichever way the worker has left the request (emiss_resource.c:597, 689). *)
CallbackOnLiveStorage ==
    \A q \in Queries :
        outcome[q] \in {"queued", "taken", "sent"} /\ callback[q] # "cleared"
            => storage[q] = "live"

(* A worker reads and frees a storage only when its callback is through: no   *)
(* chart shows half an answer.                                              *)
ReadsComplete ==
    \A q \in Queries : storage[q] = "freed" => callback[q] = "cleared"

(* A storage outlives its request only if the request ended in an error.      *)
LeakOnlyAfterError ==
    \A w \in Workers : pc[w] = "done" /\ status[w] # 500 =>
        \A i \in Items : storage[<<w, i>>] # "live"

(* main() frees the connection context after the server has stopped: no       *)
(* worker waits for a query that was discarded.                             *)
NobodyAwaitsDiscarded ==
    \A w \in Workers : pc[w] \in {"enqueue", "wait"} =>
        \A i \in Items : outcome[<<w, i>>] # "dropped"

(* The worker waits for a query that has failed or is stuck: nobody clears the *)
(* flag any more.                                                           *)
WaitsInVain(w) ==
    pc[w] = "wait" /\ (outcome[Current(w)] = "failed" \/ Current(w) \in stuck)

(* A chart request is answered, unless the worker comes to wait for a query    *)
(* that has failed, or that the queue (wlpq.c:360, when another worker's     *)
(* enqueue overlapped) or the threads (wlpq.c:371, 510, 537) have left behind. *)
RequestAnswered ==
    \A w \in Workers : pc[w] = "enqueue" ~> (status[w] # 0 \/ WaitsInVain(w))

(* The server stops and the context is released, unless a worker waits for such *)
(* a query, and mg_stop() for the worker, or the join waits for a thread that *)
(* never comes out.                                                         *)
ShutdownCompletes ==
    server = "stopping" ~>
        (server \in {"released", "hung"} \/ \E w \in Workers : WaitsInVain(w))
===============================================================================
