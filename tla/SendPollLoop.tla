---------------------------- MODULE SendPollLoop ----------------------------
(***************************************************************************)
(* send_poll_loop() of src/src/wlpq.c: the send/poll threads, each with    *)
(* its own database connections, feeding on the common query queue.  The   *)
(* queue is the one QueryQueue implements: an atomic first-in first-out    *)
(* queue whose lock a thread keeps while it processes a                    *)
(* lock_until_complete query.  In the loop the queue matters through a     *)
(* local snapshot of its empty flag that is refreshed once per connection. *)
(*                                                                         *)
(* The database is external: it answers a query at some time, with a good  *)
(* or a bad status, and a connection may fail.  Every such failure, and    *)
(* every failing poll(), send or open, is counted against MaxFaults.       *)
(* Opening connections succeeds for all of a thread's connections or for   *)
(* none: a thread with some failed connections goes on to use connections  *)
(* that were already released.                                             *)
(***************************************************************************)
EXTENDS Integers, Sequences, FiniteSets

CONSTANTS Threads,        \* send/poll threads (WLPQ_MAX_NCONNTHREADS, default 1)
          NConn,          \* thread_nconn, connections per thread
          Queries, Blocking,
          MaxFaults,      \* bound on the failures of one behaviour
          NULL

ASSUME LoopAssumption ==
    /\ NConn \in Nat \ {0} /\ MaxFaults \in Nat
    /\ Blocking \subseteq Queries /\ NULL \notin Queries \cup Threads

VARIABLES
    queue,              \* the query queue; qqueue_empty is queue = <<>>
    barrier,            \* the thread that keeps qqueue_lock for its blocking query
    thread_continue,
    joined,             \* wlpq_conn_ctx_free() has come past its join
    pc, conn,           \* where each thread stands, and its loop index i
    empty, topoll,      \* locals of the loop, as is err_query + err_poll > 0:
    pass_err,
    err_total,          \* *err_total: "unset", "none" or "some"
    thread_state,
    iostate, qr_dt,     \* pgconn_iostate, pgconn_qr_dt
    watched,            \* connections whose events are POLLIN
    lost,               \* connections whose fd is negative: poll() ignores them
    revents,
    hand,               \* the query a thread has dequeued and not yet sent
    died,               \* history: the thread left through goto EXIT on a failure
    log, outcome,       \* history: order of enqueuing, what became of each query
    faults

mainVars == <<thread_continue, joined>>
loopVars == <<conn, empty, topoll, pass_err, err_total, thread_state, died>>
connVars == <<iostate, qr_dt, watched, lost>>
vars == <<queue, barrier, mainVars, pc, loopVars, connVars, revents, hand,
          log, outcome, faults>>

Conns  == 1..NConn
IsEmpty == queue = <<>>
Final  == {"answered", "failed", "dropped"}

Goto(t, from, to) == pc[t] = from /\ pc' = [pc EXCEPT ![t] = to]
Set(f, t, v)      == [f EXCEPT ![t] = v]
SetConn(f, t, v)  == [f EXCEPT ![t][conn[t]] = v]
Fault(n)          == faults + n <= MaxFaults /\ faults' = faults + n

(* calloc'ed context, connections requested by init_query_thread_ctx().     *)
Init ==
    /\ queue = <<>> /\ barrier = NULL
    /\ thread_continue = TRUE /\ joined = FALSE
    /\ pc = [t \in Threads |-> "open"] /\ conn = [t \in Threads |-> 1]
    /\ empty = [t \in Threads |-> TRUE] /\ topoll = [t \in Threads |-> 0]
    /\ pass_err = [t \in Threads |-> FALSE] /\ err_total = [t \in Threads |-> "unset"]
    /\ thread_state = [t \in Threads |-> "BUSY"]
    /\ iostate = [t \in Threads |-> [c \in Conns |-> "IDLE"]]
    /\ qr_dt = [t \in Threads |-> [c \in Conns |-> NULL]]
    /\ watched = [t \in Threads |-> {}] /\ lost = [t \in Threads |-> {}]
    /\ revents = [t \in Threads |-> [c \in Conns |-> "none"]]
    /\ hand = [t \in Threads |-> NULL] /\ died = [t \in Threads |-> FALSE]
    /\ log = <<>> /\ outcome = [q \in Queries |-> "new"] /\ faults = 0

-----------------------------------------------------------------------------
(* The rest of the program                                                  *)

(* wlpq_query_queue_enqueue() gets the lock only while no blocking query    *)
(* holds it.  The program has stopped enqueuing before it frees the context. *)
Enqueue(q) ==
    /\ outcome[q] = "new" /\ barrier = NULL /\ thread_continue
    /\ queue' = Append(queue, q)
    /\ log' = Append(log, q)
    /\ outcome' = Set(outcome, q, "queued")
    /\ UNCHANGED <<barrier, mainVars, pc, loopVars, connVars, revents, hand, faults>>

(* wlpq_threads_stop_and_join() before, and wlpq_conn_ctx_free() after, the  *)
(* join.  What is still queued is freed without being sent.                 *)
Stop ==
    /\ thread_continue
    /\ thread_continue' = FALSE
    /\ UNCHANGED <<queue, barrier, joined, pc, loopVars, connVars, revents, hand,
                   log, outcome, faults>>

FreeContextWhen(ready) ==
    /\ ~ thread_continue /\ ~ joined /\ ready
    /\ joined' = TRUE
    /\ queue' = <<>>
    /\ outcome' = [q \in Queries |-> IF outcome[q] = "queued" THEN "dropped" ELSE outcome[q]]
    /\ UNCHANGED <<barrier, thread_continue, pc, loopVars, connVars, revents, hand,
                   log, faults>>

(* Mutant of FreeContext: the threads are not joined first.                 *)
FreeContextUnjoined == FreeContextWhen(TRUE)

FreeContext == FreeContextWhen(\A t \in Threads : pc[t] = "done")

-----------------------------------------------------------------------------
(* The loop                                                                 *)

Open(t) ==
    /\ Goto(t, "open", "test")
    /\ err_total' = Set(err_total, t, "none")
    /\ empty' = Set(empty, t, IsEmpty)
    /\ UNCHANGED <<queue, barrier, mainVars, conn, topoll, pass_err, thread_state, died,
                   connVars, revents, hand, log, outcome, faults>>

(* No connection could be opened, or calloc() of the error count failed.    *)
OpenFails(t) ==
    /\ Goto(t, "open", "exit")
    /\ Fault(1)
    /\ died' = Set(died, t, TRUE)
    /\ UNCHANGED <<queue, barrier, mainVars, conn, empty, topoll, pass_err, err_total,
                   thread_state, connVars, revents, hand, log, outcome>>

(* The loop condition of wlpq.c:450 and the state published for the pass.    *)
LoopTestWith(t, busy) ==
    /\ IF thread_continue \/ busy
         THEN /\ Goto(t, "test", "poll")
              /\ thread_state' = Set(thread_state, t, IF busy THEN "BUSY" ELSE "IDLE")
         ELSE /\ Goto(t, "test", "exit")
              /\ UNCHANGED thread_state
    /\ pass_err' = Set(pass_err, t, FALSE)
    /\ UNCHANGED <<queue, barrier, mainVars, conn, empty, topoll, err_total, died,
                   connVars, revents, hand, log, outcome, faults>>

(* Mutant of LoopTest: outstanding answers do not keep the loop going.       *)
LoopTestNoTopoll(t) == LoopTestWith(t, ~ empty[t])

LoopTest(t) == LoopTestWith(t, topoll[t] > 0 \/ ~ empty[t])

(* What poll() may report of a connection: input only where it was asked    *)
(* for, failures of any valid descriptor.                                   *)
Reportable(t, c) ==
    {"none"} \cup (IF c \in lost[t] THEN {} ELSE {"error", "invalid"})
             \cup (IF c \in watched[t] \ lost[t] THEN {"input"} ELSE {})

PollInto(t, count) ==
    /\ Goto(t, "poll", "conn")
    /\ \E r \in [Conns -> {"none", "input", "error", "invalid"}] :
          /\ \A c \in Conns : r[c] \in Reportable(t, c)
          /\ Fault(Cardinality({c \in Conns : r[c] \in {"error", "invalid"}}))
          /\ revents' = Set(revents, t, r)
    /\ topoll' = Set(topoll, t, count)
    /\ conn' = Set(conn, t, 1)
    /\ UNCHANGED <<queue, barrier, mainVars, empty, pass_err, err_total, thread_state,
                   died, connVars, hand, log, outcome>>

(* Mutant of Poll: topoll is not reset before the pass.                     *)
PollKeepsTopoll(t) == PollInto(t, topoll[t])

Poll(t) == PollInto(t, 0)

(* poll() fails with something else than ENOMEM or EINTR.                   *)
PollFails(t) ==
    /\ Goto(t, "poll", "exit")
    /\ Fault(1)
    /\ died' = Set(died, t, TRUE)
    /\ UNCHANGED <<queue, barrier, mainVars, conn, empty, topoll, pass_err, err_total,
                   thread_state, connVars, revents, hand, log, outcome>>

Reported(t, what) == revents[t][conn[t]] = what
Carried(t)        == qr_dt[t][conn[t]]

(* POLLIN: the results are fetched (PQgetResult() waits for the last one),   *)
(* passed to the callback unless their status is bad, and the query is freed. *)
InputLeaving(t, slot) ==
    /\ Goto(t, "conn", "feed") /\ Reported(t, "input")
    /\ \E ok \in BOOLEAN :
          /\ Fault(IF ok THEN 0 ELSE 1)
          /\ pass_err' = Set(pass_err, t, pass_err[t] \/ ~ ok)
          /\ outcome' = IF Carried(t) = NULL THEN outcome
                        ELSE Set(outcome, Carried(t), IF ok THEN "answered" ELSE "failed")
    /\ qr_dt' = SetConn(qr_dt, t, slot)
    /\ iostate' = SetConn(iostate, t, "IDLE")
    /\ watched' = Set(watched, t, watched[t] \ {conn[t]})
    /\ UNCHANGED <<queue, barrier, mainVars, conn, empty, topoll, err_total, thread_state,
                   died, lost, revents, hand, log>>

(* Mutant of Input: the slot of the freed query is not cleared.             *)
InputKeepsSlot(t) == InputLeaving(t, Carried(t))

Input(t) == InputLeaving(t, NULL)

(* PQconsumeInput() fails.                                                  *)
InputFails(t) ==
    /\ Goto(t, "conn", "exit") /\ Reported(t, "input")
    /\ Fault(1)
    /\ died' = Set(died, t, TRUE)
    /\ UNCHANGED <<queue, barrier, mainVars, conn, empty, topoll, pass_err, err_total,
                   thread_state, connVars, revents, hand, log, outcome>>

(* POLLERR or POLLHUP: the connection is marked, the query it carries kept.  *)
ConnError(t) ==
    /\ Goto(t, "conn", "feed") /\ Reported(t, "error")
    /\ pass_err' = Set(pass_err, t, TRUE)
    /\ iostate' = SetConn(iostate, t, "ERROR")
    /\ UNCHANGED <<queue, barrier, mainVars, conn, empty, topoll, err_total, thread_state,
                   died, qr_dt, watched, lost, revents, hand, log, outcome, faults>>

(* POLLNVAL: inl_try_fix_noblock_conn() may give a new descriptor; the query *)
(* is freed without its callback being called.                              *)
ConnInvalid(t) ==
    /\ Goto(t, "conn", "feed") /\ Reported(t, "invalid")
    /\ pass_err' = Set(pass_err, t, TRUE)
    /\ \/ /\ iostate' = SetConn(iostate, t, "IDLE")
          /\ UNCHANGED <<watched, lost>>
       \/ /\ iostate' = SetConn(iostate, t, "ERROR")
          /\ watched' = Set(watched, t, watched[t] \ {conn[t]})
          /\ lost' = Set(lost, t, lost[t] \cup {conn[t]})
    /\ qr_dt' = SetConn(qr_dt, t, NULL)
    /\ outcome' = IF Carried(t) = NULL THEN outcome ELSE Set(outcome, Carried(t), "failed")
    /\ UNCHANGED <<queue, barrier, mainVars, conn, empty, topoll, err_total, thread_state,
                   died, revents, hand, log, faults>>

Quiet(t) ==
    LET waiting == iostate[t][conn[t]] = "WAIT"
    IN  /\ Goto(t, "conn", "feed") /\ Reported(t, "none")
        /\ watched' = Set(watched, t, watched[t] \cup (IF waiting THEN {conn[t]} ELSE {}))
        /\ topoll' = Set(topoll, t, topoll[t] + (IF waiting THEN 1 ELSE 0))
        /\ UNCHANGED <<queue, barrier, mainVars, conn, empty, pass_err, err_total,
                       thread_state, died, iostate, qr_dt, lost, revents, hand, log,
                       outcome, faults>>

(* An idle connection, and the queue was not empty when last looked at.      *)
Hungry(t) == iostate[t][conn[t]] = "IDLE" /\ ~ empty[t]

DequeueUnder(t, lock) ==
    /\ Goto(t, "feed", "send") /\ Hungry(t)
    /\ barrier = NULL /\ ~ IsEmpty
    /\ hand' = Set(hand, t, Head(queue))
    /\ queue' = Tail(queue)
    /\ barrier' = lock
    /\ outcome' = Set(outcome, Head(queue), "taken")
    /\ UNCHANGED <<mainVars, loopVars, connVars, revents, log, faults>>

(* Mutant of Dequeue: the lock is released although the query is blocking.   *)
DequeueNoBarrier(t) == DequeueUnder(t, NULL)

Dequeue(t) == DequeueUnder(t, IF Head(queue) \in Blocking THEN t ELSE NULL)

(* queue_dequeue_item() finds nothing: it stays inside until there is        *)
(* something, or until the threads are told to stop.                        *)
DequeueStarves(t) ==
    /\ \/ Goto(t, "feed", "starved") /\ Hungry(t) /\ IsEmpty
       \/ Goto(t, "starved", "feed") /\ thread_continue
       \/ Goto(t, "starved", "exit") /\ ~ thread_continue
    /\ UNCHANGED <<queue, barrier, mainVars, loopVars, connVars, revents, hand, log,
                   outcome, faults>>

(* query_concurrent() succeeds: a blocking query is complete when it         *)
(* returns and the queue lock is cleared, any other is now in flight.       *)
SendCounting(t, n) ==
    /\ Goto(t, "send", "advance")
    /\ barrier' = IF barrier = t THEN NULL ELSE barrier
    /\ hand' = Set(hand, t, NULL)
    /\ IF hand[t] \in Blocking
         THEN /\ outcome' = Set(outcome, hand[t], "answered")
              /\ watched' = Set(watched, t, watched[t] \ {conn[t]})
              /\ UNCHANGED <<iostate, qr_dt, topoll>>
         ELSE /\ outcome' = Set(outcome, hand[t], "sent")
              /\ qr_dt' = SetConn(qr_dt, t, hand[t])
              /\ iostate' = SetConn(iostate, t, "WAIT")
              /\ watched' = Set(watched, t, watched[t] \cup {conn[t]})
              /\ topoll' = Set(topoll, t, topoll[t] + n)
    /\ UNCHANGED <<queue, mainVars, conn, empty, pass_err, err_total, thread_state, died,
                   lost, revents, log, faults>>

(* Mutant of Send: the connection that now waits is not counted.             *)
SendUncounted(t) == SendCounting(t, 0)

Send(t) == SendCounting(t, 1)

(* query_concurrent() fails, for a blocking query also on a bad status.      *)
SendFails(t) ==
    /\ Goto(t, "send", "exit")
    /\ Fault(1)
    /\ barrier' = IF barrier = t THEN NULL ELSE barrier
    /\ outcome' = Set(outcome, hand[t], "failed")
    /\ hand' = Set(hand, t, NULL)
    /\ iostate' = SetConn(iostate, t, "ERROR")
    /\ died' = Set(died, t, TRUE)
    /\ UNCHANGED <<queue, mainVars, conn, empty, topoll, pass_err, err_total, thread_state,
                   qr_dt, watched, lost, revents, log>>

SkipFeed(t) ==
    /\ Goto(t, "feed", "advance") /\ ~ Hungry(t)
    /\ UNCHANGED <<queue, barrier, mainVars, loopVars, connVars, revents, hand, log,
                   outcome, faults>>

(* The snapshot is refreshed; after the last connection the pass's errors    *)
(* are added to the total.                                                  *)
AdvanceSeeing(t, snapshot) ==
    /\ empty' = Set(empty, t, snapshot)
    /\ IF conn[t] < NConn
         THEN /\ Goto(t, "advance", "conn")
              /\ conn' = Set(conn, t, conn[t] + 1)
              /\ UNCHANGED err_total
         ELSE /\ Goto(t, "advance", "test")
              /\ err_total' = IF pass_err[t] THEN Set(err_total, t, "some") ELSE err_total
              /\ UNCHANGED conn
    /\ UNCHANGED <<queue, barrier, mainVars, topoll, pass_err, thread_state, died, connVars,
                   revents, hand, log, outcome, faults>>

(* Mutant of Advance: the snapshot is refreshed once per pass.               *)
AdvanceStale(t) == AdvanceSeeing(t, IF conn[t] < NConn THEN empty[t] ELSE IsEmpty)

(* Mutant of Advance: the snapshot is never refreshed.                      *)
AdvanceNoReload(t) == AdvanceSeeing(t, empty[t])

Advance(t) == AdvanceSeeing(t, IsEmpty)

(* EXIT: the error count decides the final state; before its calloc() the    *)
(* pointer is not initialised and anything may be read through it.          *)
Exit(t) ==
    /\ Goto(t, "exit", "free")
    /\ \E s \in {"SUCC", "FAIL"} :
          /\ err_total[t] = "none" => s = "SUCC"
          /\ err_total[t] = "some" => s = "FAIL"
          /\ thread_state' = Set(thread_state, t, s)
    /\ UNCHANGED <<queue, barrier, mainVars, conn, empty, topoll, pass_err, err_total, died,
                   connVars, revents, hand, log, outcome, faults>>

(* inl_free_query_thread_ctx() sleeps until every connection is idle or in   *)
(* error; nobody but this thread changes them.                              *)
FreeThread(t) ==
    /\ Goto(t, "free", "done")
    /\ \A c \in Conns : iostate[t][c] # "WAIT"
    /\ UNCHANGED <<queue, barrier, mainVars, loopVars, connVars, revents, hand, log,
                   outcome, faults>>

ThreadStep(t) ==
    \/ Open(t) \/ OpenFails(t) \/ LoopTest(t) \/ Poll(t) \/ PollFails(t)
    \/ Input(t) \/ InputFails(t) \/ ConnError(t) \/ ConnInvalid(t) \/ Quiet(t)
    \/ Dequeue(t) \/ DequeueStarves(t) \/ Send(t) \/ SendFails(t) \/ SkipFeed(t)
    \/ Advance(t) \/ Exit(t) \/ FreeThread(t)

Next ==
    \/ \E q \in Queries : Enqueue(q)
    \/ Stop \/ FreeContext
    \/ \E t \in Threads : ThreadStep(t)

Spec == Init /\ [][Next]_vars

(* Threads are scheduled; the database answers a query it was sent: when a   *)
(* sound connection that waits is polled again and again, poll() reports     *)
(* input some time.  Nobody is obliged to enqueue or to stop.               *)
InputArrives(t, c) ==
    iostate[t][c] = "WAIT" /\ Poll(t) /\ revents'[t][c] = "input"

Fairness ==
    /\ \A t \in Threads : WF_vars(ThreadStep(t))
    /\ \A t \in Threads, c \in Conns : SF_vars(InputArrives(t, c))
    /\ WF_vars(FreeContext)

FairSpec == Spec /\ Fairness

-----------------------------------------------------------------------------
Pcs == {"open", "test", "poll", "conn", "feed", "starved", "send", "advance", "exit",
        "free", "done"}

(* The types of the context, of the threads' locals and of the histories.    *)
TypeOK ==
    /\ queue \in Seq(Queries) /\ log \in Seq(Queries)
    /\ barrier \in Threads \cup {NULL}
    /\ thread_continue \in BOOLEAN /\ joined \in BOOLEAN
    /\ pc \in [Threads -> Pcs] /\ conn \in [Threads -> Conns]
    /\ empty \in [Threads -> BOOLEAN] /\ topoll \in [Threads -> 0..NConn]
    /\ pass_err \in [Threads -> BOOLEAN] /\ died \in [Threads -> BOOLEAN]
    /\ err_total \in [Threads -> {"unset", "none", "some"}]
    /\ thread_state \in [Threads -> {"NONE", "IDLE", "BUSY", "SUCC", "FAIL"}]
    /\ iostate \in [Threads -> [Conns -> {"IDLE", "WAIT", "ERROR"}]]
    /\ qr_dt \in [Threads -> [Conns -> Queries \cup {NULL}]]
    /\ watched \in [Threads -> SUBSET Conns] /\ lost \in [Threads -> SUBSET Conns]
    /\ revents \in [Threads -> [Conns -> {"none", "input", "error", "invalid"}]]
    /\ hand \in [Threads -> Queries \cup {NULL}]
    /\ outcome \in [Queries -> {"new", "queued", "taken", "sent"} \cup Final]
    /\ faults \in 0..MaxFaults

Waiting(t) == {c \in Conns : iostate[t][c] = "WAIT"}

(* When the loop condition is evaluated topoll is the number of connections  *)
(* that wait for an answer: the loop neither ends with answers outstanding  *)
(* nor goes on for answers that came.                                       *)
TopollExact == \A t \in Threads : pc[t] = "test" => topoll[t] = Cardinality(Waiting(t))

(* A query in flight is carried by exactly one connection, and an idle       *)
(* connection carries none: its slot can be overwritten (wlpq.c:575).       *)
CarriedOnce ==
    /\ \A t \in Threads, c \in Conns :
          /\ iostate[t][c] = "IDLE" => qr_dt[t][c] = NULL
          /\ iostate[t][c] = "WAIT" => qr_dt[t][c] # NULL
          /\ qr_dt[t][c] # NULL => outcome[qr_dt[t][c]] = "sent"
    /\ \A q \in Queries : outcome[q] = "sent" =>
          Cardinality({tc \in Threads \X Conns : qr_dt[tc[1]][tc[2]] = q}) = 1

(* With one thread a snapshot that says "not empty" is never wrong, so that  *)
(* the thread never sleeps in queue_dequeue_item() on top of connections it *)
(* should poll, and never leaves through the goto of wlpq.c:544.            *)
NeverStarved ==
    \A t \in Threads : pc[t] = "feed" /\ Hungry(t) => ~ IsEmpty

(* lock_until_complete: while such a query is unfinished, no query enqueued  *)
(* after it has been taken out of the queue.                                *)
BarrierOrder ==
    \A i, j \in DOMAIN log :
        i < j /\ log[i] \in Blocking /\ outcome[log[j]] # "queued"
            => outcome[log[i]] \in Final

(* When the threads have been joined and none had failed, every query that   *)
(* was taken from the queue has been answered or has been reported failed.  *)
NothingInFlight ==
    joined /\ (\A t \in Threads : ~ died[t]) /\ faults = 0 =>
        \A q \in Queries : outcome[q] \in {"new"} \cup Final

(* To whoever enqueues, the threads are the query service of QueryService:   *)
(* no callback runs twice, none runs for a query that was freed, and what is *)
(* discarded was never sent.                                                *)
Service == INSTANCE QueryService WITH open <- thread_continue
ImplementsService == Service!Spec

(* Unless something fails or the threads are stopped, every query that was   *)
(* enqueued is answered.                                                    *)
EveryQueryAnswered ==
    \A q \in Queries :
        outcome[q] = "queued" ~> (outcome[q] = "answered" \/ faults > 0 \/ ~ thread_continue)

(* A query in flight is answered even if the threads are stopped meanwhile.  *)
InFlightAnswered ==
    \A q \in Queries : outcome[q] = "sent" ~> (outcome[q] \in Final \/ faults > 0)

(* The thread can no longer do its work: it left the loop on a failure, or   *)
(* none of its connections is usable.                                       *)
Crippled(t) == died[t] \/ \A c \in Conns : iostate[t][c] = "ERROR"

(* As long as a thread can work, stopping the threads completes: an          *)
(* erroneous connection that the loop marks or repairs does not hold it up.  *)
StopWhileWorking ==
    ~ thread_continue ~> (joined \/ \E t \in Threads : Crippled(t))

(* wlpq.h:273: stopping the threads blocks until complete, and completes.    *)
StopCompletes == ~ thread_continue ~> joined
==============================================================================
