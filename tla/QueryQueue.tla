----------------------------- MODULE QueryQueue -----------------------------
(***************************************************************************)
(* The query queue of src/src/wlpq.c: a singly linked list (utlist.h) with *)
(* a separate tail pointer, an "empty" flag and a test-and-set lock, all   *)
(* in struct wlpq_conn_ctx.  Producers are the threads that call           *)
(* wlpq_query_queue_enqueue(): the main thread during an update, every     *)
(* HTTP worker afterwards.  Consumers are the send/poll threads, which     *)
(* call queue_dequeue_item() while they believe the queue is not empty.    *)
(* One action is one access to shared memory.  In particular the tail is   *)
(* written after the lock is released (wlpq.c:360), and a consumer that    *)
(* takes a lock_until_complete query leaves the lock to its caller, who    *)
(* clears it when the query is complete (wlpq.c:389, 559).                 *)
(*                                                                         *)
(* A queue element and the query it carries are one value of Queries: the  *)
(* element is allocated for one enqueue and freed when it was dequeued.    *)
(* Reuse of a freed address by malloc() is left out.                       *)
(***************************************************************************)
EXTENDS Integers, Sequences

CONSTANTS Producers, Consumers,
          Queries,      \* the queries that will be enqueued, once each
          Blocking,     \* those with lock_until_complete set
          NULL

ASSUME ThreadsAssumption == Producers \cap Consumers = {}
ASSUME QueriesAssumption == Blocking \subseteq Queries /\ NULL \notin Queries

VARIABLES
    head, tail,         \* qqueue_head, qqueue_tail
    empty,              \* qqueue_empty
    lock,               \* qqueue_lock
    thread_continue,
    next,               \* the next pointer of every element
    pc,                 \* where each thread stands
    item,               \* the local variable "item" of each thread
    fresh,              \* elements not yet allocated
    freed,              \* elements given back by free()
    enqueued,           \* history: elements in the order they were linked
    dequeued            \* history: elements in the order they were unlinked

listVars    == <<head, tail, next>>
historyVars == <<enqueued, dequeued>>
vars == <<head, tail, empty, lock, thread_continue, next, pc, item, fresh,
          freed, enqueued, dequeued>>

Threads == Producers \cup Consumers
Elem    == Queries \cup {NULL}

Goto(t, from, to) == pc[t] = from /\ pc' = [pc EXCEPT ![t] = to]

(* wlpq_conn_ctx_init(), with the send/poll threads launched.  An element   *)
(* comes from malloc(): its next pointer starts as anything.                *)
Init ==
    /\ head = NULL /\ tail = NULL
    /\ empty = TRUE /\ lock = FALSE /\ thread_continue = TRUE
    /\ next \in [Queries -> Elem]
    /\ pc = [t \in Threads |-> "idle"]
    /\ item = [t \in Threads |-> NULL]
    /\ fresh = Queries /\ freed = {}
    /\ enqueued = <<>> /\ dequeued = <<>>

-----------------------------------------------------------------------------
(* wlpq_query_queue_enqueue() and queue_enqueue_item()                      *)

NewElement(p) ==
    /\ Goto(p, "idle", "lock")
    /\ \E q \in fresh : /\ item' = [item EXCEPT ![p] = q]
                        /\ fresh' = fresh \ {q}
    /\ UNCHANGED <<listVars, empty, lock, thread_continue, freed, historyVars>>

EnqueueLock(p) ==
    /\ Goto(p, "lock", "link")
    /\ ~ lock
    /\ lock' = TRUE
    /\ UNCHANGED <<listVars, empty, thread_continue, item, fresh, freed, historyVars>>

(* LL_PREPEND, and what LL_APPEND_ELEM falls back to when the tail is NULL.  *)
LinkFirst(p) ==
    /\ Goto(p, "link", "mark")
    /\ head = NULL \/ tail = NULL
    /\ next' = [next EXCEPT ![item[p]] = head]
    /\ head' = item[p]
    /\ enqueued' = Append(enqueued, item[p])
    /\ UNCHANGED <<tail, empty, lock, thread_continue, item, fresh, freed, dequeued>>

(* Mutant of LinkToNext: links behind the tail without looking at the head.  *)
LinkToNextUnchecked(p) ==
    /\ Goto(p, "link", "attach")
    /\ tail # NULL
    /\ next' = [next EXCEPT ![item[p]] = next[tail]]
    /\ UNCHANGED <<head, tail, empty, lock, thread_continue, item, fresh, freed,
                   historyVars>>

(* LL_APPEND_ELEM: (add)->next = (el)->next; ...                            *)
LinkToNext(p) ==
    /\ Goto(p, "link", "attach")
    /\ head # NULL /\ tail # NULL
    /\ next' = [next EXCEPT ![item[p]] = next[tail]]
    /\ UNCHANGED <<head, tail, empty, lock, thread_continue, item, fresh, freed,
                   historyVars>>

(* ... (el)->next = (add).  The tail is read again: nothing stops another   *)
(* producer, already past its unlock, from moving it in between.            *)
LinkFromTail(p) ==
    /\ Goto(p, "attach", "mark")
    /\ next' = [next EXCEPT ![tail] = item[p]]
    /\ enqueued' = Append(enqueued, item[p])
    /\ UNCHANGED <<head, tail, empty, lock, thread_continue, item, fresh, freed,
                   dequeued>>

(* Mutant of MarkNonEmpty: the flag is not cleared.                         *)
MarkNothing(p) ==
    /\ Goto(p, "mark", "unlock")
    /\ UNCHANGED <<listVars, empty, lock, thread_continue, item, fresh, freed, historyVars>>

MarkNonEmpty(p) ==
    /\ Goto(p, "mark", "unlock")
    /\ empty' = FALSE
    /\ UNCHANGED <<listVars, lock, thread_continue, item, fresh, freed, historyVars>>

EnqueueUnlock(p) ==
    /\ Goto(p, "unlock", "tail")
    /\ lock' = FALSE
    /\ UNCHANGED <<listVars, empty, thread_continue, item, fresh, freed, historyVars>>

(* Mutant of SetTail: the tail is not moved.                                *)
KeepTail(p) ==
    /\ Goto(p, "tail", "idle")
    /\ item' = [item EXCEPT ![p] = NULL]
    /\ UNCHANGED <<listVars, empty, lock, thread_continue, fresh, freed, historyVars>>

SetTail(p) ==
    /\ Goto(p, "tail", "idle")
    /\ tail' = item[p]
    /\ item' = [item EXCEPT ![p] = NULL]
    /\ UNCHANGED <<head, next, empty, lock, thread_continue, fresh, freed, historyVars>>

ProducerStep(p) ==
    \/ NewElement(p) \/ EnqueueLock(p) \/ LinkFirst(p) \/ LinkToNext(p)
    \/ LinkFromTail(p) \/ MarkNonEmpty(p) \/ EnqueueUnlock(p) \/ SetTail(p)

-----------------------------------------------------------------------------
(* queue_dequeue_item() and what send_poll_loop() does around it            *)

(* The loop enters with a snapshot of the flag (wlpq.c:448, 581) that may   *)
(* be stale by the time the lock is tried.                                  *)
SeeNonEmpty(c) ==
    /\ Goto(c, "idle", "acquire")
    /\ ~ empty
    /\ UNCHANGED <<listVars, empty, lock, thread_continue, item, fresh, freed, historyVars>>

DequeueLock(c) ==
    /\ Goto(c, "acquire", "take")
    /\ ~ lock
    /\ lock' = TRUE
    /\ UNCHANGED <<listVars, empty, thread_continue, item, fresh, freed, historyVars>>

DequeueLockBusy(c) ==
    /\ Goto(c, "acquire", "wait")
    /\ lock
    /\ UNCHANGED <<listVars, empty, lock, thread_continue, item, fresh, freed, historyVars>>

WaitWhileEmpty(c) ==
    /\ \/ Goto(c, "wait", "waitstop") /\ empty
       \/ Goto(c, "wait", "acquire") /\ ~ empty
    /\ UNCHANGED <<listVars, empty, lock, thread_continue, item, fresh, freed, historyVars>>

(* Mutant of ReturnNull: only the wait for a busy lock looks at the flag.    *)
ReturnNullFromWait(c) ==
    /\ \/ Goto(c, "waitstop", "exit") /\ ~ thread_continue
       \/ Goto(c, "waitstop", "wait") /\ thread_continue
       \/ Goto(c, "retry", "acquire")
    /\ UNCHANGED <<listVars, empty, lock, thread_continue, item, fresh, freed, historyVars>>

(* Return NULL once the threads were told to stop.                          *)
ReturnNull(c) ==
    /\ \/ Goto(c, "waitstop", "exit") /\ ~ thread_continue
       \/ Goto(c, "waitstop", "wait") /\ thread_continue
       \/ Goto(c, "retry", "exit") /\ ~ thread_continue
       \/ Goto(c, "retry", "acquire") /\ thread_continue
    /\ UNCHANGED <<listVars, empty, lock, thread_continue, item, fresh, freed, historyVars>>

(* Mutant of TakeHead: the head is read after LL_DELETE moved it.           *)
TakeMovedHead(c) ==
    /\ Goto(c, "take", "settle")
    /\ head # NULL
    /\ item' = [item EXCEPT ![c] = next[head]]
    /\ head' = next[head]
    /\ dequeued' = Append(dequeued, next[head])
    /\ UNCHANGED <<tail, next, empty, lock, thread_continue, fresh, freed, enqueued>>

TakeHead(c) ==
    /\ Goto(c, "take", "settle")
    /\ head # NULL
    /\ item' = [item EXCEPT ![c] = head]
    /\ head' = next[head]
    /\ dequeued' = Append(dequeued, head)
    /\ UNCHANGED <<tail, next, empty, lock, thread_continue, fresh, freed, enqueued>>

TakeNothing(c) ==
    /\ Goto(c, "take", "retry")
    /\ head = NULL
    /\ lock' = FALSE
    /\ UNCHANGED <<listVars, empty, thread_continue, item, fresh, freed, historyVars>>

(* Mutant of MarkEmpty: the flag is set whatever is left in the list.       *)
MarkAlwaysEmpty(c) ==
    /\ Goto(c, "settle", "release")
    /\ empty' = TRUE
    /\ UNCHANGED <<listVars, lock, thread_continue, item, fresh, freed, historyVars>>

MarkEmpty(c) ==
    /\ Goto(c, "settle", "release")
    /\ empty' = (empty \/ head = NULL)
    /\ UNCHANGED <<listVars, lock, thread_continue, item, fresh, freed, historyVars>>

(* Mutant of DequeueUnlock: lock_until_complete is ignored.                 *)
DequeueAlwaysUnlock(c) ==
    /\ Goto(c, "release", "run")
    /\ lock' = FALSE
    /\ UNCHANGED <<listVars, empty, thread_continue, item, fresh, freed, historyVars>>

(* The lock stays with the caller while a lock_until_complete query runs.   *)
DequeueUnlock(c) ==
    /\ Goto(c, "release", "run")
    /\ lock' = (item[c] \in Blocking)
    /\ UNCHANGED <<listVars, empty, thread_continue, item, fresh, freed, historyVars>>

(* send_poll_loop(): free(item), send the query; when it is a blocking one, *)
(* query_concurrent() returned after completing it and the lock is cleared. *)
RunQuery(c) ==
    /\ Goto(c, "run", "idle")
    /\ freed' = freed \cup {item[c]}
    /\ lock' = (lock /\ item[c] \notin Blocking)
    /\ item' = [item EXCEPT ![c] = NULL]
    /\ UNCHANGED <<listVars, empty, thread_continue, fresh, historyVars>>

ConsumerStep(c) ==
    \/ SeeNonEmpty(c) \/ DequeueLock(c) \/ DequeueLockBusy(c)
    \/ WaitWhileEmpty(c) \/ ReturnNull(c) \/ TakeHead(c) \/ TakeNothing(c)
    \/ MarkEmpty(c) \/ DequeueUnlock(c) \/ RunQuery(c)

-----------------------------------------------------------------------------
(* wlpq_threads_stop_and_join(), up to the join.                            *)
Stop ==
    /\ thread_continue
    /\ thread_continue' = FALSE
    /\ UNCHANGED <<listVars, empty, lock, pc, item, fresh, freed, historyVars>>

Next ==
    \/ \E p \in Producers : ProducerStep(p)
    \/ \E c \in Consumers : ConsumerStep(c)
    \/ Stop

Spec == Init /\ [][Next]_vars

(* Every thread is scheduled again and again; nothing obliges anyone to     *)
(* stop the threads.  The spin locks sleep and retry: a thread that finds   *)
(* the lock taken is not promised to get it, only to try again.             *)
Fairness ==
    /\ \A p \in Producers : WF_vars(ProducerStep(p))
    /\ \A c \in Consumers : WF_vars(ConsumerStep(c))

FairSpec == Spec /\ Fairness

-----------------------------------------------------------------------------
ProducerPcs == {"idle", "lock", "link", "attach", "mark", "unlock", "tail"}
ConsumerPcs == {"idle", "acquire", "wait", "waitstop", "retry", "take",
                "settle", "release", "run", "exit"}

(* The types of the queue fields of wlpq_conn_ctx and of the threads' locals. *)
TypeOK ==
    /\ head \in Elem /\ tail \in Elem
    /\ empty \in BOOLEAN /\ lock \in BOOLEAN /\ thread_continue \in BOOLEAN
    /\ next \in [Queries -> Elem]
    /\ pc \in [Threads -> ProducerPcs \cup ConsumerPcs]
    /\ \A p \in Producers : pc[p] \in ProducerPcs
    /\ \A c \in Consumers : pc[c] \in ConsumerPcs
    /\ item \in [Threads -> Elem]
    /\ fresh \subseteq Queries /\ freed \subseteq Queries
    /\ enqueued \in Seq(Queries) /\ dequeued \in Seq(Queries)

(* The thread t is entitled to the list: it is between its lock and unlock,  *)
(* or processes a lock_until_complete query.                                *)
Holds(t) ==
    \/ pc[t] \in {"link", "attach", "mark", "unlock"}
    \/ pc[t] \in {"take", "settle", "release"}
    \/ pc[t] = "run" /\ item[t] \in Blocking

(* The lock that queue_dequeue_item() may hand to its caller is still a      *)
(* lock: it is set exactly while some thread is entitled to the list, and   *)
(* there is never a second one.                                             *)
LockInv ==
    /\ lock <=> \E t \in Threads : Holds(t)
    /\ \A t, u \in Threads : Holds(t) /\ Holds(u) => t = u

(* Whoever finds the lock free finds the flag and the list in agreement; the *)
(* flag is all that send_poll_loop() and wlpq_query_queue_empty() look at.   *)
FlagHonest == ~ lock => (empty <=> head = NULL)

(* No element is touched after free(): neither the head nor, when a producer *)
(* is about to link behind it, the tail that dequeuing never resets.        *)
NoUseAfterFree ==
    /\ head \notin freed
    /\ \A p \in Producers :
          \/ pc[p] = "link" /\ head # NULL
          \/ pc[p] = "attach"
          => tail \notin freed

(* Queries leave the queue in the order in which they were linked: wlpq.h    *)
(* calls the enqueue atomic and emiss_update.c relies on the order.         *)
Fifo ==
    /\ Len(dequeued) <= Len(enqueued)
    /\ \A i \in 1..Len(dequeued) : dequeued[i] = enqueued[i]

Occurs(q, log) == \E i \in DOMAIN log : log[i] = q

(* While the threads are not stopped, a query that was linked is eventually  *)
(* taken by some thread: none is stranded behind a stale head, tail or flag. *)
EveryQueryTaken ==
    \A q \in Queries :
        Occurs(q, enqueued) ~> (Occurs(q, dequeued) \/ ~ thread_continue)

(* Once the threads are told to stop, no thread stays inside                 *)
(* queue_dequeue_item(): it returns a query or NULL.                        *)
DequeueReturns ==
    \A c \in Consumers :
        (~ thread_continue /\ pc[c] # "idle") ~> pc[c] \in {"idle", "exit"}

(* The lock_until_complete queries being processed.                         *)
Barrier == {item[c] : c \in {d \in Consumers : pc[d] \in {"settle", "release", "run"}}}
               \cap Blocking

(* The queue implements the promised one: every step is a step of FifoQueue  *)
(* or changes nothing there.                                                *)
Promised == INSTANCE FifoQueue WITH barrier <- Barrier
ImplementsFifo == Promised!Spec
==============================================================================
