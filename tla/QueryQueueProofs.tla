-------------------------- MODULE QueryQueueProofs --------------------------
(***************************************************************************)
(* Proofs about QueryQueue, for any sets of producers, consumers and       *)
(* queries.  The first part assumes nothing about the number of producers: *)
(* types, the lock and the empty flag.  The second part is about a single  *)
(* producer: first in, first out, no use after free, and the refinement of *)
(* FifoQueue.                                                              *)
(***************************************************************************)
EXTENDS QueryQueue, TLAPS

(* A thread that is past its allocation, or past its dequeue, has an element. *)
ItemInv ==
    /\ \A p \in Producers : pc[p] # "idle" => item[p] \in Queries
    /\ \A c \in Consumers : pc[c] \in {"settle", "release", "run"} => item[c] \in Queries

(* What the holder of the lock knows of the flag and the head, at each point *)
(* of the critical sections.                                                *)
FlagInv ==
    /\ ~ lock => (empty <=> head = NULL)
    /\ \A t \in Threads :
        /\ pc[t] \in {"link", "take", "release"} => (empty <=> head = NULL)
        /\ pc[t] = "run" /\ item[t] \in Blocking => (empty <=> head = NULL)
        /\ pc[t] \in {"attach", "mark"} => head # NULL
        /\ pc[t] = "unlock" => head # NULL /\ ~ empty
        /\ pc[t] = "settle" => ~ empty

SafeInv == TypeOK /\ ItemInv /\ LockInv /\ FlagInv

-----------------------------------------------------------------------------
LEMMA InitSafe == Init => SafeInv
  <1> SUFFICES ASSUME Init PROVE SafeInv
    OBVIOUS
  <1> USE QueriesAssumption DEF Init
  <1>1. TypeOK
    <2>1. enqueued \in Seq(Queries) /\ dequeued \in Seq(Queries)
      OBVIOUS
    <2>2. pc \in [Threads -> ProducerPcs \cup ConsumerPcs]
      BY DEF ProducerPcs
    <2>3. /\ \A p \in Producers : pc[p] \in ProducerPcs
          /\ \A c \in Consumers : pc[c] \in ConsumerPcs
      BY DEF Threads, ProducerPcs, ConsumerPcs
    <2>4. item \in [Threads -> Elem]
      BY DEF Elem
    <2>5. QED
      BY <2>1, <2>2, <2>3, <2>4 DEF TypeOK, Elem
  <1>2. ItemInv
    BY DEF ItemInv, Threads
  <1>3. LockInv
    BY DEF LockInv, Holds
  <1>4. FlagInv
    BY DEF FlagInv
  <1>5. QED
    BY <1>1, <1>2, <1>3, <1>4 DEF SafeInv

LEMMA StepType ==
  ASSUME SafeInv, [Next]_vars
  PROVE  TypeOK' /\ ItemInv'
  <1> USE ThreadsAssumption, QueriesAssumption
          DEF TypeOK, ItemInv, Threads, Elem, ProducerPcs, ConsumerPcs, Goto,
              listVars, historyVars
  <1>0. TypeOK /\ ItemInv
    BY DEF SafeInv
  <1>1. ASSUME NEW p \in Producers, ProducerStep(p)
        PROVE  TypeOK' /\ ItemInv'
    <2>1. CASE NewElement(p)
      BY <1>0, <2>1 DEF NewElement
    <2>2. CASE EnqueueLock(p)
      BY <1>0, <2>2 DEF EnqueueLock
    <2>3. CASE LinkFirst(p)
      BY <1>0, <2>3 DEF LinkFirst
    <2>4. CASE LinkToNext(p)
      BY <1>0, <2>4 DEF LinkToNext
    <2>5. CASE LinkFromTail(p)
      <3>1. item[p] \in Queries
        BY <1>0, <2>5 DEF LinkFromTail
      <3>2. next' \in [Queries -> Elem]
        BY <1>0, <2>5, <3>1 DEF LinkFromTail
      <3>3. enqueued' \in Seq(Queries)
        BY <1>0, <2>5, <3>1 DEF LinkFromTail
      <3>4. QED
        BY <1>0, <2>5, <3>2, <3>3 DEF LinkFromTail
    <2>6. CASE MarkNonEmpty(p)
      BY <1>0, <2>6 DEF MarkNonEmpty
    <2>7. CASE EnqueueUnlock(p)
      BY <1>0, <2>7 DEF EnqueueUnlock
    <2>8. CASE SetTail(p)
      BY <1>0, <2>8 DEF SetTail
    <2>9. QED
      BY <1>1, <2>1, <2>2, <2>3, <2>4, <2>5, <2>6, <2>7, <2>8 DEF ProducerStep
  <1>2. ASSUME NEW c \in Consumers, ConsumerStep(c)
        PROVE  TypeOK' /\ ItemInv'
    <2>1. CASE SeeNonEmpty(c)
      BY <1>0, <2>1 DEF SeeNonEmpty
    <2>2. CASE DequeueLock(c)
      BY <1>0, <2>2 DEF DequeueLock
    <2>3. CASE DequeueLockBusy(c)
      BY <1>0, <2>3 DEF DequeueLockBusy
    <2>4. CASE WaitWhileEmpty(c)
      BY <1>0, <2>4 DEF WaitWhileEmpty
    <2>5. CASE ReturnNull(c)
      BY <1>0, <2>5 DEF ReturnNull
    <2>6. CASE TakeHead(c)
      BY <1>0, <2>6 DEF TakeHead
    <2>7. CASE TakeNothing(c)
      BY <1>0, <2>7 DEF TakeNothing
    <2>8. CASE MarkEmpty(c)
      BY <1>0, <2>8 DEF MarkEmpty
    <2>9. CASE DequeueUnlock(c)
      BY <1>0, <2>9 DEF DequeueUnlock
    <2>10. CASE RunQuery(c)
      BY <1>0, <2>10 DEF RunQuery
    <2>11. QED
      BY <1>2, <2>1, <2>2, <2>3, <2>4, <2>5, <2>6, <2>7, <2>8, <2>9, <2>10
         DEF ConsumerStep
  <1>3. CASE Stop
    BY <1>0, <1>3 DEF Stop
  <1>4. CASE UNCHANGED vars
    BY <1>0, <1>4 DEF vars
  <1>5. QED
    BY <1>1, <1>2, <1>3, <1>4 DEF Next

(* The lock: every step keeps it equal to "someone is inside", and no second *)
(* thread gets in.                                                          *)
LEMMA StepLock ==
  ASSUME SafeInv, [Next]_vars
  PROVE  LockInv'
  <1> USE ThreadsAssumption, QueriesAssumption
          DEF LockInv, Holds, Threads, Goto, ProducerPcs, ConsumerPcs
  <1>0. LockInv /\ pc \in [Threads -> ProducerPcs \cup ConsumerPcs]
        /\ item \in [Threads -> Elem] /\ lock \in BOOLEAN
        /\ (\A t \in Producers : pc[t] \in ProducerPcs)
    BY DEF SafeInv, TypeOK
  <1>1. ASSUME NEW p \in Producers, ProducerStep(p)
        PROVE  LockInv'
    <2>1. CASE NewElement(p)
      BY <1>0, <2>1 DEF NewElement
    <2>2. CASE EnqueueLock(p)
      BY <1>0, <2>2 DEF EnqueueLock
    <2>3. CASE LinkFirst(p)
      BY <1>0, <2>3 DEF LinkFirst
    <2>4. CASE LinkToNext(p)
      BY <1>0, <2>4 DEF LinkToNext
    <2>5. CASE LinkFromTail(p)
      BY <1>0, <2>5 DEF LinkFromTail
    <2>6. CASE MarkNonEmpty(p)
      BY <1>0, <2>6 DEF MarkNonEmpty
    <2>7. CASE EnqueueUnlock(p)
      BY <1>0, <2>7 DEF EnqueueUnlock
    <2>8. CASE SetTail(p)
      BY <1>0, <2>8 DEF SetTail
    <2>9. QED
      BY <1>1, <2>1, <2>2, <2>3, <2>4, <2>5, <2>6, <2>7, <2>8
         DEF ProducerStep
  <1>2. ASSUME NEW c \in Consumers, ConsumerStep(c)
        PROVE  LockInv'
    <2>1. CASE SeeNonEmpty(c)
      BY <1>0, <2>1 DEF SeeNonEmpty
    <2>2. CASE DequeueLock(c)
      BY <1>0, <2>2 DEF DequeueLock
    <2>3. CASE DequeueLockBusy(c)
      BY <1>0, <2>3 DEF DequeueLockBusy
    <2>4. CASE WaitWhileEmpty(c)
      BY <1>0, <2>4 DEF WaitWhileEmpty
    <2>5. CASE ReturnNull(c)
      BY <1>0, <2>5 DEF ReturnNull
    <2>6. CASE TakeHead(c)
      BY <1>0, <2>6 DEF TakeHead
    <2>7. CASE TakeNothing(c)
      BY <1>0, <2>7 DEF TakeNothing
    <2>8. CASE MarkEmpty(c)
      BY <1>0, <2>8 DEF MarkEmpty
    <2>9. CASE DequeueUnlock(c)
      BY <1>0, <2>9 DEF DequeueUnlock
    <2>10. CASE RunQuery(c)
      BY <1>0, <2>10 DEF RunQuery
    <2>11. QED
      BY <1>2, <2>1, <2>2, <2>3, <2>4, <2>5, <2>6, <2>7, <2>8, <2>9, <2>10
         DEF ConsumerStep
  <1>3. CASE Stop
    BY <1>0, <1>3 DEF Stop
  <1>4. CASE UNCHANGED vars
    BY <1>0, <1>4 DEF vars
  <1>5. QED
    BY <1>1, <1>2, <1>3, <1>4 DEF Next

(* The flag: only the holder of the lock changes it or the head, so what the *)
(* holder knows stays true until it leaves.                                 *)
LEMMA StepFlag ==
  ASSUME SafeInv, [Next]_vars
  PROVE  FlagInv'
  <1> USE ThreadsAssumption, QueriesAssumption
          DEF FlagInv, LockInv, Holds, Threads, Goto, ProducerPcs, ConsumerPcs, listVars
  <1>0. /\ FlagInv /\ LockInv /\ ItemInv /\ pc \in [Threads -> ProducerPcs \cup ConsumerPcs]
        /\ item \in [Threads -> Elem] /\ lock \in BOOLEAN /\ empty \in BOOLEAN
        /\ (\A t \in Producers : pc[t] \in ProducerPcs)
    BY DEF SafeInv, TypeOK
  <1>1. ASSUME NEW p \in Producers, ProducerStep(p)
        PROVE  FlagInv'
    <2>1. CASE NewElement(p)
      BY <1>0, <2>1 DEF NewElement
    <2>2. CASE EnqueueLock(p)
      BY <1>0, <2>2 DEF EnqueueLock
    <2>3. CASE LinkFirst(p)
      BY <1>0, <2>3 DEF LinkFirst, ItemInv
    <2>4. CASE LinkToNext(p)
      BY <1>0, <2>4 DEF LinkToNext
    <2>5. CASE LinkFromTail(p)
      BY <1>0, <2>5 DEF LinkFromTail
    <2>6. CASE MarkNonEmpty(p)
      BY <1>0, <2>6 DEF MarkNonEmpty
    <2>7. CASE EnqueueUnlock(p)
      BY <1>0, <2>7 DEF EnqueueUnlock
    <2>8. CASE SetTail(p)
      BY <1>0, <2>8 DEF SetTail
    <2>9. QED
      BY <1>1, <2>1, <2>2, <2>3, <2>4, <2>5, <2>6, <2>7, <2>8
         DEF ProducerStep
  <1>2. ASSUME NEW c \in Consumers, ConsumerStep(c)
        PROVE  FlagInv'
    <2>1. CASE SeeNonEmpty(c)
      BY <1>0, <2>1 DEF SeeNonEmpty
    <2>2. CASE DequeueLock(c)
      BY <1>0, <2>2 DEF DequeueLock
    <2>3. CASE DequeueLockBusy(c)
      BY <1>0, <2>3 DEF DequeueLockBusy
    <2>4. CASE WaitWhileEmpty(c)
      BY <1>0, <2>4 DEF WaitWhileEmpty
    <2>5. CASE ReturnNull(c)
      BY <1>0, <2>5 DEF ReturnNull
    <2>6. CASE TakeHead(c)
      BY <1>0, <2>6 DEF TakeHead
    <2>7. CASE TakeNothing(c)
      BY <1>0, <2>7 DEF TakeNothing
    <2>8. CASE MarkEmpty(c)
      BY <1>0, <2>8 DEF MarkEmpty
    <2>9. CASE DequeueUnlock(c)
      BY <1>0, <2>9 DEF DequeueUnlock
    <2>10. CASE RunQuery(c)
      BY <1>0, <2>10 DEF RunQuery
    <2>11. QED
      BY <1>2, <2>1, <2>2, <2>3, <2>4, <2>5, <2>6, <2>7, <2>8, <2>9, <2>10
         DEF ConsumerStep
  <1>3. CASE Stop
    BY <1>0, <1>3 DEF Stop
  <1>4. CASE UNCHANGED vars
    BY <1>0, <1>4 DEF vars
  <1>5. QED
    BY <1>1, <1>2, <1>3, <1>4 DEF Next

LEMMA SafeCorrect == Spec => []SafeInv
  <1>1. Init => SafeInv
    BY InitSafe
  <1>2. SafeInv /\ [Next]_vars => SafeInv'
    BY StepType, StepLock, StepFlag DEF SafeInv
  <1>3. QED
    BY <1>1, <1>2, PTL DEF Spec

(* The queue fields and the threads' locals keep their types, whatever the   *)
(* number of producers.                                                     *)
THEOREM TypeCorrect == Spec => []TypeOK
  <1>1. SafeInv => TypeOK
    BY DEF SafeInv
  <1>2. QED
    BY SafeCorrect, <1>1, PTL

(* Mutual exclusion on the list for any number of producers and consumers,   *)
(* the hand-over of the lock to the caller of queue_dequeue_item() included. *)
THEOREM LockCorrect == Spec => []LockInv
  <1>1. SafeInv => LockInv
    BY DEF SafeInv
  <1>2. QED
    BY SafeCorrect, <1>1, PTL

(* The empty flag tells the truth whenever the lock is free.                *)
THEOREM FlagCorrect == Spec => []FlagHonest
  <1>1. SafeInv => FlagHonest
    BY DEF SafeInv, FlagInv, FlagHonest
  <1>2. QED
    BY SafeCorrect, <1>1, PTL

-----------------------------------------------------------------------------
(* One producer: the situation of emiss_update.c, whose main thread is the   *)
(* only one to enqueue.                                                     *)
SingleProducer == \A p, q \in Producers : p = q

(* The list is the part of the log that was not dequeued: the head is its    *)
(* first element, every element points to the one linked after it, and the  *)
(* tail, unless the producer still owes it, is the last.                    *)
ListInv ==
    /\ Len(dequeued) < Len(enqueued) => head = enqueued[Len(dequeued) + 1]
    /\ Len(dequeued) = Len(enqueued) => head = NULL
    /\ \A i \in 1..Len(enqueued) :
          /\ Len(dequeued) < i /\ i < Len(enqueued) => next[enqueued[i]] = enqueued[i + 1]
          /\ Len(dequeued) < i /\ i = Len(enqueued) => next[enqueued[i]] = NULL

(* Every element is linked once.                                            *)
OnceInv ==
    /\ \A i, j \in 1..Len(enqueued) : enqueued[i] = enqueued[j] => i = j
    /\ \A i \in 1..Len(enqueued) : enqueued[i] \notin fresh
    /\ \A p \in Producers : pc[p] \in {"lock", "link", "attach"} =>
          /\ item[p] \notin fresh
          /\ \A i \in 1..Len(enqueued) : enqueued[i] # item[p]

TailInv ==
    \A p \in Producers :
        /\ pc[p] \in {"idle", "lock", "link", "attach"} =>
              /\ Len(enqueued) = 0 => tail = NULL
              /\ Len(enqueued) > 0 => tail = enqueued[Len(enqueued)]
        /\ pc[p] \in {"mark", "unlock", "tail"} =>
              /\ Len(enqueued) > 0
              /\ item[p] = enqueued[Len(enqueued)]
        /\ pc[p] = "attach" => next[item[p]] = NULL

(* Only what was dequeued is freed.                                         *)
FreedInv ==
    /\ \A q \in freed : \E i \in 1..Len(dequeued) : enqueued[i] = q
    /\ \A c \in Consumers : pc[c] \in {"settle", "release", "run"} =>
          \E i \in 1..Len(dequeued) : enqueued[i] = item[c]

FifoInv == Fifo /\ ListInv /\ OnceInv /\ TailInv /\ FreedInv

LEMMA InitFifo == Init => FifoInv
  BY DEF Init, FifoInv, Fifo, ListInv, OnceInv, TailInv, FreedInv, Threads

(* What appending to a log does to its length and its members.              *)
LEMMA AppendFacts ==
  ASSUME NEW S, NEW s \in Seq(S), NEW e \in S
  PROVE  /\ Append(s, e) \in Seq(S)
         /\ Len(Append(s, e)) = Len(s) + 1
         /\ Len(s) \in Nat
         /\ \A i \in 1..Len(s) : Append(s, e)[i] = s[i]
         /\ Append(s, e)[Len(s) + 1] = e
  OBVIOUS

LEMMA LinkFirstFifo ==
  ASSUME SafeInv, SingleProducer, FifoInv, NEW p \in Producers, LinkFirst(p)
  PROVE  FifoInv'
  <1> USE DEF LinkFirst, Goto
  <1> DEFINE n == Len(enqueued)
             k == Len(dequeued)
             e == item[p]
  <1>1. /\ pc[p] = "link" /\ e \in Queries
        /\ pc \in [Threads -> ProducerPcs \cup ConsumerPcs] /\ p \in Threads
        /\ next \in [Queries -> Elem] /\ enqueued \in Seq(Queries) /\ dequeued \in Seq(Queries)
        /\ \A c \in Consumers : pc[c] \in ConsumerPcs
    BY DEF SafeInv, TypeOK, ItemInv, Threads
  <1>2. n \in Nat /\ k \in Nat /\ k <= n
    BY <1>1 DEF FifoInv, Fifo
  <1>3. head = NULL /\ k = n
    <2>1. head = NULL \/ n = 0
      BY <1>1, <1>2, QueriesAssumption DEF FifoInv, TailInv
    <2>2. QED
      BY <2>1, <1>1, <1>2, QueriesAssumption DEF FifoInv, ListInv
  <1>4. /\ enqueued' = Append(enqueued, e) /\ Len(enqueued') = n + 1
        /\ \A i \in 1..n : enqueued'[i] = enqueued[i]
        /\ enqueued'[n + 1] = e
    BY <1>1, AppendFacts
  <1>5. \A q \in Producers : q = p
    BY DEF SingleProducer
  <1>6. Fifo'
    BY <1>2, <1>4 DEF FifoInv, Fifo
  <1>7. ListInv'
    BY <1>1, <1>2, <1>3, <1>4 DEF ListInv
  <1>8. OnceInv'
    <2>1. \A i \in 1..n : enqueued[i] # e
      BY <1>1 DEF FifoInv, OnceInv
    <2>2. \A i, j \in 1..Len(enqueued') : enqueued'[i] = enqueued'[j] => i = j
      BY <1>2, <1>4, <2>1 DEF FifoInv, OnceInv
    <2>3. \A i \in 1..Len(enqueued') : enqueued'[i] \notin fresh'
      BY <1>1, <1>2, <1>4 DEF FifoInv, OnceInv
    <2>4. \A q \in Producers : pc'[q] = "mark"
      BY <1>1, <1>5
    <2>5. QED
      BY <2>2, <2>3, <2>4 DEF OnceInv
  <1>9. TailInv'
    BY <1>1, <1>2, <1>4, <1>5 DEF TailInv
  <1>10. FreedInv'
    BY <1>1, <1>2, <1>4, ThreadsAssumption DEF FifoInv, FreedInv, ConsumerPcs, Threads
  <1>11. QED
    BY <1>6, <1>7, <1>8, <1>9, <1>10 DEF FifoInv

LEMMA LinkFromTailFifo ==
  ASSUME SafeInv, SingleProducer, FifoInv, NEW p \in Producers, LinkFromTail(p)
  PROVE  FifoInv'
  <1> USE DEF LinkFromTail, Goto
  <1> DEFINE n == Len(enqueued)
             k == Len(dequeued)
             e == item[p]
  <1>1. /\ pc[p] = "attach" /\ e \in Queries
        /\ pc \in [Threads -> ProducerPcs \cup ConsumerPcs] /\ p \in Threads
        /\ next \in [Queries -> Elem] /\ enqueued \in Seq(Queries) /\ dequeued \in Seq(Queries)
        /\ \A c \in Consumers : pc[c] \in ConsumerPcs
        /\ head # NULL
    BY DEF SafeInv, TypeOK, ItemInv, Threads, FlagInv
  <1>2. n \in Nat /\ k \in Nat /\ k < n
    BY <1>1 DEF FifoInv, Fifo, ListInv
  <1>3. /\ tail = enqueued[n] /\ tail \in Queries /\ next[e] = NULL
        /\ \A i \in 1..n : enqueued[i] # e
    BY <1>1, <1>2 DEF FifoInv, TailInv, OnceInv
  <1>4. /\ enqueued' = Append(enqueued, e) /\ Len(enqueued') = n + 1
        /\ \A i \in 1..n : enqueued'[i] = enqueued[i]
        /\ enqueued'[n + 1] = e
    BY <1>1, AppendFacts
  <1>5. \A q \in Producers : q = p
    BY DEF SingleProducer
  <1>6. Fifo'
    BY <1>2, <1>4 DEF FifoInv, Fifo
  <1>7. ListInv'
    <2>1. \A i \in 1..n : i < n => enqueued[i] # tail
      BY <1>2, <1>3 DEF FifoInv, OnceInv
    <2>2. next'[tail] = e /\ \A q \in Queries : q # tail => next'[q] = next[q]
      BY <1>1, <1>3
    <2>3. next'[e] = NULL
      BY <1>1, <1>2, <1>3, <2>2
    <2>4. \A i \in 1..n : k < i /\ i < n => next'[enqueued[i]] = enqueued[i + 1]
      BY <1>1, <1>2, <2>1, <2>2 DEF FifoInv, ListInv
    <2>5. \A i \in 1..Len(enqueued') :
             /\ k < i /\ i < Len(enqueued') => next'[enqueued'[i]] = enqueued'[i + 1]
             /\ k < i /\ i = Len(enqueued') => next'[enqueued'[i]] = NULL
      <3> TAKE i \in 1..Len(enqueued')
      <3>1. CASE i < n
        BY <3>1, <1>2, <1>4, <2>4
      <3>2. CASE i = n
        BY <3>2, <1>2, <1>3, <1>4, <2>2
      <3>3. CASE i = n + 1
        BY <3>3, <1>2, <1>4, <2>3
      <3>4. QED
        BY <3>1, <3>2, <3>3, <1>2, <1>4
    <2>6. head' = enqueued'[k + 1]
      BY <1>2, <1>4 DEF FifoInv, ListInv
    <2>7. QED
      BY <1>2, <1>4, <2>5, <2>6 DEF ListInv
  <1>8. OnceInv'
    <2>1. \A i, j \in 1..Len(enqueued') : enqueued'[i] = enqueued'[j] => i = j
      <3>1. \A i, j \in 1..n : enqueued[i] = enqueued[j] => i = j
        BY DEF FifoInv, OnceInv
      <3>2. QED
        BY <1>2, <1>3, <1>4, <3>1
    <2>2. \A i \in 1..Len(enqueued') : enqueued'[i] \notin fresh'
      <3>1. e \notin fresh /\ \A i \in 1..n : enqueued[i] \notin fresh
        BY <1>1 DEF FifoInv, OnceInv
      <3>2. QED
        BY <1>2, <1>4, <3>1
    <2>3. \A q \in Producers : pc'[q] = "mark"
      BY <1>1, <1>5
    <2>4. QED
      BY <2>1, <2>2, <2>3 DEF OnceInv
  <1>9. TailInv'
    BY <1>1, <1>2, <1>4, <1>5 DEF TailInv
  <1>10. FreedInv'
    BY <1>1, <1>2, <1>4, ThreadsAssumption DEF FifoInv, FreedInv, ConsumerPcs, Threads
  <1>11. QED
    BY <1>6, <1>7, <1>8, <1>9, <1>10 DEF FifoInv

LEMMA TakeHeadFifo ==
  ASSUME SafeInv, FifoInv, NEW c \in Consumers, TakeHead(c)
  PROVE  FifoInv'
  <1> USE DEF TakeHead, Goto
  <1> DEFINE n == Len(enqueued)
             k == Len(dequeued)
  <1>1. /\ pc \in [Threads -> ProducerPcs \cup ConsumerPcs] /\ c \in Threads
        /\ item \in [Threads -> Elem]
        /\ next \in [Queries -> Elem] /\ enqueued \in Seq(Queries) /\ dequeued \in Seq(Queries)
        /\ head \in Queries
    BY DEF SafeInv, TypeOK, Threads, Elem
  <1>2. n \in Nat /\ k \in Nat /\ k < n /\ head = enqueued[k + 1]
    BY <1>1 DEF FifoInv, Fifo, ListInv
  <1>3. /\ dequeued' = Append(dequeued, head) /\ Len(dequeued') = k + 1
        /\ \A i \in 1..k : dequeued'[i] = dequeued[i]
        /\ dequeued'[k + 1] = head
    BY <1>1, AppendFacts
  <1>4. \A p \in Producers : pc'[p] = pc[p] /\ item'[p] = item[p]
    BY <1>1, ThreadsAssumption DEF Threads
  <1>5. Fifo'
    BY <1>2, <1>3 DEF FifoInv, Fifo
  <1>6. ListInv'
    BY <1>1, <1>2, <1>3 DEF FifoInv, ListInv
  <1>7. OnceInv'
    BY <1>4 DEF FifoInv, OnceInv
  <1>8. TailInv'
    BY <1>4 DEF FifoInv, TailInv
  <1>9. FreedInv'
    <2>1. \A q \in freed' : \E i \in 1..Len(dequeued') : enqueued'[i] = q
      BY <1>2, <1>3 DEF FifoInv, FreedInv
    <2>2. ASSUME NEW d \in Consumers, pc'[d] \in {"settle", "release", "run"}
          PROVE  \E i \in 1..Len(dequeued') : enqueued'[i] = item'[d]
      <3>1. CASE d = c
        BY <3>1, <1>1, <1>2, <1>3
      <3>2. CASE d # c
        BY <3>2, <2>2, <1>1, <1>2, <1>3 DEF FifoInv, FreedInv, Threads
      <3>3. QED
        BY <3>1, <3>2
    <2>3. QED
      BY <2>1, <2>2 DEF FreedInv
  <1>10. QED
    BY <1>5, <1>6, <1>7, <1>8, <1>9 DEF FifoInv

LEMMA StepFifo ==
  ASSUME SafeInv, SingleProducer, FifoInv, [Next]_vars
  PROVE  FifoInv'
  <1>0. /\ pc \in [Threads -> ProducerPcs \cup ConsumerPcs]
        /\ item \in [Threads -> Elem]
        /\ Producers \subseteq Threads /\ Consumers \subseteq Threads
        /\ \A c \in Consumers : pc[c] \in ConsumerPcs
        /\ enqueued \in Seq(Queries) /\ dequeued \in Seq(Queries)
    BY DEF SafeInv, TypeOK, Threads
  <1> USE ThreadsAssumption DEF Goto, listVars, historyVars
  <1>1. ASSUME NEW p \in Producers, ProducerStep(p)
        PROVE  FifoInv'
    <2>0. /\ \A q \in Producers : q = p
          /\ \A c \in Consumers : pc'[c] = pc[c] /\ item'[c] = item[c]
      <3>1. p \in Threads /\ \A c \in Consumers : c # p
        BY <1>0
      <3>2. \A c \in Consumers : pc'[c] = pc[c]
        BY <1>0, <1>1, <3>1
           DEF ProducerStep, NewElement, EnqueueLock, LinkFirst, LinkToNext,
               LinkFromTail, MarkNonEmpty, EnqueueUnlock, SetTail
      <3>3. \A c \in Consumers : item'[c] = item[c]
        BY <1>0, <1>1, <3>1
           DEF ProducerStep, NewElement, EnqueueLock, LinkFirst, LinkToNext,
               LinkFromTail, MarkNonEmpty, EnqueueUnlock, SetTail
      <3>4. QED
        BY <3>2, <3>3 DEF SingleProducer
    <2>1. CASE NewElement(p)
      BY <1>0, <2>0, <2>1 DEF NewElement, FifoInv, Fifo, ListInv, OnceInv, TailInv, FreedInv
    <2>2. CASE EnqueueLock(p)
      BY <1>0, <2>0, <2>2 DEF EnqueueLock, FifoInv, Fifo, ListInv, OnceInv, TailInv, FreedInv
    <2>3. CASE LinkFirst(p)
      BY <2>3, LinkFirstFifo
    <2>4. CASE LinkToNext(p)
      <3>1. /\ pc[p] = "link" /\ item[p] \in Queries /\ pc'[p] = "attach" /\ item' = item
            /\ next \in [Queries -> Elem] /\ head # NULL
        BY <1>0, <2>4 DEF LinkToNext, SafeInv, TypeOK, ItemInv
      <3>2. Len(dequeued) < Len(enqueued) /\ tail = enqueued[Len(enqueued)]
        BY <1>0, <3>1 DEF FifoInv, Fifo, ListInv, TailInv
      <3>3. next[tail] = NULL
        BY <1>0, <3>2 DEF FifoInv, ListInv
      <3>4. \A i \in 1..Len(enqueued) : enqueued[i] # item[p]
        BY <3>1 DEF FifoInv, OnceInv
      <3>5. \A i \in 1..Len(enqueued) : next'[enqueued[i]] = next[enqueued[i]]
        BY <1>0, <2>4, <3>1, <3>4 DEF LinkToNext
      <3>6. ListInv'
        BY <1>0, <2>4, <3>5 DEF LinkToNext, FifoInv, ListInv
      <3>7. TailInv'
        BY <1>0, <2>0, <2>4, <3>1, <3>2, <3>3 DEF LinkToNext, FifoInv, TailInv
      <3>8. Fifo' /\ OnceInv' /\ FreedInv'
        BY <1>0, <2>0, <2>4, <3>1 DEF LinkToNext, FifoInv, Fifo, OnceInv, FreedInv
      <3>9. QED
        BY <3>6, <3>7, <3>8 DEF FifoInv
    <2>5. CASE LinkFromTail(p)
      BY <2>5, LinkFromTailFifo
    <2>6. CASE MarkNonEmpty(p)
      BY <1>0, <2>0, <2>6 DEF MarkNonEmpty, FifoInv, Fifo, ListInv, OnceInv, TailInv, FreedInv
    <2>7. CASE EnqueueUnlock(p)
      BY <1>0, <2>0, <2>7 DEF EnqueueUnlock, FifoInv, Fifo, ListInv, OnceInv, TailInv, FreedInv
    <2>8. CASE SetTail(p)
      BY <1>0, <2>0, <2>8 DEF SetTail, FifoInv, Fifo, ListInv, OnceInv, TailInv, FreedInv
    <2>9. QED
      BY <1>1, <2>1, <2>2, <2>3, <2>4, <2>5, <2>6, <2>7, <2>8 DEF ProducerStep
  <1>2. ASSUME NEW c \in Consumers, ConsumerStep(c)
        PROVE  FifoInv'
    <2>0. \A p \in Producers : pc'[p] = pc[p] /\ item'[p] = item[p]
      <3>1. c \in Threads /\ \A p \in Producers : p # c
        BY <1>0
      <3>2. \A p \in Producers : pc'[p] = pc[p]
        BY <1>0, <1>2, <3>1
           DEF ConsumerStep, SeeNonEmpty, DequeueLock, DequeueLockBusy, WaitWhileEmpty,
               ReturnNull, TakeHead, TakeNothing, MarkEmpty, DequeueUnlock, RunQuery
      <3>3. \A p \in Producers : item'[p] = item[p]
        BY <1>0, <1>2, <3>1
           DEF ConsumerStep, SeeNonEmpty, DequeueLock, DequeueLockBusy, WaitWhileEmpty,
               ReturnNull, TakeHead, TakeNothing, MarkEmpty, DequeueUnlock, RunQuery
      <3>4. QED
        BY <3>2, <3>3
    <2>1. CASE TakeHead(c)
      BY <2>1, TakeHeadFifo
    <2>2. CASE RunQuery(c)
      <3>1. \E i \in 1..Len(dequeued) : enqueued[i] = item[c]
        BY <2>2 DEF RunQuery, FifoInv, FreedInv
      <3>2. \A q \in freed' : \E i \in 1..Len(dequeued) : enqueued[i] = q
        BY <2>2, <3>1 DEF RunQuery, FifoInv, FreedInv
      <3>3. ASSUME NEW d \in Consumers, pc'[d] \in {"settle", "release", "run"}
            PROVE  \E i \in 1..Len(dequeued) : enqueued[i] = item'[d]
        BY <1>0, <2>2, <3>3 DEF RunQuery, FifoInv, FreedInv
      <3>4. FreedInv'
        BY <2>2, <3>2, <3>3 DEF RunQuery, FreedInv
      <3>5. Fifo' /\ ListInv'
        BY <2>2 DEF RunQuery, FifoInv, Fifo, ListInv
      <3>6. OnceInv' /\ TailInv'
        BY <2>0, <2>2 DEF RunQuery, FifoInv, OnceInv, TailInv
      <3>7. QED
        BY <3>4, <3>5, <3>6 DEF FifoInv
    <2>3. CASE ~ TakeHead(c) /\ ~ RunQuery(c)
      <3>1. UNCHANGED <<listVars, item, fresh, freed, historyVars>>
        BY <1>2, <2>3
           DEF ConsumerStep, SeeNonEmpty, DequeueLock, DequeueLockBusy, WaitWhileEmpty,
               ReturnNull, TakeNothing, MarkEmpty, DequeueUnlock
      <3>2. \A d \in Consumers : pc'[d] \in {"settle", "release", "run"} =>
                                  pc[d] \in {"settle", "release", "run"}
        BY <1>0, <1>2, <2>3
           DEF ConsumerStep, SeeNonEmpty, DequeueLock, DequeueLockBusy, WaitWhileEmpty,
               ReturnNull, TakeNothing, MarkEmpty, DequeueUnlock
      <3>3. Fifo' /\ ListInv'
        BY <3>1 DEF FifoInv, Fifo, ListInv
      <3>4. OnceInv' /\ TailInv'
        BY <2>0, <3>1 DEF FifoInv, OnceInv, TailInv
      <3>5. FreedInv'
        BY <3>1, <3>2 DEF FifoInv, FreedInv
      <3>6. QED
        BY <3>3, <3>4, <3>5 DEF FifoInv
    <2>4. QED
      BY <2>1, <2>2, <2>3
  <1>3. CASE Stop
    BY <1>3 DEF Stop, FifoInv, Fifo, ListInv, OnceInv, TailInv, FreedInv
  <1>4. CASE UNCHANGED vars
    BY <1>4 DEF vars, FifoInv, Fifo, ListInv, OnceInv, TailInv, FreedInv
  <1>5. QED
    BY <1>1, <1>2, <1>3, <1>4 DEF Next

LEMMA FifoInvCorrect == ASSUME SingleProducer PROVE Spec => []FifoInv
  <1>1. Init => FifoInv
    BY InitFifo
  <1>2. SafeInv /\ FifoInv /\ [Next]_vars => FifoInv'
    BY StepFifo
  <1>3. QED
    BY <1>1, <1>2, SafeCorrect, PTL DEF Spec

(* With one producer, whatever the number of send/poll threads, queries are   *)
(* dequeued in the order in which they were enqueued although the tail is    *)
(* written outside the lock.                                                *)
THEOREM FifoCorrect == ASSUME SingleProducer PROVE Spec => []Fifo
  <1>1. FifoInv => Fifo
    BY DEF FifoInv
  <1>2. QED
    BY FifoInvCorrect, <1>1, PTL

(* With one producer the tail that is never reset is never followed after it *)
(* was freed, and the head is never a freed element.                        *)
THEOREM NoUseAfterFreeCorrect == ASSUME SingleProducer PROVE Spec => []NoUseAfterFree
  <1>1. SafeInv /\ FifoInv => NoUseAfterFree
    <2> SUFFICES ASSUME SafeInv, FifoInv PROVE NoUseAfterFree
      OBVIOUS
    <2> DEFINE n == Len(enqueued)
               k == Len(dequeued)
    <2>1. /\ n \in Nat /\ k \in Nat /\ k <= n /\ NULL \notin Queries
          /\ freed \subseteq Queries
      BY QueriesAssumption DEF SafeInv, TypeOK, FifoInv, Fifo
    <2>2. \A i \in 1..n : enqueued[i] \in freed => i <= k
      BY <2>1 DEF FifoInv, FreedInv, OnceInv
    <2>3. head \notin freed
      BY <2>1, <2>2 DEF FifoInv, ListInv
    <2>4. ASSUME NEW p \in Producers, (pc[p] = "link" /\ head # NULL) \/ pc[p] = "attach"
          PROVE  tail \notin freed
      <3>1. head # NULL
        BY <2>4 DEF SafeInv, FlagInv, Threads
      <3>2. k < n /\ tail = enqueued[n]
        BY <2>1, <2>4, <3>1 DEF FifoInv, ListInv, TailInv
      <3>3. QED
        BY <2>1, <2>2, <3>2
    <2>5. QED
      BY <2>3, <2>4 DEF NoUseAfterFree
  <1>2. QED
    BY SafeCorrect, FifoInvCorrect, <1>1, PTL

-----------------------------------------------------------------------------
(* The refinement.  Linking is the abstract Enqueue, unlinking the abstract   *)
(* Dequeue, the completion of a lock_until_complete query Complete.         *)

Running == {"settle", "release", "run"}

LEMMA BarrierMembers ==
  \A q : q \in Barrier <=> \E c \in Consumers : pc[c] \in Running /\ item[c] = q /\ q \in Blocking
  BY DEF Barrier, Running

(* A step that neither starts nor ends a query leaves the barrier alone.      *)
LEMMA BarrierKept ==
  ASSUME \A c \in Consumers : /\ pc'[c] \in Running <=> pc[c] \in Running
                              /\ pc[c] \in Running => item'[c] = item[c]
  PROVE  Barrier' = Barrier
  <1>1. \A q : q \in Barrier' <=> q \in Barrier
    BY DEF Barrier, Running
  <1>2. QED
    BY <1>1

LEMMA InitImplements == Init => Promised!Init
  BY DEF Init, Promised!Init, Barrier, Threads

LEMMA StepImplements ==
  ASSUME SafeInv, SingleProducer, FifoInv, [Next]_vars
  PROVE  [Promised!Next]_(Promised!fifoVars)
  <1>0. /\ pc \in [Threads -> ProducerPcs \cup ConsumerPcs]
        /\ item \in [Threads -> Elem]
        /\ Producers \subseteq Threads /\ Consumers \subseteq Threads
        /\ \A c \in Consumers : pc[c] \in ConsumerPcs
        /\ enqueued \in Seq(Queries) /\ dequeued \in Seq(Queries)
        /\ LockInv /\ ItemInv
    BY DEF SafeInv, TypeOK, Threads
  <1> USE ThreadsAssumption, QueriesAssumption DEF Goto, listVars, historyVars
  <1>1. ASSUME NEW p \in Producers, ProducerStep(p)
        PROVE  [Promised!Next]_(Promised!fifoVars)
    <2>1. Barrier' = Barrier
      <3>1. p \in Threads /\ \A c \in Consumers : c # p
        BY <1>0
      <3>2. \A c \in Consumers : pc'[c] = pc[c] /\ item'[c] = item[c]
        <4>1. \A c \in Consumers : pc'[c] = pc[c]
          BY <1>0, <1>1, <3>1
             DEF ProducerStep, NewElement, EnqueueLock, LinkFirst, LinkToNext,
                 LinkFromTail, MarkNonEmpty, EnqueueUnlock, SetTail
        <4>2. \A c \in Consumers : item'[c] = item[c]
          BY <1>0, <1>1, <3>1
             DEF ProducerStep, NewElement, EnqueueLock, LinkFirst, LinkToNext,
                 LinkFromTail, MarkNonEmpty, EnqueueUnlock, SetTail
        <4>3. QED
          BY <4>1, <4>2
      <3>3. QED
        BY <3>2, BarrierKept
    <2>2. CASE LinkFirst(p) \/ LinkFromTail(p)
      <3>1. item[p] \in Queries /\ \A i \in 1..Len(enqueued) : enqueued[i] # item[p]
        BY <2>2 DEF LinkFirst, LinkFromTail, SafeInv, ItemInv, FifoInv, OnceInv
      <3>2. ~ Promised!Occurs(item[p], enqueued)
        BY <1>0, <3>1 DEF Promised!Occurs
      <3>3. enqueued' = Append(enqueued, item[p]) /\ dequeued' = dequeued
        BY <2>2 DEF LinkFirst, LinkFromTail
      <3>4. Promised!Enqueue(item[p])
        BY <2>1, <3>2, <3>3 DEF Promised!Enqueue
      <3>5. QED
        BY <3>1, <3>4 DEF Promised!Next
    <2>3. CASE ~ LinkFirst(p) /\ ~ LinkFromTail(p)
      <3>1. UNCHANGED <<enqueued, dequeued>>
        BY <1>1, <2>3
           DEF ProducerStep, NewElement, EnqueueLock, LinkToNext, MarkNonEmpty,
               EnqueueUnlock, SetTail
      <3>2. QED
        BY <2>1, <3>1 DEF Promised!fifoVars
    <2>4. QED
      BY <2>2, <2>3
  <1>2. ASSUME NEW c \in Consumers, ConsumerStep(c)
        PROVE  [Promised!Next]_(Promised!fifoVars)
    <2>0. c \in Threads
      BY <1>0
    <2>1. CASE TakeHead(c)
      <3>1. pc[c] = "take" /\ head # NULL /\ pc' = [pc EXCEPT ![c] = "settle"]
            /\ item' = [item EXCEPT ![c] = head] /\ enqueued' = enqueued
            /\ dequeued' = Append(dequeued, head)
        BY <2>1 DEF TakeHead
      <3>2. /\ Len(dequeued) < Len(enqueued)
            /\ head = enqueued[Len(dequeued) + 1]
        BY <1>0, <3>1 DEF FifoInv, Fifo, ListInv
      <3>3. \A d \in Consumers : ~ (pc[d] \in Running /\ item[d] \in Blocking)
        BY <1>0, <2>0, <3>1 DEF LockInv, Holds, Running
      <3>4. Barrier = {}
        BY <3>3, BarrierMembers
      <3>5. Barrier' = {head} \cap Blocking
        <4>1. pc'[c] \in Running /\ item'[c] = head
          BY <1>0, <2>0, <3>1 DEF Running
        <4>2. \A d \in Consumers : d # c => pc'[d] = pc[d] /\ item'[d] = item[d]
          BY <1>0, <2>0, <3>1
        <4>3. \A q : q \in Barrier' <=>
                 \E d \in Consumers : pc'[d] \in Running /\ item'[d] = q /\ q \in Blocking
          BY DEF Barrier, Running
        <4>4. QED
          BY <3>3, <4>1, <4>2, <4>3
      <3>6. Promised!Dequeue
        BY <3>1, <3>2, <3>4, <3>5 DEF Promised!Dequeue
      <3>7. QED
        BY <3>6 DEF Promised!Next
    <2>2. CASE RunQuery(c)
      <3>1. pc[c] = "run" /\ pc' = [pc EXCEPT ![c] = "idle"] /\ item' = [item EXCEPT ![c] = NULL]
            /\ UNCHANGED <<enqueued, dequeued>>
        BY <2>2 DEF RunQuery
      <3>2. \A d \in Consumers : d # c => pc'[d] = pc[d] /\ item'[d] = item[d]
        BY <1>0, <2>0, <3>1
      <3>3. pc'[c] \notin Running
        BY <1>0, <2>0, <3>1 DEF Running
      <3>4. \A q : q \in Barrier' <=>
                 \E d \in Consumers : pc'[d] \in Running /\ item'[d] = q /\ q \in Blocking
        BY DEF Barrier, Running
      <3>5. CASE item[c] \in Blocking
        <4>1. item[c] \in Barrier
          BY <3>1, <3>5, BarrierMembers DEF Running
        <4>2. \A d \in Consumers : pc[d] \in Running /\ item[d] \in Blocking => d = c
          BY <1>0, <2>0, <3>1, <3>5 DEF LockInv, Holds, Running
        <4>3. Barrier' = {}
          BY <3>2, <3>3, <3>4, <4>2
        <4>4. QED
          BY <3>1, <4>1, <4>3 DEF Promised!Complete, Promised!Next
      <3>6. CASE item[c] \notin Blocking
        <4>1. \A q : q \in Barrier' <=> q \in Barrier
          BY <3>2, <3>3, <3>4, <3>6, BarrierMembers
        <4>2. Barrier' = Barrier
          BY <4>1
        <4>3. QED
          BY <3>1, <4>2 DEF Promised!fifoVars
      <3>7. QED
        BY <3>5, <3>6
    <2>3. CASE ~ TakeHead(c) /\ ~ RunQuery(c)
      <3>1. UNCHANGED <<item, enqueued, dequeued>>
        BY <1>2, <2>3
           DEF ConsumerStep, SeeNonEmpty, DequeueLock, DequeueLockBusy, WaitWhileEmpty,
               ReturnNull, TakeNothing, MarkEmpty, DequeueUnlock
      <3>2. \A d \in Consumers : pc'[d] \in Running <=> pc[d] \in Running
        BY <1>0, <2>0, <1>2, <2>3
           DEF ConsumerStep, SeeNonEmpty, DequeueLock, DequeueLockBusy, WaitWhileEmpty,
               ReturnNull, TakeNothing, MarkEmpty, DequeueUnlock, Running
      <3>3. Barrier' = Barrier
        BY <3>1, <3>2, BarrierKept
      <3>4. QED
        BY <3>1, <3>3 DEF Promised!fifoVars
    <2>4. QED
      BY <2>1, <2>2, <2>3
  <1>3. CASE Stop \/ UNCHANGED vars
    <2>1. UNCHANGED <<pc, item, enqueued, dequeued>>
      BY <1>3 DEF Stop, vars
    <2>2. Barrier' = Barrier
      BY <2>1 DEF Barrier
    <2>3. QED
      BY <2>1, <2>2 DEF Promised!fifoVars
  <1>4. QED
    BY <1>1, <1>2, <1>3 DEF Next

(* With one producer and any number of send/poll threads the linked list of   *)
(* wlpq.c is the queue wlpq.h promises: atomic, first in first out, each      *)
(* query once, nothing processed beside a lock_until_complete query.         *)
THEOREM QueueImplementsFifo == ASSUME SingleProducer PROVE Spec => ImplementsFifo
  <1>1. Init => Promised!Init
    BY InitImplements
  <1>2. SafeInv /\ FifoInv /\ [Next]_vars => [Promised!Next]_(Promised!fifoVars)
    BY StepImplements
  <1>3. QED
    BY <1>1, <1>2, SafeCorrect, FifoInvCorrect, PTL DEF Spec, ImplementsFifo, Promised!Spec
==============================================================================
