-------------------------- MODULE ChartRequestProofs --------------------------
(***************************************************************************)
(* Proofs about ChartRequest, for any number of workers, items and         *)
(* failures: its safety properties follow from an inductive invariant that *)
(* ties every storage to its query, its callback and its worker's position. *)
(***************************************************************************)
EXTENDS ChartRequest, TLAPS

(* A storage, its flag, its query and its callback.                          *)
QueryInv ==
    \A q \in Queries :
        /\ callback[q] # "none" => outcome[q] \in {"sent", "answered"}
        /\ callback[q] = "filled" => outcome[q] = "sent"
        /\ outcome[q] # "new" => storage[q] # "none"
        /\ storage[q] = "live" /\ ~ in_progress[q] => callback[q] = "cleared"
        /\ storage[q] = "freed" => callback[q] = "cleared"

(* The storages of a worker at each of its positions.                         *)
IdleInv(w) ==
    pc[w] = "idle" => item[w] = 1 /\ \A i \in Items : storage[<<w, i>>] = "none"
EnqueueInv(w) ==
    pc[w] = "enqueue" =>
        /\ item[w] <= items[w]
        /\ \A i \in Items : storage[<<w, i>>] = IF i < item[w] THEN "live" ELSE "none"
WaitInv(w) ==
    pc[w] = "wait" =>
        /\ item[w] <= items[w]
        /\ \A i \in Items : storage[<<w, i>>] = IF i < item[w] THEN "freed"
                                               ELSE IF i <= items[w] THEN "live" ELSE "none"
ReplyInv(w) ==
    pc[w] = "reply" => \A i \in Items : storage[<<w, i>>] # "live"
DoneInv(w) ==
    pc[w] = "done" /\ status[w] # 500 => \A i \in Items : storage[<<w, i>>] # "live"
WorkerInv ==
    \A w \in Workers : IdleInv(w) /\ EnqueueInv(w) /\ WaitInv(w) /\ ReplyInv(w) /\ DoneInv(w)

(* The server stops when no worker is in a request, and only then is anything *)
(* discarded.                                                               *)
ServerInv ==
    /\ server \in {"stopped", "released"} => \A w \in Workers : pc[w] \in {"idle", "done"}
    /\ NobodyAwaitsDiscarded

SafeInv == TypeOK /\ QueryInv /\ WorkerInv /\ ServerInv

-----------------------------------------------------------------------------
LEMMA Pairs ==
  ASSUME TypeOK
  PROVE  /\ \A w \in Workers, i \in Items : <<w, i>> \in Queries
         /\ \A w \in Workers : Current(w) \in Queries
  BY DEF TypeOK, Current, Queries

LEMMA InitSafe == Init => SafeInv
  <1> SUFFICES ASSUME Init PROVE SafeInv
    OBVIOUS
  <1> USE ChartAssumption DEF Init, Service!Init
  <1>0. \A w \in Workers, i \in Items : <<w, i>> \in Queries
    BY DEF Queries
  <1>1. TypeOK
    <2>1. outcome \in [Queries -> Service!States] /\ open \in BOOLEAN
      BY DEF Service!States
    <2>2. storage \in [Queries -> {"none", "live", "freed"}]
      OBVIOUS
    <2>3. in_progress \in [Queries -> BOOLEAN]
      OBVIOUS
    <2>4. callback \in [Queries -> {"none", "filled", "cleared"}]
      OBVIOUS
    <2>5. pc \in [Workers -> {"idle", "enqueue", "wait", "reply", "done"}]
      OBVIOUS
    <2>6. items \in [Workers -> Items] /\ item \in [Workers -> Items]
      BY DEF Items
    <2>7. status \in [Workers -> {0, 200, 400, 500}] /\ faults \in 0..MaxFaults
      OBVIOUS
    <2>8. raced \in BOOLEAN /\ impaired \in BOOLEAN /\ stuck \subseteq Queries
      OBVIOUS
    <2>9. QED
      BY <2>1, <2>2, <2>3, <2>4, <2>5, <2>6, <2>7, <2>8 DEF TypeOK
  <1>2. QueryInv
    BY DEF QueryInv
  <1>3. WorkerInv
    BY <1>0 DEF WorkerInv, IdleInv, EnqueueInv, WaitInv, ReplyInv, DoneInv
  <1>4. ServerInv
    BY <1>0 DEF ServerInv, NobodyAwaitsDiscarded
  <1>5. QED
    BY <1>1, <1>2, <1>3, <1>4 DEF SafeInv

LEMMA NextItemType ==
  ASSUME TypeOK, NEW w \in Workers, NEW after \in {"wait", "reply"}, NextItem(w, after)
  PROVE  /\ item' \in [Workers -> Items]
         /\ pc' \in [Workers -> {"idle", "enqueue", "wait", "reply", "done"}]
  <1> USE ChartAssumption DEF TypeOK, NextItem
  <1>1. CASE item[w] < items[w]
    <2>1. item[w] + 1 \in Items
      BY <1>1 DEF Items
    <2>2. QED
      BY <1>1, <2>1
  <1>2. CASE ~ (item[w] < items[w])
    <2>1. 1 \in Items
      BY DEF Items
    <2>2. QED
      BY <1>2, <2>1
  <1>3. QED
    BY <1>1, <1>2

LEMMA StepType ==
  ASSUME SafeInv, [Next]_vars
  PROVE  TypeOK'
  <1> USE ChartAssumption DEF TypeOK, storageVars, workerVars, lossVars
  <1>0. TypeOK /\ \A w \in Workers : Current(w) \in Queries
    BY Pairs DEF SafeInv
  <1>1. ASSUME NEW w \in Workers, Worker(w)
        PROVE  TypeOK'
    <2>1. CASE Refuse(w)
      BY <1>0, <2>1 DEF Refuse, Finish
    <2>2. CASE Accept(w)
      BY <1>0, <2>2 DEF Accept
    <2>3. CASE EnqueueItem(w)
      <3>1. NextItem(w, "wait")
        BY <2>3 DEF EnqueueItem
      <3>2. item' \in [Workers -> Items]
            /\ pc' \in [Workers -> {"idle", "enqueue", "wait", "reply", "done"}]
        BY <1>0, <3>1, NextItemType
      <3>3. outcome' \in [Queries -> Service!States]
        BY <1>0, <2>3 DEF EnqueueItem, Service!Submit, Service!Becomes, Service!States
      <3>4. QED
        BY <1>0, <2>3, <3>2, <3>3 DEF EnqueueItem, Service!Submit, Service!Becomes
    <2>4. CASE EnqueueFails(w)
      <3>1. faults' \in 0..MaxFaults
        BY <1>0, <2>4 DEF EnqueueFails, Fault
      <3>2. /\ storage' \in [Queries -> {"none", "live", "freed"}]
            /\ in_progress' \in [Queries -> BOOLEAN]
        <4>1. CASE UNCHANGED <<storage, in_progress>>
          BY <1>0, <4>1
        <4>2. CASE /\ storage' = [storage EXCEPT ![Current(w)] = "live"]
                   /\ in_progress' = [in_progress EXCEPT ![Current(w)] = TRUE]
          BY <1>0, <4>2
        <4>3. QED
          BY <2>4, <4>1, <4>2 DEF EnqueueFails
      <3>3. /\ pc' \in [Workers -> {"idle", "enqueue", "wait", "reply", "done"}]
            /\ status' \in [Workers -> {0, 200, 400, 500}]
        BY <1>0, <2>4 DEF EnqueueFails, Finish
      <3>4. QED
        BY <1>0, <2>4, <3>1, <3>2, <3>3 DEF EnqueueFails
    <2>5. CASE ReadItem(w)
      <3>1. NextItem(w, "reply")
        BY <2>5 DEF ReadItem, ReadItemLeaving
      <3>2. item' \in [Workers -> Items]
            /\ pc' \in [Workers -> {"idle", "enqueue", "wait", "reply", "done"}]
        BY <1>0, <3>1, NextItemType
      <3>3. QED
        BY <1>0, <2>5, <3>2 DEF ReadItem, ReadItemLeaving
    <2>6. CASE FormatFails(w)
      <3>1. faults' \in 0..MaxFaults
        BY <1>0, <2>6 DEF FormatFails, Fault
      <3>2. in_progress' \in [Queries -> BOOLEAN]
        <4>1. CASE UNCHANGED in_progress
          BY <1>0, <4>1
        <4>2. CASE in_progress' = [in_progress EXCEPT ![Current(w)] = TRUE]
          BY <1>0, <4>2
        <4>3. QED
          BY <2>6, <4>1, <4>2 DEF FormatFails
      <3>3. /\ pc' \in [Workers -> {"idle", "enqueue", "wait", "reply", "done"}]
            /\ status' \in [Workers -> {0, 200, 400, 500}]
        BY <1>0, <2>6 DEF FormatFails, Finish
      <3>4. QED
        BY <1>0, <2>6, <3>1, <3>2, <3>3 DEF FormatFails
    <2>7. CASE Reply(w)
      BY <1>0, <2>7 DEF Reply, Finish
    <2>8. QED
      BY <1>1, <2>1, <2>2, <2>3, <2>4, <2>5, <2>6, <2>7 DEF Worker
  <1>2. ASSUME NEW q \in Queries, QueryStep(q)
        PROVE  TypeOK'
    <2>1. CASE Send(q)
      BY <1>0, <2>1
         DEF Send, Service!Take, Service!Dispatch, Service!Becomes, Service!States
    <2>2. CASE Fill(q)
      BY <1>0, <2>2 DEF Fill, CallbackStep
    <2>3. CASE Clear(q)
      BY <1>0, <2>3 DEF Clear, CallbackStep
    <2>4. CASE Answer(q)
      BY <1>0, <2>4 DEF Answer, Service!States
    <2>5. CASE QueryFails(q)
      <3>1. faults' \in 0..MaxFaults
        BY <1>0, <2>5 DEF QueryFails, Fault
      <3>2. QED
        BY <1>0, <2>5, <3>1 DEF QueryFails, Service!States
    <2>6. QED
      BY <1>2, <2>1, <2>2, <2>3, <2>4, <2>5 DEF QueryStep
  <1>3. CASE Terminate
    BY <1>0, <1>3 DEF Terminate
  <1>4. CASE ServerStops
    BY <1>0, <1>4 DEF ServerStops, ServerStopsWhen
  <1>5. CASE StopThreads
    BY <1>0, <1>5 DEF StopThreads, Service!Close
  <1>6. CASE Release
    BY <1>0, <1>6 DEF Release, Service!Discard, Service!States
  <1>7. CASE UNCHANGED vars
    BY <1>0, <1>7 DEF vars
  <1>8. ASSUME NEW q \in Queries, GetStuck(q)
        PROVE  TypeOK'
    BY <1>0, <1>8 DEF GetStuck
  <1>9. CASE ThreadFails
    BY <1>0, <1>9 DEF ThreadFails, Fault
  <1>10. CASE JoinHangs
    BY <1>0, <1>10 DEF JoinHangs
  <1>11. QED
    BY <1>1, <1>2, <1>3, <1>4, <1>5, <1>6, <1>7, <1>8, <1>9, <1>10 DEF Next

LEMMA StepQuery ==
  ASSUME SafeInv, [Next]_vars
  PROVE  QueryInv'
  <1> USE DEF QueryInv, TypeOK, storageVars, workerVars, lossVars
  <1>0. TypeOK /\ QueryInv /\ WorkerInv /\ \A w \in Workers : Current(w) \in Queries
    BY Pairs DEF SafeInv
  <1>1. ASSUME NEW w \in Workers, Worker(w)
        PROVE  QueryInv'
    <2>1. CASE Refuse(w)
      BY <1>0, <2>1 DEF Refuse, Finish
    <2>2. CASE Accept(w)
      BY <1>0, <2>2 DEF Accept
    <2>3. CASE EnqueueItem(w)
      BY <1>0, <2>3 DEF EnqueueItem, NextItem, Current, Service!Submit, Service!Becomes
    <2>4. CASE EnqueueFails(w)
      BY <1>0, <2>4 DEF EnqueueFails, Fault, Current, Finish
    <2>5. CASE ReadItem(w)
      <3>1. callback[Current(w)] = "cleared"
        <4>1. storage[Current(w)] = "live"
          <5>1. WaitInv(w) /\ pc[w] = "wait" /\ item[w] \in Items /\ items[w] \in Items
            BY <1>0, <2>5 DEF ReadItem, ReadItemLeaving, WorkerInv
          <5>2. QED
            BY <5>1, ChartAssumption DEF WaitInv, Current, Items
        <4>2. QED
          BY <1>0, <2>5, <4>1 DEF ReadItem, ReadItemLeaving
      <3>2. QED
        BY <1>0, <2>5, <3>1 DEF ReadItem, ReadItemLeaving
    <2>6. CASE FormatFails(w)
      BY <1>0, <2>6 DEF FormatFails, Fault, Current, Finish
    <2>7. CASE Reply(w)
      BY <1>0, <2>7 DEF Reply, Finish
    <2>8. QED
      BY <1>1, <2>1, <2>2, <2>3, <2>4, <2>5, <2>6, <2>7 DEF Worker
  <1>2. ASSUME NEW q \in Queries, QueryStep(q)
        PROVE  QueryInv'
    <2>1. CASE Send(q)
      BY <1>0, <2>1 DEF Send, Service!Take, Service!Dispatch, Service!Becomes
    <2>2. CASE Fill(q)
      BY <1>0, <2>2 DEF Fill, CallbackStep
    <2>3. CASE Clear(q)
      BY <1>0, <2>3 DEF Clear, CallbackStep
    <2>4. CASE Answer(q)
      BY <1>0, <2>4 DEF Answer
    <2>5. CASE QueryFails(q)
      BY <1>0, <2>5 DEF QueryFails, Fault
    <2>6. QED
      BY <1>2, <2>1, <2>2, <2>3, <2>4, <2>5 DEF QueryStep
  <1>3. CASE Terminate
    BY <1>0, <1>3 DEF Terminate
  <1>4. CASE ServerStops
    BY <1>0, <1>4 DEF ServerStops, ServerStopsWhen
  <1>5. CASE StopThreads
    BY <1>0, <1>5 DEF StopThreads, Service!Close
  <1>6. CASE Release
    BY <1>0, <1>6 DEF Release, Service!Discard
  <1>7. CASE UNCHANGED vars
    BY <1>0, <1>7 DEF vars
  <1>8. ASSUME NEW q \in Queries, GetStuck(q)
        PROVE  QueryInv'
    BY <1>0, <1>8 DEF GetStuck
  <1>9. CASE ThreadFails
    BY <1>0, <1>9 DEF ThreadFails, Fault
  <1>10. CASE JoinHangs
    BY <1>0, <1>10 DEF JoinHangs
  <1>11. QED
    BY <1>1, <1>2, <1>3, <1>4, <1>5, <1>6, <1>7, <1>8, <1>9, <1>10 DEF Next

LEMMA StepWorker ==
  ASSUME SafeInv, [Next]_vars
  PROVE  WorkerInv'
  <1> USE DEF WorkerInv, IdleInv, EnqueueInv, WaitInv, ReplyInv, DoneInv, TypeOK, Items,
              storageVars, workerVars, lossVars
  <1>0. TypeOK /\ WorkerInv /\ \A w \in Workers, i \in Items : <<w, i>> \in Queries
    BY Pairs DEF SafeInv
  <1>1. ASSUME NEW w \in Workers, Worker(w)
        PROVE  WorkerInv'
    <2>1. CASE Refuse(w)
      BY <1>0, <2>1 DEF Refuse, Finish
    <2>2. CASE Accept(w)
      BY <1>0, <2>2 DEF Accept
    <2>3. CASE EnqueueItem(w)
      <3>0. item[w] \in Items /\ items[w] \in Items /\ pc[w] = "enqueue"
            /\ item[w] <= items[w] /\ Current(w) = <<w, item[w]>>
        BY <1>0, <2>3 DEF EnqueueItem, Current
      <3>1. storage' = [storage EXCEPT ![<<w, item[w]>>] = "live"]
        BY <3>0, <2>3 DEF EnqueueItem
      <3>2. NextItem(w, "wait")
        BY <2>3 DEF EnqueueItem
      <3>3. \A v \in Workers \ {w} :
                /\ pc'[v] = pc[v] /\ item'[v] = item[v]
                /\ \A i \in Items : storage'[<<v, i>>] = storage[<<v, i>>]
        BY <1>0, <3>1, <3>2 DEF NextItem
      <3>4. items' = items /\ status' = status
        BY <2>3 DEF EnqueueItem
      <3>5. \A i \in Items :
                storage'[<<w, i>>] = IF i = item[w] THEN "live" ELSE storage[<<w, i>>]
        BY <1>0, <3>1
      <3>6. ASSUME NEW v \in Workers \ {w}
            PROVE  (IdleInv(v) /\ EnqueueInv(v) /\ WaitInv(v) /\ ReplyInv(v) /\ DoneInv(v))'
        <4>1. IdleInv(v) /\ EnqueueInv(v) /\ WaitInv(v) /\ ReplyInv(v) /\ DoneInv(v)
          BY <1>0
        <4>2. /\ \A i \in Items : storage'[<<v, i>>] = storage[<<v, i>>]
              /\ pc'[v] = pc[v] /\ item'[v] = item[v]
              /\ items'[v] = items[v] /\ status'[v] = status[v]
          BY <3>3, <3>4
        <4>3. QED
          BY <4>1, <4>2
      <3>7. (IdleInv(w) /\ EnqueueInv(w) /\ WaitInv(w) /\ ReplyInv(w) /\ DoneInv(w))'
        <4>1. CASE item[w] < items[w]
          <5>1. pc'[w] = "enqueue" /\ item'[w] = item[w] + 1
            BY <1>0, <3>0, <3>2, <4>1 DEF NextItem
          <5>2. QED
            BY <1>0, <3>0, <3>4, <3>5, <4>1, <5>1
        <4>2. CASE ~ (item[w] < items[w])
          <5>1. pc'[w] = "wait" /\ item'[w] = 1 /\ item[w] = items[w]
            BY <1>0, <3>0, <3>2, <4>2 DEF NextItem
          <5>2. QED
            BY <1>0, <3>0, <3>4, <3>5, <5>1
        <4>3. QED
          BY <4>1, <4>2
      <3>8. QED
        BY <3>6, <3>7
    <2>4. CASE EnqueueFails(w)
      BY <1>0, <2>4 DEF EnqueueFails, Fault, Current, Finish
    <2>5. CASE ReadItem(w)
      <3>0. item[w] \in Items /\ items[w] \in Items /\ pc[w] = "wait"
            /\ item[w] <= items[w] /\ Current(w) = <<w, item[w]>>
        BY <1>0, <2>5 DEF ReadItem, ReadItemLeaving, Current
      <3>1. storage' = [storage EXCEPT ![<<w, item[w]>>] = "freed"]
        BY <3>0, <2>5 DEF ReadItem, ReadItemLeaving
      <3>2. NextItem(w, "reply")
        BY <2>5 DEF ReadItem, ReadItemLeaving
      <3>3. \A v \in Workers \ {w} :
                /\ pc'[v] = pc[v] /\ item'[v] = item[v]
                /\ \A i \in Items : storage'[<<v, i>>] = storage[<<v, i>>]
        BY <1>0, <3>1, <3>2 DEF NextItem
      <3>4. items' = items /\ status' = status
        BY <2>5 DEF ReadItem, ReadItemLeaving
      <3>5. \A i \in Items :
                storage'[<<w, i>>] = IF i = item[w] THEN "freed" ELSE storage[<<w, i>>]
        BY <1>0, <3>1
      <3>6. ASSUME NEW v \in Workers \ {w}
            PROVE  (IdleInv(v) /\ EnqueueInv(v) /\ WaitInv(v) /\ ReplyInv(v) /\ DoneInv(v))'
        <4>1. IdleInv(v) /\ EnqueueInv(v) /\ WaitInv(v) /\ ReplyInv(v) /\ DoneInv(v)
          BY <1>0
        <4>2. /\ \A i \in Items : storage'[<<v, i>>] = storage[<<v, i>>]
              /\ pc'[v] = pc[v] /\ item'[v] = item[v]
              /\ items'[v] = items[v] /\ status'[v] = status[v]
          BY <3>3, <3>4
        <4>3. QED
          BY <4>1, <4>2
      <3>7. (IdleInv(w) /\ EnqueueInv(w) /\ WaitInv(w) /\ ReplyInv(w) /\ DoneInv(w))'
        <4>1. CASE item[w] < items[w]
          <5>1. pc'[w] = "wait" /\ item'[w] = item[w] + 1
            BY <1>0, <3>0, <3>2, <4>1 DEF NextItem
          <5>2. QED
            BY <1>0, <3>0, <3>4, <3>5, <4>1, <5>1
        <4>2. CASE ~ (item[w] < items[w])
          <5>1. pc'[w] = "reply" /\ item'[w] = 1 /\ item[w] = items[w]
            BY <1>0, <3>0, <3>2, <4>2 DEF NextItem
          <5>2. QED
            BY <1>0, <3>0, <3>4, <3>5, <5>1
        <4>3. QED
          BY <4>1, <4>2
      <3>8. QED
        BY <3>6, <3>7
    <2>6. CASE FormatFails(w)
      BY <1>0, <2>6 DEF FormatFails, Fault, Current, Finish
    <2>7. CASE Reply(w)
      BY <1>0, <2>7 DEF Reply, Finish
    <2>8. QED
      BY <1>1, <2>1, <2>2, <2>3, <2>4, <2>5, <2>6, <2>7 DEF Worker
  <1>2. ASSUME NEW q \in Queries, QueryStep(q)
        PROVE  WorkerInv'
    <2>1. CASE Send(q)
      BY <1>0, <2>1 DEF Send, Service!Take, Service!Dispatch, Service!Becomes
    <2>2. CASE Fill(q)
      BY <1>0, <2>2 DEF Fill, CallbackStep
    <2>3. CASE Clear(q)
      BY <1>0, <2>3 DEF Clear, CallbackStep
    <2>4. CASE Answer(q)
      BY <1>0, <2>4 DEF Answer
    <2>5. CASE QueryFails(q)
      BY <1>0, <2>5 DEF QueryFails, Fault
    <2>6. QED
      BY <1>2, <2>1, <2>2, <2>3, <2>4, <2>5 DEF QueryStep
  <1>3. CASE Terminate
    BY <1>0, <1>3 DEF Terminate
  <1>4. CASE ServerStops
    BY <1>0, <1>4 DEF ServerStops, ServerStopsWhen
  <1>5. CASE StopThreads
    BY <1>0, <1>5 DEF StopThreads, Service!Close
  <1>6. CASE Release
    BY <1>0, <1>6 DEF Release, Service!Discard
  <1>7. CASE UNCHANGED vars
    BY <1>0, <1>7 DEF vars
  <1>8. ASSUME NEW q \in Queries, GetStuck(q)
        PROVE  WorkerInv'
    BY <1>0, <1>8 DEF GetStuck
  <1>9. CASE ThreadFails
    BY <1>0, <1>9 DEF ThreadFails, Fault
  <1>10. CASE JoinHangs
    BY <1>0, <1>10 DEF JoinHangs
  <1>11. QED
    BY <1>1, <1>2, <1>3, <1>4, <1>5, <1>6, <1>7, <1>8, <1>9, <1>10 DEF Next

LEMMA StepServer ==
  ASSUME SafeInv, [Next]_vars
  PROVE  ServerInv'
  <1> USE DEF ServerInv, NobodyAwaitsDiscarded, TypeOK, storageVars, workerVars, lossVars
  <1>0. TypeOK /\ ServerInv /\ \A w \in Workers, i \in Items : <<w, i>> \in Queries
    BY Pairs DEF SafeInv
  <1>1. ASSUME NEW w \in Workers, Worker(w)
        PROVE  ServerInv'
    <2>1. CASE Refuse(w)
      BY <1>0, <2>1 DEF Refuse, Finish
    <2>2. CASE Accept(w)
      <3>1. \A i \in Items : outcome[<<w, i>>] = "new"
        <4>1. \A i \in Items : storage[<<w, i>>] = "none"
          BY <2>2 DEF SafeInv, WorkerInv, IdleInv, Accept
        <4>2. QED
          BY <1>0, <4>1 DEF SafeInv, QueryInv
      <3>2. QED
        BY <1>0, <2>2, <3>1 DEF Accept
    <2>3. CASE EnqueueItem(w)
      BY <1>0, <2>3 DEF EnqueueItem, NextItem, Current, Service!Submit, Service!Becomes
    <2>4. CASE EnqueueFails(w)
      BY <1>0, <2>4 DEF EnqueueFails, Fault, Current, Finish
    <2>5. CASE ReadItem(w)
      BY <1>0, <2>5 DEF ReadItem, ReadItemLeaving, NextItem, Current
    <2>6. CASE FormatFails(w)
      BY <1>0, <2>6 DEF FormatFails, Fault, Current, Finish
    <2>7. CASE Reply(w)
      BY <1>0, <2>7 DEF Reply, Finish
    <2>8. QED
      BY <1>1, <2>1, <2>2, <2>3, <2>4, <2>5, <2>6, <2>7 DEF Worker
  <1>2. ASSUME NEW q \in Queries, QueryStep(q)
        PROVE  ServerInv'
    <2>1. CASE Send(q)
      BY <1>0, <2>1 DEF Send, Service!Take, Service!Dispatch, Service!Becomes
    <2>2. CASE Fill(q)
      BY <1>0, <2>2 DEF Fill, CallbackStep
    <2>3. CASE Clear(q)
      BY <1>0, <2>3 DEF Clear, CallbackStep
    <2>4. CASE Answer(q)
      BY <1>0, <2>4 DEF Answer
    <2>5. CASE QueryFails(q)
      BY <1>0, <2>5 DEF QueryFails, Fault
    <2>6. QED
      BY <1>2, <2>1, <2>2, <2>3, <2>4, <2>5 DEF QueryStep
  <1>3. CASE Terminate
    BY <1>0, <1>3 DEF Terminate
  <1>4. CASE ServerStops
    BY <1>0, <1>4 DEF ServerStops, ServerStopsWhen
  <1>5. CASE StopThreads
    BY <1>0, <1>5 DEF StopThreads, Service!Close
  <1>6. CASE Release
    BY <1>0, <1>6 DEF Release, Service!Discard
  <1>7. CASE UNCHANGED vars
    BY <1>0, <1>7 DEF vars
  <1>8. ASSUME NEW q \in Queries, GetStuck(q)
        PROVE  ServerInv'
    BY <1>0, <1>8 DEF GetStuck
  <1>9. CASE ThreadFails
    BY <1>0, <1>9 DEF ThreadFails, Fault
  <1>10. CASE JoinHangs
    BY <1>0, <1>10 DEF JoinHangs
  <1>11. QED
    BY <1>1, <1>2, <1>3, <1>4, <1>5, <1>6, <1>7, <1>8, <1>9, <1>10 DEF Next

(* The inductive invariant holds, for any number of workers, items and        *)
(* failures.                                                                *)
THEOREM SafeInvariant == Spec => []SafeInv
  <1>1. ASSUME SafeInv, [Next]_vars
        PROVE  SafeInv'
    BY <1>1, StepType, StepQuery, StepWorker, StepServer DEF SafeInv
  <1>2. QED
    BY InitSafe, <1>1, PTL DEF Spec

(* The storages, the workers and the server keep their types.                *)
THEOREM TypeCorrect == Spec => []TypeOK
  <1>1. SafeInv => TypeOK
    BY DEF SafeInv
  <1>2. QED
    BY <1>1, SafeInvariant, PTL

(* No callback of the query service writes into a storage that its worker has *)
(* freed, on any of the ways out of a request (emiss_resource.c:597, 689).    *)
THEOREM CallbackOnLiveStorageCorrect == Spec => []CallbackOnLiveStorage
  <1>1. SafeInv => CallbackOnLiveStorage
    BY DEF SafeInv, QueryInv, TypeOK, CallbackOnLiveStorage
  <1>2. QED
    BY <1>1, SafeInvariant, PTL

(* What a worker reads and frees is a complete answer: the callback is through. *)
THEOREM ReadsCompleteCorrect == Spec => []ReadsComplete
  <1>1. SafeInv => ReadsComplete
    BY DEF SafeInv, QueryInv, ReadsComplete
  <1>2. QED
    BY <1>1, SafeInvariant, PTL

(* A request that is not answered with an error leaves no storage behind.     *)
THEOREM LeakOnlyAfterErrorCorrect == Spec => []LeakOnlyAfterError
  <1>1. SafeInv => LeakOnlyAfterError
    BY DEF SafeInv, WorkerInv, DoneInv, LeakOnlyAfterError
  <1>2. QED
    BY <1>1, SafeInvariant, PTL

(* The context is freed after the server has stopped, so no worker waits for a *)
(* query that has been discarded.                                           *)
THEOREM NobodyAwaitsDiscardedCorrect == Spec => []NobodyAwaitsDiscarded
  <1>1. SafeInv => NobodyAwaitsDiscarded
    BY DEF SafeInv, ServerInv
  <1>2. QED
    BY <1>1, SafeInvariant, PTL

===============================================================================
