-------------------------- MODULE SendPollLoopProofs --------------------------
(***************************************************************************)
(* Proofs about SendPollLoop, for any sets of threads and queries, any     *)
(* number of connections per thread and any number of failures.  The       *)
(* invariants below follow the code: what topoll counts at each point of   *)
(* the loop, whom a query belongs to at each stage of its life, and what   *)
(* the stop may rely on.                                                   *)
(***************************************************************************)
EXTENDS SendPollLoop, FiniteSetTheorems, TLAPS

(* The first n connections, as far as they wait for an answer.              *)
Upto(io, n) == {c \in 1..n : io[c] = "WAIT"}

(* topoll counts the connections the pass has come past: none before the     *)
(* first, the current one from its result on.                               *)
CountAt(t) ==
    /\ pc[t] = "open" => topoll[t] = 0 /\ \A c \in Conns : iostate[t][c] = "IDLE"
    /\ pc[t] = "test" => topoll[t] = Cardinality(Upto(iostate[t], NConn))
    /\ pc[t] = "conn" => topoll[t] = Cardinality(Upto(iostate[t], conn[t] - 1))
    /\ pc[t] \in {"feed", "starved", "send", "advance"} =>
           topoll[t] = Cardinality(Upto(iostate[t], conn[t]))
    /\ pc[t] = "send" => iostate[t][conn[t]] = "IDLE"
    /\ pc[t] = "done" => \A c \in Conns : iostate[t][c] # "WAIT"

CountInv == \A t \in Threads : CountAt(t)

(* A query that was taken is in the hand of one thread that is about to send *)
(* it, and the queue lock is held for a blocking one.                       *)
HandInv ==
    /\ \A t \in Threads :
          /\ pc[t] = "send" <=> hand[t] # NULL
          /\ hand[t] # NULL => outcome[hand[t]] = "taken"
          /\ hand[t] \in Blocking <=> barrier = t
          /\ \A u \in Threads : hand[t] = hand[u] /\ hand[t] # NULL => t = u
    /\ \A q \in Queries : outcome[q] = "taken" => \E t \in Threads : hand[t] = q
    /\ \A q \in Blocking : outcome[q] # "sent"

(* A query in flight is in the slot of one connection, which waits for it    *)
(* or was given up with it.                                                 *)
SlotInv ==
    /\ \A t \in Threads, c \in Conns :
          /\ iostate[t][c] = "IDLE" => qr_dt[t][c] = NULL
          /\ iostate[t][c] = "WAIT" => qr_dt[t][c] # NULL
          /\ qr_dt[t][c] # NULL => outcome[qr_dt[t][c]] = "sent"
          /\ \A u \in Threads, d \in Conns :
                qr_dt[t][c] = qr_dt[u][d] /\ qr_dt[t][c] # NULL => t = u /\ c = d
    /\ \A q \in Queries : outcome[q] = "sent" =>
          \E t \in Threads, c \in Conns : qr_dt[t][c] = q

(* The queue is what is left of the log, and holds the queries that are      *)
(* queued; every query is enqueued once.                                    *)
Gone == Len(log) - Len(queue)

QueueInv ==
    /\ Len(queue) <= Len(log)
    /\ \A i \in 1..Len(queue) : queue[i] = log[Gone + i]
    /\ \A i \in 1..Len(log) :
          /\ outcome[log[i]] # "new"
          /\ outcome[log[i]] = "queued" <=> i > Gone
    /\ \A i, j \in 1..Len(log) : log[i] = log[j] => i = j

(* After the join nothing runs and nothing is queued; without a failure no   *)
(* connection is given up.                                                  *)
EndInv ==
    /\ joined => /\ ~ thread_continue
                 /\ \A t \in Threads : pc[t] = "done"
                 /\ \A q \in Queries : outcome[q] # "queued"
    /\ faults = 0 => \A t \in Threads, c \in Conns :
          iostate[t][c] # "ERROR" /\ revents[t][c] \in {"none", "input"}

LoopInv == TypeOK /\ CountInv /\ HandInv /\ SlotInv /\ QueueInv /\ BarrierOrder /\ EndInv

SingleThread == \A t, u \in Threads : t = u

(* What a lone thread believes of the queue between two looks at it.          *)
SnapshotInv ==
    \A t \in Threads :
        /\ pc[t] # "starved"
        /\ pc[t] \in {"test", "poll", "conn", "feed"} /\ ~ empty[t] => ~ IsEmpty

-----------------------------------------------------------------------------
(* Counting                                                                 *)

LEMMA UptoNone ==
  ASSUME NEW io, NEW n \in Nat, \A c \in 1..n : io[c] # "WAIT"
  PROVE  Cardinality(Upto(io, n)) = 0
  <1>1. Upto(io, n) = {}
    BY DEF Upto
  <1>2. QED
    BY <1>1, FS_EmptySet

LEMMA UptoBound ==
  ASSUME NEW io, NEW n \in Nat
  PROVE  IsFiniteSet(Upto(io, n)) /\ Cardinality(Upto(io, n)) \in 0..n
  <1>1. IsFiniteSet(1..n) /\ Cardinality(1..n) = n
    BY FS_Interval
  <1>2. Upto(io, n) \subseteq 1..n
    BY DEF Upto
  <1>3. IsFiniteSet(Upto(io, n)) /\ Cardinality(Upto(io, n)) <= n
    BY <1>1, <1>2, FS_Subset
  <1>4. QED
    BY <1>3, FS_CardinalityType

(* The count goes on by one connection, in the state jo of the connections.  *)
LEMMA UptoNext ==
  ASSUME NEW io, NEW jo, NEW n \in Nat \ {0}, \A c \in 1..(n - 1) : jo[c] = io[c]
  PROVE  Cardinality(Upto(jo, n)) =
             Cardinality(Upto(io, n - 1)) + (IF jo[n] = "WAIT" THEN 1 ELSE 0)
  <1>1. Cardinality(Upto(io, n - 1)) \in Nat /\ IsFiniteSet(Upto(io, n - 1))
    BY UptoBound
  <1>2. CASE jo[n] = "WAIT"
    <2>1. Upto(jo, n) = Upto(io, n - 1) \cup {n} /\ n \notin Upto(io, n - 1)
      BY <1>2 DEF Upto
    <2>2. QED
      BY <1>1, <1>2, <2>1, FS_AddElement
  <1>3. CASE jo[n] # "WAIT"
    <2>1. Upto(jo, n) = Upto(io, n - 1)
      BY <1>3 DEF Upto
    <2>2. QED
      BY <1>1, <1>3, <2>1
  <1>4. QED
    BY <1>2, <1>3

-----------------------------------------------------------------------------
(* What steps leave alone                                                   *)

(* The steps of a thread that touch no query.                               *)
Bookkeeping(t) ==
    \/ Open(t) \/ OpenFails(t) \/ LoopTest(t) \/ Poll(t) \/ PollFails(t)
    \/ InputFails(t) \/ ConnError(t) \/ Quiet(t) \/ DequeueStarves(t) \/ SkipFeed(t)
    \/ Advance(t) \/ Exit(t) \/ FreeThread(t)

LEMMA ThreadStepKinds ==
  ASSUME NEW t \in Threads
  PROVE  ThreadStep(t) <=> \/ Bookkeeping(t) \/ Input(t) \/ ConnInvalid(t)
                           \/ Dequeue(t) \/ Send(t) \/ SendFails(t)
  BY DEF ThreadStep, Bookkeeping

LEMMA BookkeepingKeeps ==
  ASSUME TypeOK, NEW t \in Threads, Bookkeeping(t)
  PROVE  /\ UNCHANGED <<queue, barrier, hand, outcome, log, qr_dt, mainVars>>
         /\ pc[t] # "send" /\ pc'[t] # "send" /\ pc[t] # "done"
         /\ \A u \in Threads \ {t} : pc'[u] = pc[u]
  <1> USE DEF TypeOK, Goto, connVars
  <1>1. CASE Open(t)
    BY <1>1 DEF Open
  <1>2. CASE OpenFails(t)
    BY <1>2 DEF OpenFails
  <1>3. CASE LoopTest(t)
    BY <1>3 DEF LoopTest, LoopTestWith
  <1>4. CASE Poll(t)
    BY <1>4 DEF Poll, PollInto
  <1>5. CASE PollFails(t)
    BY <1>5 DEF PollFails
  <1>6. CASE InputFails(t)
    BY <1>6 DEF InputFails
  <1>7. CASE ConnError(t)
    BY <1>7 DEF ConnError
  <1>8. CASE Quiet(t)
    BY <1>8 DEF Quiet
  <1>9. CASE DequeueStarves(t)
    BY <1>9 DEF DequeueStarves
  <1>10. CASE SkipFeed(t)
    BY <1>10 DEF SkipFeed
  <1>11. CASE Advance(t)
    BY <1>11 DEF Advance, AdvanceSeeing
  <1>12. CASE Exit(t)
    BY <1>12 DEF Exit
  <1>13. CASE FreeThread(t)
    BY <1>13 DEF FreeThread
  <1>14. QED
    BY <1>1, <1>2, <1>3, <1>4, <1>5, <1>6, <1>7, <1>8, <1>9, <1>10, <1>11, <1>12,
       <1>13 DEF Bookkeeping

(* A thread changes nothing of another.                                     *)
LEMMA OthersStay ==
  ASSUME TypeOK, NEW t \in Threads, ThreadStep(t), NEW u \in Threads, u # t
  PROVE  /\ pc'[u] = pc[u] /\ conn'[u] = conn[u] /\ empty'[u] = empty[u]
         /\ topoll'[u] = topoll[u] /\ iostate'[u] = iostate[u] /\ qr_dt'[u] = qr_dt[u]
         /\ hand'[u] = hand[u] /\ revents'[u] = revents[u]
  <1> USE DEF TypeOK, Goto, Set, SetConn, loopVars, connVars
  <1>1. CASE Open(t)
    BY <1>1 DEF Open
  <1>2. CASE OpenFails(t)
    BY <1>2 DEF OpenFails
  <1>3. CASE LoopTest(t)
    BY <1>3 DEF LoopTest, LoopTestWith
  <1>4. CASE Poll(t)
    BY <1>4 DEF Poll, PollInto
  <1>5. CASE PollFails(t)
    BY <1>5 DEF PollFails
  <1>6. CASE Input(t)
    BY <1>6 DEF Input, InputLeaving
  <1>7. CASE InputFails(t)
    BY <1>7 DEF InputFails
  <1>8. CASE ConnError(t)
    BY <1>8 DEF ConnError
  <1>9. CASE ConnInvalid(t)
    BY <1>9 DEF ConnInvalid
  <1>10. CASE Quiet(t)
    BY <1>10 DEF Quiet
  <1>11. CASE Dequeue(t)
    BY <1>11 DEF Dequeue, DequeueUnder
  <1>12. CASE DequeueStarves(t)
    BY <1>12 DEF DequeueStarves
  <1>13. CASE Send(t)
    BY <1>13 DEF Send, SendCounting
  <1>14. CASE SendFails(t)
    BY <1>14 DEF SendFails
  <1>15. CASE SkipFeed(t)
    BY <1>15 DEF SkipFeed
  <1>16. CASE Advance(t)
    BY <1>16 DEF Advance, AdvanceSeeing
  <1>17. CASE Exit(t)
    BY <1>17 DEF Exit
  <1>18. CASE FreeThread(t)
    BY <1>18 DEF FreeThread
  <1>19. QED
    BY <1>1, <1>2, <1>3, <1>4, <1>5, <1>6, <1>7, <1>8, <1>9, <1>10, <1>11, <1>12,
       <1>13, <1>14, <1>15, <1>16, <1>17, <1>18 DEF ThreadStep

-----------------------------------------------------------------------------
(* Types                                                                    *)

LEMMA SetConnType ==
  ASSUME NEW S, NEW f \in [Threads -> [Conns -> S]], NEW t \in Threads, NEW v \in S
  PROVE  SetConn(f, t, v) \in [Threads -> [Conns -> S]]
  <1>1. [f[t] EXCEPT ![conn[t]] = v] \in [Conns -> S]
    OBVIOUS
  <1>2. SetConn(f, t, v) = [f EXCEPT ![t] = [f[t] EXCEPT ![conn[t]] = v]]
    BY DEF SetConn
  <1>3. QED
    BY <1>1, <1>2

LEMMA ConnTypes ==
  ASSUME TypeOK, NEW t \in Threads, NEW q \in Queries \cup {NULL}
  PROVE  /\ SetConn(iostate, t, "IDLE") \in [Threads -> [Conns -> {"IDLE", "WAIT", "ERROR"}]]
         /\ SetConn(iostate, t, "WAIT") \in [Threads -> [Conns -> {"IDLE", "WAIT", "ERROR"}]]
         /\ SetConn(iostate, t, "ERROR") \in [Threads -> [Conns -> {"IDLE", "WAIT", "ERROR"}]]
         /\ SetConn(qr_dt, t, q) \in [Threads -> [Conns -> Queries \cup {NULL}]]
  <1>1. /\ iostate \in [Threads -> [Conns -> {"IDLE", "WAIT", "ERROR"}]]
        /\ qr_dt \in [Threads -> [Conns -> Queries \cup {NULL}]]
    BY DEF TypeOK
  <1> DEFINE States == {"IDLE", "WAIT", "ERROR"}
  <1>2. /\ "IDLE" \in States /\ "WAIT" \in States /\ "ERROR" \in States
        /\ iostate \in [Threads -> [Conns -> States]]
    BY <1>1
  <1> HIDE DEF States
  <1>3. /\ SetConn(iostate, t, "IDLE") \in [Threads -> [Conns -> States]]
        /\ SetConn(iostate, t, "WAIT") \in [Threads -> [Conns -> States]]
        /\ SetConn(iostate, t, "ERROR") \in [Threads -> [Conns -> States]]
    BY <1>2, SetConnType
  <1>4. SetConn(qr_dt, t, q) \in [Threads -> [Conns -> Queries \cup {NULL}]]
    BY <1>1, SetConnType
  <1>5. QED
    BY <1>3, <1>4 DEF States

LEMMA SetSubsetType ==
  ASSUME NEW f \in [Threads -> SUBSET Conns], NEW t \in Threads, NEW v \in SUBSET Conns
  PROVE  Set(f, t, v) \in [Threads -> SUBSET Conns]
  BY DEF Set

LEMMA FailuresFinite ==
  ASSUME NEW r
  PROVE  IsFiniteSet({c \in Conns : r[c] \in {"error", "invalid"}})
  <1>1. IsFiniteSet(Conns)
    BY LoopAssumption, FS_Interval DEF Conns
  <1>2. QED
    BY <1>1, FS_Subset

LEMMA TypeInit == Init => TypeOK
  <1> SUFFICES ASSUME Init
               PROVE  TypeOK
    OBVIOUS
  <1> USE DEF Init
  <1>1. /\ queue \in Seq(Queries) /\ log \in Seq(Queries)
        /\ barrier \in Threads \cup {NULL}
        /\ thread_continue \in BOOLEAN /\ joined \in BOOLEAN
    <2>1. queue \in Seq(Queries) /\ log \in Seq(Queries)
      OBVIOUS
    <2>2. barrier \in Threads \cup {NULL}
      OBVIOUS
    <2>3. thread_continue \in BOOLEAN /\ joined \in BOOLEAN
      OBVIOUS
    <2>4. QED
      BY <2>1, <2>2, <2>3
  <1>2. pc \in [Threads -> Pcs] /\ empty \in [Threads -> BOOLEAN]
    BY DEF Pcs
  <1>3. conn \in [Threads -> Conns]
    <2>1. 1 \in Conns
      BY LoopAssumption DEF Conns
    <2>2. QED
      BY <2>1
  <1>4. topoll \in [Threads -> 0..NConn]
    <2>1. 0 \in 0..NConn
      BY LoopAssumption
    <2>2. QED
      BY <2>1
  <1>5. /\ pass_err \in [Threads -> BOOLEAN] /\ died \in [Threads -> BOOLEAN]
        /\ err_total \in [Threads -> {"unset", "none", "some"}]
        /\ thread_state \in [Threads -> {"NONE", "IDLE", "BUSY", "SUCC", "FAIL"}]
    OBVIOUS
  <1>6. /\ iostate \in [Threads -> [Conns -> {"IDLE", "WAIT", "ERROR"}]]
        /\ qr_dt \in [Threads -> [Conns -> Queries \cup {NULL}]]
    OBVIOUS
  <1>7. /\ watched \in [Threads -> SUBSET Conns] /\ lost \in [Threads -> SUBSET Conns]
        /\ revents \in [Threads -> [Conns -> {"none", "input", "error", "invalid"}]]
        /\ hand \in [Threads -> Queries \cup {NULL}]
    OBVIOUS
  <1>8. /\ outcome \in [Queries -> {"new", "queued", "taken", "sent"} \cup Final]
        /\ faults \in 0..MaxFaults
    BY LoopAssumption DEF Final
  <1>9. QED
    BY <1>1, <1>2, <1>3, <1>4, <1>5, <1>6, <1>7, <1>8 DEF TypeOK

(* topoll' is typed by what it counts, see StepCount.                        *)
LEMMA TypeThread ==
  ASSUME TypeOK, NEW t \in Threads, ThreadStep(t), topoll' \in [Threads -> 0..NConn]
  PROVE  TypeOK'
  <1> USE DEF TypeOK, Goto, Set, Fault, mainVars, loopVars, connVars, Pcs, Final, Carried
  <1>0. TypeOK /\ t \in Threads /\ topoll' \in [Threads -> 0..NConn] /\ LoopAssumption
    BY LoopAssumption
  <1>1. CASE Open(t)
    BY <1>0, <1>1 DEF Open, IsEmpty, LoopAssumption, SetConn
  <1>2. CASE OpenFails(t)
    BY <1>0, <1>2 DEF OpenFails, LoopAssumption, SetConn
  <1>3. CASE LoopTest(t)
    BY <1>0, <1>3 DEF LoopTest, LoopTestWith, LoopAssumption, SetConn
  <1>4. CASE Poll(t)
    <2>1. /\ queue' \in Seq(Queries) /\ log' \in Seq(Queries) /\ barrier' \in Threads \cup {NULL}
          /\ thread_continue' \in BOOLEAN /\ joined' \in BOOLEAN
          /\ outcome' \in [Queries -> {"new", "queued", "taken", "sent"} \cup Final]
      <3>1. UNCHANGED <<queue, log, barrier, mainVars, outcome>>
        BY <1>4 DEF Poll, PollInto
      <3>2. QED
        BY <1>0, <3>1
    <2>2. /\ pc' \in [Threads -> Pcs] /\ conn' \in [Threads -> Conns]
          /\ empty' \in [Threads -> BOOLEAN]
      <3>1. /\ UNCHANGED empty /\ conn' = Set(conn, t, 1)
            /\ pc' = [pc EXCEPT ![t] = "conn"]
        BY <1>4 DEF Poll, PollInto
      <3>2. 1 \in Conns
        BY LoopAssumption DEF Conns
      <3>3. QED
        BY <1>0, <3>1, <3>2
    <2>3. /\ pass_err' \in [Threads -> BOOLEAN] /\ died' \in [Threads -> BOOLEAN]
          /\ err_total' \in [Threads -> {"unset", "none", "some"}]
          /\ thread_state' \in [Threads -> {"NONE", "IDLE", "BUSY", "SUCC", "FAIL"}]
      BY <1>0, <1>4 DEF Poll, PollInto, LoopAssumption, SetConn
    <2>4. iostate' \in [Threads -> [Conns -> {"IDLE", "WAIT", "ERROR"}]]
      BY <1>0, <1>4 DEF Poll, PollInto, LoopAssumption, SetConn
    <2>5. watched' \in [Threads -> SUBSET Conns] /\ lost' \in [Threads -> SUBSET Conns]
      BY <1>0, <1>4 DEF Poll, PollInto, LoopAssumption, SetConn
    <2>6. /\ qr_dt' \in [Threads -> [Conns -> Queries \cup {NULL}]]
          /\ hand' \in [Threads -> Queries \cup {NULL}]
      BY <1>0, <1>4 DEF Poll, PollInto, LoopAssumption, SetConn
    <2>7. /\ revents' \in [Threads -> [Conns -> {"none", "input", "error", "invalid"}]]
          /\ faults' \in 0..MaxFaults
      <3>1. PICK r \in [Conns -> {"none", "input", "error", "invalid"}] :
               /\ Fault(Cardinality({c \in Conns : r[c] \in {"error", "invalid"}}))
               /\ revents' = Set(revents, t, r)
        BY <1>4 DEF Poll, PollInto
      <3>2. Cardinality({c \in Conns : r[c] \in {"error", "invalid"}}) \in Nat
        BY FailuresFinite, FS_CardinalityType
      <3>3. faults' \in 0..MaxFaults
        BY <1>0, <3>1, <3>2, LoopAssumption DEF Fault
      <3>4. QED
        BY <1>0, <3>1, <3>3
    <2>8. QED
      BY <1>0, <2>1, <2>2, <2>3, <2>4, <2>5, <2>6, <2>7
  <1>5. CASE PollFails(t)
    BY <1>0, <1>5 DEF PollFails, LoopAssumption, SetConn
  <1>6. CASE Input(t)
    BY <1>0, <1>6 DEF Input, InputLeaving, LoopAssumption, SetConn
  <1>7. CASE InputFails(t)
    BY <1>0, <1>7 DEF InputFails, LoopAssumption, SetConn
  <1>8. CASE ConnError(t)
    BY <1>0, <1>8 DEF ConnError, LoopAssumption, SetConn
  <1>9. CASE ConnInvalid(t)
    <2>1. /\ queue' \in Seq(Queries) /\ log' \in Seq(Queries) /\ barrier' \in Threads \cup {NULL}
          /\ thread_continue' \in BOOLEAN /\ joined' \in BOOLEAN
          /\ outcome' \in [Queries -> {"new", "queued", "taken", "sent"} \cup Final]
      BY <1>0, <1>9 DEF ConnInvalid, LoopAssumption, SetConn
    <2>2. /\ pc' \in [Threads -> Pcs] /\ conn' \in [Threads -> Conns]
          /\ empty' \in [Threads -> BOOLEAN]
      BY <1>0, <1>9 DEF ConnInvalid, LoopAssumption, SetConn
    <2>3. /\ pass_err' \in [Threads -> BOOLEAN] /\ died' \in [Threads -> BOOLEAN]
          /\ err_total' \in [Threads -> {"unset", "none", "some"}]
          /\ thread_state' \in [Threads -> {"NONE", "IDLE", "BUSY", "SUCC", "FAIL"}]
      BY <1>0, <1>9 DEF ConnInvalid, LoopAssumption, SetConn
    <2>4. iostate' \in [Threads -> [Conns -> {"IDLE", "WAIT", "ERROR"}]]
      <3>1. iostate' = SetConn(iostate, t, "IDLE") \/ iostate' = SetConn(iostate, t, "ERROR")
        BY <1>9 DEF ConnInvalid
      <3>2. /\ SetConn(iostate, t, "IDLE") \in [Threads -> [Conns -> {"IDLE", "WAIT", "ERROR"}]]
            /\ SetConn(iostate, t, "WAIT") \in [Threads -> [Conns -> {"IDLE", "WAIT", "ERROR"}]]
            /\ SetConn(iostate, t, "ERROR") \in [Threads -> [Conns -> {"IDLE", "WAIT", "ERROR"}]]
        BY <1>0, ConnTypes
      <3>3. QED
        BY <1>0, <3>1, <3>2
    <2>5. watched' \in [Threads -> SUBSET Conns] /\ lost' \in [Threads -> SUBSET Conns]
      <3>1. \/ UNCHANGED <<watched, lost>>
            \/ /\ watched' = Set(watched, t, watched[t] \ {conn[t]})
               /\ lost' = Set(lost, t, lost[t] \cup {conn[t]})
        BY <1>9 DEF ConnInvalid
      <3>2. watched[t] \ {conn[t]} \in SUBSET Conns /\ lost[t] \cup {conn[t]} \in SUBSET Conns
        <4>1. conn[t] \in Conns /\ watched[t] \in SUBSET Conns /\ lost[t] \in SUBSET Conns
          BY <1>0
        <4>2. QED
          BY <4>1
      <3>3. CASE UNCHANGED <<watched, lost>>
        BY <1>0, <3>3
      <3>4. CASE /\ watched' = Set(watched, t, watched[t] \ {conn[t]})
                 /\ lost' = Set(lost, t, lost[t] \cup {conn[t]})
        BY <1>0, <3>4, <3>2
      <3>5. QED
        BY <3>1, <3>3, <3>4
    <2>6. /\ qr_dt' \in [Threads -> [Conns -> Queries \cup {NULL}]]
          /\ hand' \in [Threads -> Queries \cup {NULL}]
      BY <1>0, <1>9 DEF ConnInvalid, LoopAssumption, SetConn
    <2>7. /\ revents' \in [Threads -> [Conns -> {"none", "input", "error", "invalid"}]]
          /\ faults' \in 0..MaxFaults
      BY <1>0, <1>9 DEF ConnInvalid, LoopAssumption, SetConn
    <2>8. QED
      BY <1>0, <2>1, <2>2, <2>3, <2>4, <2>5, <2>6, <2>7
  <1>10. CASE Quiet(t)
    BY <1>0, <1>10 DEF Quiet, LoopAssumption, SetConn
  <1>11. CASE Dequeue(t)
    <2>1. /\ queue' \in Seq(Queries) /\ log' \in Seq(Queries) /\ barrier' \in Threads \cup {NULL}
          /\ thread_continue' \in BOOLEAN /\ joined' \in BOOLEAN
          /\ outcome' \in [Queries -> {"new", "queued", "taken", "sent"} \cup Final]
      <3>1. Head(queue) \in Queries /\ Tail(queue) \in Seq(Queries)
        BY <1>0, <1>11 DEF Dequeue, DequeueUnder, IsEmpty
      <3>2. /\ queue' = Tail(queue) /\ log' = log /\ barrier' \in {t, NULL}
            /\ outcome' = Set(outcome, Head(queue), "taken")
        BY <1>11 DEF Dequeue, DequeueUnder
      <3>3. thread_continue' = thread_continue /\ joined' = joined
        BY <1>11 DEF Dequeue, DequeueUnder
      <3>4. QED
        BY <1>0, <3>1, <3>2, <3>3
    <2>2. /\ pc' \in [Threads -> Pcs] /\ conn' \in [Threads -> Conns]
          /\ empty' \in [Threads -> BOOLEAN]
      BY <1>0, <1>11 DEF Dequeue, DequeueUnder, LoopAssumption, SetConn
    <2>3. /\ pass_err' \in [Threads -> BOOLEAN] /\ died' \in [Threads -> BOOLEAN]
          /\ err_total' \in [Threads -> {"unset", "none", "some"}]
          /\ thread_state' \in [Threads -> {"NONE", "IDLE", "BUSY", "SUCC", "FAIL"}]
      BY <1>0, <1>11 DEF Dequeue, DequeueUnder, LoopAssumption, SetConn
    <2>4. iostate' \in [Threads -> [Conns -> {"IDLE", "WAIT", "ERROR"}]]
      BY <1>0, <1>11 DEF Dequeue, DequeueUnder, LoopAssumption, SetConn
    <2>5. watched' \in [Threads -> SUBSET Conns] /\ lost' \in [Threads -> SUBSET Conns]
      BY <1>0, <1>11 DEF Dequeue, DequeueUnder, LoopAssumption, SetConn
    <2>6. /\ qr_dt' \in [Threads -> [Conns -> Queries \cup {NULL}]]
          /\ hand' \in [Threads -> Queries \cup {NULL}]
      <3>1. Head(queue) \in Queries
        BY <1>0, <1>11 DEF Dequeue, DequeueUnder, IsEmpty
      <3>2. qr_dt' = qr_dt /\ hand' = Set(hand, t, Head(queue))
        BY <1>11 DEF Dequeue, DequeueUnder
      <3>3. QED
        BY <1>0, <3>1, <3>2
    <2>7. /\ revents' \in [Threads -> [Conns -> {"none", "input", "error", "invalid"}]]
          /\ faults' \in 0..MaxFaults
      BY <1>0, <1>11 DEF Dequeue, DequeueUnder, LoopAssumption, SetConn
    <2>8. QED
      BY <1>0, <2>1, <2>2, <2>3, <2>4, <2>5, <2>6, <2>7
  <1>12. CASE DequeueStarves(t)
    BY <1>0, <1>12 DEF DequeueStarves, LoopAssumption, SetConn
  <1>13. CASE Send(t)
    <2>1. /\ queue' \in Seq(Queries) /\ log' \in Seq(Queries) /\ barrier' \in Threads \cup {NULL}
          /\ thread_continue' \in BOOLEAN /\ joined' \in BOOLEAN
          /\ outcome' \in [Queries -> {"new", "queued", "taken", "sent"} \cup Final]
      BY <1>0, <1>13 DEF Send, SendCounting, LoopAssumption, SetConn
    <2>2. /\ pc' \in [Threads -> Pcs] /\ conn' \in [Threads -> Conns]
          /\ empty' \in [Threads -> BOOLEAN]
      BY <1>0, <1>13 DEF Send, SendCounting, LoopAssumption, SetConn
    <2>3. /\ pass_err' \in [Threads -> BOOLEAN] /\ died' \in [Threads -> BOOLEAN]
          /\ err_total' \in [Threads -> {"unset", "none", "some"}]
          /\ thread_state' \in [Threads -> {"NONE", "IDLE", "BUSY", "SUCC", "FAIL"}]
      BY <1>0, <1>13 DEF Send, SendCounting, LoopAssumption, SetConn
    <2>4. iostate' \in [Threads -> [Conns -> {"IDLE", "WAIT", "ERROR"}]]
      <3>1. iostate' = iostate \/ iostate' = SetConn(iostate, t, "WAIT")
        BY <1>13 DEF Send, SendCounting
      <3>2. /\ SetConn(iostate, t, "IDLE") \in [Threads -> [Conns -> {"IDLE", "WAIT", "ERROR"}]]
            /\ SetConn(iostate, t, "WAIT") \in [Threads -> [Conns -> {"IDLE", "WAIT", "ERROR"}]]
            /\ SetConn(iostate, t, "ERROR") \in [Threads -> [Conns -> {"IDLE", "WAIT", "ERROR"}]]
        BY <1>0, ConnTypes
      <3>3. QED
        BY <1>0, <3>1, <3>2
    <2>5. watched' \in [Threads -> SUBSET Conns] /\ lost' \in [Threads -> SUBSET Conns]
      <3>1. \/ watched' = Set(watched, t, watched[t] \ {conn[t]})
            \/ watched' = Set(watched, t, watched[t] \cup {conn[t]})
        BY <1>13 DEF Send, SendCounting
      <3>2. watched[t] \ {conn[t]} \in SUBSET Conns /\ watched[t] \cup {conn[t]} \in SUBSET Conns
        <4>1. conn[t] \in Conns /\ watched[t] \in SUBSET Conns
          BY <1>0
        <4>2. QED
          BY <4>1
      <3>3. lost' = lost
        BY <1>13 DEF Send, SendCounting
      <3>4. /\ Set(watched, t, watched[t] \ {conn[t]}) \in [Threads -> SUBSET Conns]
            /\ Set(watched, t, watched[t] \cup {conn[t]}) \in [Threads -> SUBSET Conns]
        BY <1>0, <3>2, SetSubsetType DEF TypeOK
      <3>5. QED
        BY <1>0, <3>1, <3>3, <3>4
    <2>6. /\ qr_dt' \in [Threads -> [Conns -> Queries \cup {NULL}]]
          /\ hand' \in [Threads -> Queries \cup {NULL}]
      <3>1. hand[t] \in Queries \cup {NULL} /\ hand' = Set(hand, t, NULL)
        BY <1>0, <1>13 DEF Send, SendCounting
      <3>2. qr_dt' = qr_dt \/ qr_dt' = SetConn(qr_dt, t, hand[t])
        BY <1>13 DEF Send, SendCounting
      <3>3. SetConn(qr_dt, t, hand[t]) \in [Threads -> [Conns -> Queries \cup {NULL}]]
        BY <1>0, <3>1, ConnTypes
      <3>4. hand' \in [Threads -> Queries \cup {NULL}]
        BY <1>0, <3>1
      <3>5. QED
        BY <1>0, <3>2, <3>3, <3>4
    <2>7. /\ revents' \in [Threads -> [Conns -> {"none", "input", "error", "invalid"}]]
          /\ faults' \in 0..MaxFaults
      BY <1>0, <1>13 DEF Send, SendCounting, LoopAssumption, SetConn
    <2>8. QED
      BY <1>0, <2>1, <2>2, <2>3, <2>4, <2>5, <2>6, <2>7
  <1>14. CASE SendFails(t)
    <2>1. /\ queue' \in Seq(Queries) /\ log' \in Seq(Queries) /\ barrier' \in Threads \cup {NULL}
          /\ thread_continue' \in BOOLEAN /\ joined' \in BOOLEAN
          /\ outcome' \in [Queries -> {"new", "queued", "taken", "sent"} \cup Final]
      BY <1>0, <1>14 DEF SendFails, LoopAssumption, SetConn
    <2>2. /\ pc' \in [Threads -> Pcs] /\ conn' \in [Threads -> Conns]
          /\ empty' \in [Threads -> BOOLEAN]
      BY <1>0, <1>14 DEF SendFails, LoopAssumption, SetConn
    <2>3. /\ pass_err' \in [Threads -> BOOLEAN] /\ died' \in [Threads -> BOOLEAN]
          /\ err_total' \in [Threads -> {"unset", "none", "some"}]
          /\ thread_state' \in [Threads -> {"NONE", "IDLE", "BUSY", "SUCC", "FAIL"}]
      BY <1>0, <1>14 DEF SendFails, LoopAssumption, SetConn
    <2>4. iostate' \in [Threads -> [Conns -> {"IDLE", "WAIT", "ERROR"}]]
      BY <1>0, <1>14 DEF SendFails, LoopAssumption, SetConn
    <2>5. watched' \in [Threads -> SUBSET Conns] /\ lost' \in [Threads -> SUBSET Conns]
      BY <1>0, <1>14 DEF SendFails, LoopAssumption, SetConn
    <2>6. /\ qr_dt' \in [Threads -> [Conns -> Queries \cup {NULL}]]
          /\ hand' \in [Threads -> Queries \cup {NULL}]
      BY <1>0, <1>14 DEF SendFails, LoopAssumption, SetConn
    <2>7. /\ revents' \in [Threads -> [Conns -> {"none", "input", "error", "invalid"}]]
          /\ faults' \in 0..MaxFaults
      BY <1>0, <1>14 DEF SendFails, LoopAssumption, SetConn
    <2>8. QED
      BY <1>0, <2>1, <2>2, <2>3, <2>4, <2>5, <2>6, <2>7
  <1>15. CASE SkipFeed(t)
    BY <1>0, <1>15 DEF SkipFeed, LoopAssumption, SetConn
  <1>16. CASE Advance(t)
    <2>1. /\ queue' \in Seq(Queries) /\ log' \in Seq(Queries) /\ barrier' \in Threads \cup {NULL}
          /\ thread_continue' \in BOOLEAN /\ joined' \in BOOLEAN
          /\ outcome' \in [Queries -> {"new", "queued", "taken", "sent"} \cup Final]
      BY <1>0, <1>16 DEF Advance, AdvanceSeeing, IsEmpty, LoopAssumption, SetConn
    <2>2. /\ pc' \in [Threads -> Pcs] /\ conn' \in [Threads -> Conns]
          /\ empty' \in [Threads -> BOOLEAN]
      <3>1. conn[t] < NConn => conn[t] + 1 \in Conns
        BY <1>0, LoopAssumption DEF Conns
      <3>2. CASE conn[t] < NConn
        <4>1. /\ conn' = Set(conn, t, conn[t] + 1) /\ pc' = [pc EXCEPT ![t] = "conn"]
              /\ empty' = Set(empty, t, queue = <<>>)
          BY <1>16, <3>2 DEF Advance, AdvanceSeeing, IsEmpty
        <4>2. QED
          BY <1>0, <3>1, <3>2, <4>1
      <3>3. CASE ~ (conn[t] < NConn)
        BY <1>0, <1>16, <3>3 DEF Advance, AdvanceSeeing, IsEmpty
      <3>4. QED
        BY <3>2, <3>3
    <2>3. /\ pass_err' \in [Threads -> BOOLEAN] /\ died' \in [Threads -> BOOLEAN]
          /\ err_total' \in [Threads -> {"unset", "none", "some"}]
          /\ thread_state' \in [Threads -> {"NONE", "IDLE", "BUSY", "SUCC", "FAIL"}]
      BY <1>0, <1>16 DEF Advance, AdvanceSeeing, IsEmpty, LoopAssumption, SetConn
    <2>4. iostate' \in [Threads -> [Conns -> {"IDLE", "WAIT", "ERROR"}]]
      BY <1>0, <1>16 DEF Advance, AdvanceSeeing, IsEmpty, LoopAssumption, SetConn
    <2>5. watched' \in [Threads -> SUBSET Conns] /\ lost' \in [Threads -> SUBSET Conns]
      BY <1>0, <1>16 DEF Advance, AdvanceSeeing, IsEmpty, LoopAssumption, SetConn
    <2>6. /\ qr_dt' \in [Threads -> [Conns -> Queries \cup {NULL}]]
          /\ hand' \in [Threads -> Queries \cup {NULL}]
      BY <1>0, <1>16 DEF Advance, AdvanceSeeing, IsEmpty, LoopAssumption, SetConn
    <2>7. /\ revents' \in [Threads -> [Conns -> {"none", "input", "error", "invalid"}]]
          /\ faults' \in 0..MaxFaults
      BY <1>0, <1>16 DEF Advance, AdvanceSeeing, IsEmpty, LoopAssumption, SetConn
    <2>8. QED
      BY <1>0, <2>1, <2>2, <2>3, <2>4, <2>5, <2>6, <2>7
  <1>17. CASE Exit(t)
    BY <1>0, <1>17 DEF Exit, LoopAssumption, SetConn
  <1>18. CASE FreeThread(t)
    BY <1>0, <1>18 DEF FreeThread, LoopAssumption, SetConn
  <1>19. QED
    BY <1>1, <1>2, <1>3, <1>4, <1>5, <1>6, <1>7, <1>8, <1>9, <1>10, <1>11, <1>12,
       <1>13, <1>14, <1>15, <1>16, <1>17, <1>18 DEF ThreadStep

LEMMA TypeOthers ==
  ASSUME TypeOK, \/ \E q \in Queries : Enqueue(q)
                 \/ Stop \/ FreeContext \/ UNCHANGED vars
  PROVE  TypeOK'
  <1> USE DEF TypeOK, mainVars, loopVars, connVars, Set, Final
  <1>1. ASSUME NEW q \in Queries, Enqueue(q)
        PROVE  TypeOK'
    BY <1>1 DEF Enqueue
  <1>2. CASE Stop
    BY <1>2 DEF Stop
  <1>3. CASE FreeContext
    BY <1>3 DEF FreeContext, FreeContextWhen
  <1>4. CASE UNCHANGED vars
    BY <1>4 DEF vars
  <1>5. QED
    BY <1>1, <1>2, <1>3, <1>4

-----------------------------------------------------------------------------
(* topoll                                                                   *)

(* The current connection is settled and does not wait: the count stays.     *)
LEMMA SettledCount ==
  ASSUME TypeOK, NEW t \in Threads, CountAt(t), pc[t] = "conn",
         pc'[t] = "feed", conn'[t] = conn[t], topoll' = topoll,
         NEW s \in {"IDLE", "ERROR"}, iostate' = SetConn(iostate, t, s)
  PROVE  CountAt(t)' /\ topoll' \in [Threads -> 0..NConn]
  <1> DEFINE n == conn[t]
  <1>1. n \in Nat \ {0} /\ n \in Conns
    BY DEF TypeOK, Conns
  <1>2. iostate'[t] = [iostate[t] EXCEPT ![n] = s] /\ iostate[t] \in [Conns -> {"IDLE", "WAIT", "ERROR"}]
    BY DEF TypeOK, SetConn
  <1>3. iostate'[t][n] # "WAIT" /\ \A c \in 1..(n - 1) : iostate'[t][c] = iostate[t][c]
    <2>1. \A c \in 1..(n - 1) : c \in Conns /\ c # n
      BY <1>1, LoopAssumption DEF Conns
    <2>2. QED
      BY <1>1, <1>2, <2>1
  <1>4. Cardinality(Upto(iostate'[t], n)) = Cardinality(Upto(iostate[t], n - 1))
    <2>1. Cardinality(Upto(iostate'[t], n)) = Cardinality(Upto(iostate[t], n - 1)) + 0
      BY <1>1, <1>3, UptoNext
    <2>2. Cardinality(Upto(iostate[t], n - 1)) \in 0..(n - 1)
      BY <1>1, UptoBound
    <2>3. QED
      BY <1>1, <2>1, <2>2
  <1>5. topoll'[t] = Cardinality(Upto(iostate'[t], conn'[t]))
    BY <1>4 DEF CountAt
  <1>6. QED
    BY <1>5 DEF CountAt, TypeOK

LEMMA ThreadCount ==
  ASSUME TypeOK, NEW t \in Threads, CountAt(t), ThreadStep(t)
  PROVE  CountAt(t)' /\ topoll' \in [Threads -> 0..NConn]
  <1> USE DEF Goto, Set, loopVars, connVars
  <1>0. /\ conn[t] \in Nat \ {0} /\ conn[t] <= NConn /\ NConn \in Nat \ {0}
        /\ pc \in [Threads -> Pcs] /\ conn \in [Threads -> Conns]
        /\ topoll \in [Threads -> 0..NConn]
        /\ iostate \in [Threads -> [Conns -> {"IDLE", "WAIT", "ERROR"}]]
    BY LoopAssumption DEF TypeOK, Conns
  <1> DEFINE n == conn[t]
  <1>1. CASE Open(t)
    <2>1. \A c \in 1..NConn : iostate[t][c] # "WAIT"
      BY <1>1 DEF Open, CountAt, Conns
    <2>2. Cardinality(Upto(iostate[t], NConn)) = 0
      BY <1>0, <2>1, UptoNone
    <2>3. QED
      BY <1>0, <1>1, <2>2 DEF Open, CountAt
  <1>2. CASE OpenFails(t)
    BY <1>0, <1>2 DEF OpenFails, CountAt
  <1>3. CASE LoopTest(t)
    BY <1>0, <1>3 DEF LoopTest, LoopTestWith, CountAt
  <1>4. CASE Poll(t)
    <2>1. /\ pc' = [pc EXCEPT ![t] = "conn"] /\ topoll' = [topoll EXCEPT ![t] = 0]
          /\ conn' = [conn EXCEPT ![t] = 1] /\ iostate' = iostate
      BY <1>4 DEF Poll, PollInto
    <2>2. Cardinality(Upto(iostate[t], 0)) = 0
      BY UptoNone
    <2>3. topoll' \in [Threads -> 0..NConn]
      BY <1>0, <2>1
    <2>4. conn'[t] - 1 = 0 /\ pc'[t] = "conn" /\ topoll'[t] = 0 /\ iostate'[t] = iostate[t]
      BY <1>0, <2>1
    <2>5. QED
      BY <2>2, <2>3, <2>4 DEF CountAt
  <1>5. CASE PollFails(t)
    BY <1>0, <1>5 DEF PollFails, CountAt
  <1>6. CASE Input(t)
    <2>1. /\ pc[t] = "conn" /\ pc'[t] = "feed" /\ conn'[t] = conn[t] /\ topoll' = topoll
          /\ iostate' = SetConn(iostate, t, "IDLE")
      BY <1>0, <1>6 DEF Input, InputLeaving
    <2>2. QED
      BY <2>1, SettledCount
  <1>7. CASE InputFails(t)
    BY <1>0, <1>7 DEF InputFails, CountAt
  <1>8. CASE ConnError(t)
    <2>1. /\ pc[t] = "conn" /\ pc'[t] = "feed" /\ conn'[t] = conn[t] /\ topoll' = topoll
          /\ iostate' = SetConn(iostate, t, "ERROR")
      BY <1>0, <1>8 DEF ConnError
    <2>2. QED
      BY <2>1, SettledCount
  <1>9. CASE ConnInvalid(t)
    <2>1. /\ pc[t] = "conn" /\ pc'[t] = "feed" /\ conn'[t] = conn[t] /\ topoll' = topoll
          /\ \E s \in {"IDLE", "ERROR"} : iostate' = SetConn(iostate, t, s)
      BY <1>0, <1>9 DEF ConnInvalid
    <2>2. QED
      BY <2>1, SettledCount
  <1>10. CASE Quiet(t)
    <2>1. /\ pc[t] = "conn" /\ pc' = [pc EXCEPT ![t] = "feed"] /\ conn' = conn /\ iostate' = iostate
          /\ topoll' = [topoll EXCEPT ![t] =
                            topoll[t] + (IF iostate[t][n] = "WAIT" THEN 1 ELSE 0)]
      BY <1>10 DEF Quiet
    <2>2. topoll[t] = Cardinality(Upto(iostate[t], n - 1))
      BY <2>1 DEF CountAt
    <2>3. Cardinality(Upto(iostate[t], n)) = topoll[t] + (IF iostate[t][n] = "WAIT" THEN 1 ELSE 0)
      BY <1>0, <2>2, UptoNext
    <2>4. Cardinality(Upto(iostate[t], n)) \in 0..NConn
      <3>1. Cardinality(Upto(iostate[t], n)) \in 0..n
        BY <1>0, UptoBound
      <3>2. QED
        BY <1>0, <3>1
    <2>5. topoll' = [topoll EXCEPT ![t] = Cardinality(Upto(iostate[t], n))]
      BY <2>1, <2>3
    <2>6. QED
      BY <1>0, <2>1, <2>4, <2>5 DEF CountAt
  <1>11. CASE Dequeue(t)
    BY <1>0, <1>11 DEF Dequeue, DequeueUnder, Hungry, CountAt
  <1>12. CASE DequeueStarves(t)
    BY <1>0, <1>12 DEF DequeueStarves, CountAt
  <1>13. CASE Send(t)
    <2>1. /\ pc[t] = "send" /\ pc' = [pc EXCEPT ![t] = "advance"] /\ conn' = conn
          /\ iostate[t][n] = "IDLE" /\ topoll[t] = Cardinality(Upto(iostate[t], n))
      BY <1>13 DEF Send, SendCounting, CountAt
    <2>2. CASE hand[t] \in Blocking
      <3>1. UNCHANGED <<iostate, topoll>>
        BY <1>13, <2>2 DEF Send, SendCounting
      <3>2. QED
        BY <1>0, <2>1, <3>1 DEF CountAt
    <2>3. CASE hand[t] \notin Blocking
      <3>1. /\ iostate' = SetConn(iostate, t, "WAIT")
            /\ topoll' = [topoll EXCEPT ![t] = topoll[t] + 1]
        BY <1>13, <2>3 DEF Send, SendCounting
      <3>2. iostate'[t] = [iostate[t] EXCEPT ![n] = "WAIT"] /\ n \in Conns
        BY <1>0, <3>1 DEF SetConn
      <3>3. iostate'[t][n] = "WAIT" /\ \A c \in 1..(n - 1) : iostate'[t][c] = iostate[t][c]
        <4>1. \A c \in 1..(n - 1) : c \in Conns /\ c # n
          BY <1>0 DEF Conns
        <4>2. QED
          BY <1>0, <3>2, <4>1
      <3>4. /\ Cardinality(Upto(iostate[t], n)) = Cardinality(Upto(iostate[t], n - 1)) + 0
            /\ Cardinality(Upto(iostate'[t], n)) = Cardinality(Upto(iostate[t], n - 1)) + 1
        BY <1>0, <2>1, <3>3, UptoNext
      <3>5. /\ Cardinality(Upto(iostate[t], n - 1)) \in 0..(n - 1)
            /\ Cardinality(Upto(iostate'[t], n)) \in 0..n
        BY <1>0, UptoBound
      <3>6. topoll[t] + 1 = Cardinality(Upto(iostate'[t], n)) /\ topoll[t] + 1 \in 0..NConn
        BY <1>0, <2>1, <3>4, <3>5
      <3>7. /\ topoll' \in [Threads -> 0..NConn] /\ topoll'[t] = topoll[t] + 1
            /\ pc'[t] = "advance" /\ conn'[t] = n
        BY <1>0, <2>1, <3>1, <3>6
      <3>8. QED
        BY <3>6, <3>7 DEF CountAt
    <2>4. QED
      BY <2>2, <2>3
  <1>14. CASE SendFails(t)
    BY <1>0, <1>14 DEF SendFails, CountAt
  <1>15. CASE SkipFeed(t)
    BY <1>0, <1>15 DEF SkipFeed, CountAt
  <1>16. CASE Advance(t)
    <2>1. /\ pc[t] = "advance" /\ topoll' = topoll /\ iostate' = iostate
          /\ topoll[t] = Cardinality(Upto(iostate[t], n))
      BY <1>16 DEF Advance, AdvanceSeeing, CountAt
    <2>2. CASE n < NConn
      <3>1. pc'[t] = "conn" /\ conn'[t] = n + 1
        BY <1>0, <1>16, <2>2 DEF Advance, AdvanceSeeing
      <3>2. conn'[t] - 1 = n
        BY <1>0, <3>1
      <3>3. QED
        BY <1>0, <2>1, <3>1, <3>2 DEF CountAt
    <2>3. CASE ~ (n < NConn)
      <3>1. pc'[t] = "test"
        BY <1>0, <1>16, <2>3 DEF Advance, AdvanceSeeing
      <3>2. n = NConn
        BY <1>0, <2>3
      <3>3. QED
        BY <1>0, <2>1, <3>1, <3>2 DEF CountAt
    <2>4. QED
      BY <2>2, <2>3
  <1>17. CASE Exit(t)
    BY <1>0, <1>17 DEF Exit, CountAt
  <1>18. CASE FreeThread(t)
    BY <1>0, <1>18 DEF FreeThread, CountAt
  <1>19. QED
    BY <1>1, <1>2, <1>3, <1>4, <1>5, <1>6, <1>7, <1>8, <1>9, <1>10, <1>11, <1>12,
       <1>13, <1>14, <1>15, <1>16, <1>17, <1>18 DEF ThreadStep

LEMMA StepCount ==
  ASSUME TypeOK, CountInv, NEW t \in Threads, ThreadStep(t)
  PROVE  CountInv' /\ topoll' \in [Threads -> 0..NConn]
  <1>1. CountAt(t)' /\ topoll' \in [Threads -> 0..NConn]
    BY ThreadCount DEF CountInv
  <1>2. ASSUME NEW u \in Threads, u # t
        PROVE  CountAt(u)'
    <2>1. /\ pc'[u] = pc[u] /\ conn'[u] = conn[u] /\ topoll'[u] = topoll[u]
          /\ iostate'[u] = iostate[u]
      BY <1>2, OthersStay
    <2>2. QED
      BY <2>1 DEF CountInv, CountAt
  <1>3. QED
    BY <1>1, <1>2 DEF CountInv

-----------------------------------------------------------------------------
(* What keeps each invariant whose variables a step hardly touches           *)

LEMMA SetConnAt ==
  ASSUME TypeOK, NEW t \in Threads, NEW v
  PROVE  \A u \in Threads, c \in Conns :
             /\ SetConn(iostate, t, v)[u][c] =
                    IF u = t /\ c = conn[t] THEN v ELSE iostate[u][c]
             /\ SetConn(qr_dt, t, v)[u][c] =
                    IF u = t /\ c = conn[t] THEN v ELSE qr_dt[u][c]
  BY DEF SetConn, TypeOK

LEMMA HandsUntouched ==
  ASSUME TypeOK, HandInv, UNCHANGED <<hand, barrier>>,
         \A t \in Threads : pc[t] = "send" <=> pc'[t] = "send",
         \A q \in Queries : outcome[q] = "taken" <=> outcome'[q] = "taken",
         \A q \in Blocking : outcome'[q] # "sent"
  PROVE  HandInv'
  BY DEF HandInv, TypeOK

LEMMA SlotsUntouched ==
  ASSUME TypeOK, SlotInv, UNCHANGED qr_dt,
         \A t \in Threads, c \in Conns : iostate'[t][c] \in {iostate[t][c], "ERROR"},
         \A q \in Queries : outcome[q] = "sent" <=> outcome'[q] = "sent"
  PROVE  SlotInv'
  BY DEF SlotInv, TypeOK

LEMMA QueueUntouched ==
  ASSUME TypeOK, QueueInv, UNCHANGED <<queue, log>>,
         \A q \in Queries : /\ outcome[q] = "queued" <=> outcome'[q] = "queued"
                            /\ outcome'[q] = "new" => outcome[q] = "new"
  PROVE  QueueInv'
  <1>1. \A i \in 1..Len(log) : log[i] \in Queries
    BY DEF TypeOK
  <1>2. QED
    BY <1>1 DEF QueueInv, Gone

LEMMA BarrierUntouched ==
  ASSUME TypeOK, BarrierOrder, UNCHANGED log,
         \A q \in Queries : /\ outcome[q] = "queued" <=> outcome'[q] = "queued"
                            /\ outcome[q] \in Final => outcome'[q] \in Final
  PROVE  BarrierOrder'
  <1>1. \A i \in DOMAIN log : log[i] \in Queries
    BY DEF TypeOK
  <1>2. QED
    BY <1>1 DEF BarrierOrder

(* A query that a step moves from one stage to another.                     *)
Moves(q, from, to) == outcome[q] \in from /\ \E s \in to : outcome' = Set(outcome, q, s)

LEMMA MovesAt ==
  ASSUME TypeOK, NEW q \in Queries, NEW from, NEW to, Moves(q, from, to)
  PROVE  /\ outcome[q] \in from /\ outcome'[q] \in to
         /\ \A p \in Queries \ {q} : outcome'[p] = outcome[p]
  BY DEF TypeOK, Moves, Set

(* A query that leaves its connection, answered or not.                     *)
LEMMA SlotCleared ==
  ASSUME TypeOK, SlotInv, NEW t \in Threads,
         qr_dt' = SetConn(qr_dt, t, NULL),
         NEW s \in {"IDLE", "ERROR"}, iostate' = SetConn(iostate, t, s),
         \/ Carried(t) = NULL /\ outcome' = outcome
         \/ Carried(t) # NULL /\ Moves(Carried(t), {"sent"}, {"answered", "failed"})
  PROVE  SlotInv'
  <1> DEFINE n == conn[t]
             x == qr_dt[t][n]
  <1>1. /\ n \in Conns /\ x \in Queries \cup {NULL}
        /\ qr_dt \in [Threads -> [Conns -> Queries \cup {NULL}]]
        /\ iostate \in [Threads -> [Conns -> {"IDLE", "WAIT", "ERROR"}]]
    BY DEF TypeOK
  <1>2. \A u \in Threads, c \in Conns :
            /\ qr_dt'[u][c] = IF u = t /\ c = n THEN NULL ELSE qr_dt[u][c]
            /\ iostate'[u][c] = IF u = t /\ c = n THEN s ELSE iostate[u][c]
    BY SetConnAt
  <1>3. /\ \A q \in Queries : q # x => outcome'[q] = outcome[q]
        /\ x # NULL => outcome'[x] # "sent"
    <2>1. CASE x = NULL
      BY <2>1 DEF Carried
    <2>2. CASE x # NULL
      BY <1>1, <2>2, MovesAt DEF Carried
    <2>3. QED
      BY <2>1, <2>2
  <1>4. ASSUME NEW u \in Threads, NEW c \in Conns
        PROVE  /\ iostate'[u][c] = "IDLE" => qr_dt'[u][c] = NULL
               /\ iostate'[u][c] = "WAIT" => qr_dt'[u][c] # NULL
    BY <1>2 DEF SlotInv
  <1>5. ASSUME NEW u \in Threads, NEW c \in Conns, qr_dt'[u][c] # NULL
        PROVE  outcome'[qr_dt'[u][c]] = "sent"
    <2>1. qr_dt'[u][c] = qr_dt[u][c] /\ ~ (u = t /\ c = n)
      BY <1>2, <1>5
    <2>2. qr_dt[u][c] # x
      BY <1>1, <1>5, <2>1 DEF SlotInv
    <2>3. qr_dt[u][c] \in Queries
      BY <1>1, <1>5, <2>1
    <2>4. QED
      BY <1>3, <1>5, <2>1, <2>2, <2>3 DEF SlotInv
  <1>6. ASSUME NEW u \in Threads, NEW c \in Conns, NEW v \in Threads, NEW d \in Conns,
               qr_dt'[u][c] = qr_dt'[v][d], qr_dt'[u][c] # NULL
        PROVE  u = v /\ c = d
    <2>1. qr_dt[u][c] = qr_dt[v][d] /\ qr_dt[u][c] # NULL
      BY <1>2, <1>6
    <2>2. QED
      BY <2>1 DEF SlotInv
  <1>7. ASSUME NEW q \in Queries, outcome'[q] = "sent"
        PROVE  \E u \in Threads, c \in Conns : qr_dt'[u][c] = q
    <2>1. q # x /\ outcome[q] = "sent"
      BY <1>3, <1>7, LoopAssumption
    <2>2. PICK u \in Threads, c \in Conns : qr_dt[u][c] = q
      BY <2>1 DEF SlotInv
    <2>3. QED
      BY <1>2, <2>1, <2>2
  <1>8. QED
    BY <1>4, <1>5, <1>6, <1>7 DEF SlotInv

(* A query that is put into the slot of an idle connection.                 *)
LEMMA SlotFilled ==
  ASSUME TypeOK, SlotInv, NEW t \in Threads, iostate[t][conn[t]] = "IDLE",
         NEW x \in Queries, Moves(x, {"taken"}, {"sent"}),
         qr_dt' = SetConn(qr_dt, t, x), iostate' = SetConn(iostate, t, "WAIT")
  PROVE  SlotInv'
  <1> DEFINE n == conn[t]
  <1>1. /\ n \in Conns /\ qr_dt[t][n] = NULL /\ x # NULL
        /\ qr_dt \in [Threads -> [Conns -> Queries \cup {NULL}]]
        /\ iostate \in [Threads -> [Conns -> {"IDLE", "WAIT", "ERROR"}]]
    BY LoopAssumption DEF TypeOK, SlotInv
  <1>2. \A u \in Threads, c \in Conns :
            /\ qr_dt'[u][c] = IF u = t /\ c = n THEN x ELSE qr_dt[u][c]
            /\ iostate'[u][c] = IF u = t /\ c = n THEN "WAIT" ELSE iostate[u][c]
    BY SetConnAt
  <1>3. /\ \A q \in Queries : q # x => outcome'[q] = outcome[q]
        /\ outcome[x] # "sent" /\ outcome'[x] = "sent"
    BY MovesAt
  <1>4. \A u \in Threads, c \in Conns : qr_dt[u][c] # x
    BY <1>1, <1>3 DEF SlotInv
  <1>5. ASSUME NEW u \in Threads, NEW c \in Conns
        PROVE  /\ iostate'[u][c] = "IDLE" => qr_dt'[u][c] = NULL
               /\ iostate'[u][c] = "WAIT" => qr_dt'[u][c] # NULL
    BY <1>1, <1>2 DEF SlotInv
  <1>6. ASSUME NEW u \in Threads, NEW c \in Conns, qr_dt'[u][c] # NULL
        PROVE  outcome'[qr_dt'[u][c]] = "sent"
    <2>1. CASE u = t /\ c = n
      BY <1>2, <1>3, <2>1
    <2>2. CASE ~ (u = t /\ c = n)
      <3>1. qr_dt'[u][c] = qr_dt[u][c] /\ qr_dt[u][c] \in Queries
        BY <1>1, <1>2, <1>6, <2>2
      <3>2. QED
        BY <1>3, <1>4, <1>6, <3>1 DEF SlotInv
    <2>3. QED
      BY <2>1, <2>2
  <1>7. ASSUME NEW u \in Threads, NEW c \in Conns, NEW v \in Threads, NEW d \in Conns,
               qr_dt'[u][c] = qr_dt'[v][d], qr_dt'[u][c] # NULL
        PROVE  u = v /\ c = d
    BY <1>2, <1>4, <1>7 DEF SlotInv
  <1>8. ASSUME NEW q \in Queries, outcome'[q] = "sent"
        PROVE  \E u \in Threads, c \in Conns : qr_dt'[u][c] = q
    <2>1. CASE q = x
      BY <1>1, <1>2, <2>1
    <2>2. CASE q # x
      <3>1. PICK u \in Threads, c \in Conns : qr_dt[u][c] = q
        BY <1>3, <1>8, <2>2 DEF SlotInv
      <3>2. qr_dt'[u][c] = q
        BY <1>1, <1>2, <3>1, LoopAssumption
      <3>3. QED
        BY <3>2
    <2>3. QED
      BY <2>1, <2>2
  <1>9. QED
    BY <1>5, <1>6, <1>7, <1>8 DEF SlotInv

(* The hand of t is emptied.                                                *)
LEMMA HandEmptied ==
  ASSUME TypeOK, HandInv, NEW t \in Threads, pc[t] = "send",
         pc'[t] # "send", \A u \in Threads \ {t} : pc'[u] = pc[u],
         hand' = Set(hand, t, NULL), barrier' = IF barrier = t THEN NULL ELSE barrier,
         NEW to, Moves(hand[t], {"taken"}, to), "taken" \notin to,
         hand[t] \in Blocking => "sent" \notin to
  PROVE  HandInv'
  <1>1. hand[t] \in Queries /\ hand[t] # NULL
    BY DEF HandInv, TypeOK
  <1>2. /\ \A q \in Queries \ {hand[t]} : outcome'[q] = outcome[q]
        /\ outcome'[hand[t]] \in to
    BY <1>1, MovesAt
  <1>3. hand'[t] = NULL /\ \A u \in Threads \ {t} : hand'[u] = hand[u] /\ hand[u] # hand[t]
    BY <1>1 DEF TypeOK, Set, HandInv
  <1>4. NULL \notin Blocking /\ NULL \notin Threads
    BY LoopAssumption
  <1>5. ASSUME NEW u \in Threads
        PROVE  hand'[u] \in Blocking <=> barrier' = u
    <2>1. CASE u = t
      BY <1>3, <1>4, <2>1
    <2>2. CASE u # t
      BY <1>3, <1>4, <2>2 DEF HandInv
    <2>3. QED
      BY <2>1, <2>2
  <1>6. ASSUME NEW u \in Threads
        PROVE  /\ pc'[u] = "send" <=> hand'[u] # NULL
               /\ hand'[u] # NULL => outcome'[hand'[u]] = "taken"
    <2>1. CASE u = t
      BY <1>3, <2>1
    <2>2. CASE u # t
      <3>1. hand[u] # NULL => hand[u] \in Queries \ {hand[t]}
        BY <1>3, <2>2 DEF TypeOK
      <3>2. QED
        BY <1>2, <1>3, <2>2, <3>1 DEF HandInv
    <2>3. QED
      BY <2>1, <2>2
  <1>7. ASSUME NEW u \in Threads, NEW v \in Threads, hand'[u] = hand'[v], hand'[u] # NULL
        PROVE  u = v
    BY <1>3, <1>7 DEF HandInv
  <1>8. ASSUME NEW q \in Queries, outcome'[q] = "taken"
        PROVE  \E u \in Threads : hand'[u] = q
    <2>1. q # hand[t] /\ outcome[q] = "taken"
      BY <1>2, <1>8
    <2>2. PICK u \in Threads : hand[u] = q
      BY <2>1 DEF HandInv
    <2>3. QED
      BY <1>3, <2>1, <2>2
  <1>9. ASSUME NEW q \in Blocking
        PROVE  outcome'[q] # "sent"
    BY <1>2, LoopAssumption DEF HandInv
  <1>10. QED
    BY <1>5, <1>6, <1>7, <1>8, <1>9 DEF HandInv

-----------------------------------------------------------------------------
(* The life of a query, action by action                                    *)

QueryInv == HandInv /\ SlotInv /\ QueueInv /\ BarrierOrder

LEMMA EnqueueLife ==
  ASSUME LoopInv, NEW q \in Queries, Enqueue(q)
  PROVE  QueryInv'
  <1> USE DEF Enqueue, mainVars, loopVars, connVars
  <1>0. TypeOK /\ HandInv /\ SlotInv /\ QueueInv /\ BarrierOrder
    BY DEF LoopInv
  <1>1. Moves(q, {"new"}, {"queued"})
    BY DEF Moves
  <1>2. /\ outcome[q] = "new" /\ outcome'[q] = "queued"
        /\ \A p \in Queries \ {q} : outcome'[p] = outcome[p]
    BY <1>0, <1>1, MovesAt
  <1>3. HandInv'
    <2>1. \A p \in Blocking : outcome'[p] # "sent"
      BY <1>0, <1>2, LoopAssumption DEF HandInv
    <2>2. UNCHANGED <<hand, barrier, pc>>
      OBVIOUS
    <2>3. \A p \in Queries : outcome[p] = "taken" <=> outcome'[p] = "taken"
      BY <1>2
    <2>4. QED
      BY <1>0, <2>1, <2>2, <2>3, HandsUntouched
  <1>4. SlotInv'
    <2>1. UNCHANGED <<qr_dt, iostate>>
      OBVIOUS
    <2>2. \A p \in Queries : outcome[p] = "sent" <=> outcome'[p] = "sent"
      BY <1>2
    <2>3. QED
      BY <1>0, <2>1, <2>2, SlotsUntouched
  <1> DEFINE n == Len(log)
             k == Len(queue)
  <1>5. /\ n \in Nat /\ k \in Nat /\ k <= n
        /\ Len(log') = n + 1 /\ Len(queue') = k + 1
        /\ log'[n + 1] = q /\ \A i \in 1..n : log'[i] = log[i] /\ log[i] \in Queries
        /\ queue'[k + 1] = q /\ \A i \in 1..k : queue'[i] = queue[i]
        /\ DOMAIN log = 1..n /\ DOMAIN log' = 1..(n + 1)
    <2>1. /\ log \in Seq(Queries) /\ queue \in Seq(Queries)
          /\ log' = Append(log, q) /\ queue' = Append(queue, q) /\ k <= n
      BY <1>0 DEF TypeOK, QueueInv
    <2>2. QED
      BY <2>1
  <1>6. \A i \in 1..n : log[i] # q /\ outcome'[log[i]] = outcome[log[i]]
    BY <1>0, <1>2, <1>5 DEF QueueInv
  <1>7. QueueInv'
    <2>1. Gone = n - k /\ Gone' = n - k
      BY <1>5 DEF Gone
    <2>2. Len(queue') <= Len(log')
      BY <1>5
    <2>3. \A i \in 1..Len(queue') : queue'[i] = log'[Gone' + i]
      <3>1. ASSUME NEW i \in 1..k
            PROVE  queue'[i] = log'[Gone' + i]
        <4>1. Gone + i \in 1..n /\ queue[i] = log[Gone + i]
          BY <1>0, <1>5, <2>1 DEF QueueInv
        <4>2. QED
          BY <1>5, <2>1, <4>1
      <3>2. queue'[k + 1] = log'[Gone' + (k + 1)]
        <4>1. Gone' + (k + 1) = n + 1
          BY <1>5, <2>1
        <4>2. QED
          BY <1>5, <4>1
      <3>3. \A i \in 1..(k + 1) : i \in 1..k \/ i = k + 1
        BY <1>5
      <3>4. QED
        BY <1>5, <3>1, <3>2, <3>3
    <2>4. \A i \in 1..Len(log') :
              /\ outcome'[log'[i]] # "new"
              /\ outcome'[log'[i]] = "queued" <=> i > Gone'
      <3>1. ASSUME NEW i \in 1..n
            PROVE  /\ outcome'[log'[i]] # "new"
                   /\ outcome'[log'[i]] = "queued" <=> i > Gone'
        BY <1>0, <1>5, <1>6, <2>1 DEF QueueInv
      <3>2. outcome'[log'[n + 1]] = "queued" /\ n + 1 > Gone'
        BY <1>2, <1>5, <2>1
      <3>3. \A i \in 1..(n + 1) : i \in 1..n \/ i = n + 1
        BY <1>5
      <3>4. QED
        BY <1>5, <3>1, <3>2, <3>3
    <2>5. \A i, j \in 1..Len(log') : log'[i] = log'[j] => i = j
      BY <1>0, <1>5, <1>6 DEF QueueInv
    <2>6. QED
      BY <2>2, <2>3, <2>4, <2>5 DEF QueueInv
  <1>8. BarrierOrder'
    <2> SUFFICES ASSUME NEW i \in 1..(n + 1), NEW j \in 1..(n + 1), i < j,
                        log'[i] \in Blocking, outcome'[log'[j]] # "queued"
                 PROVE  outcome'[log'[i]] \in Final
      BY <1>5 DEF BarrierOrder
    <2>1. j # n + 1
      BY <1>2, <1>5
    <2>2. i \in 1..n /\ j \in 1..n
      BY <1>5, <2>1
    <2>3. QED
      BY <1>0, <1>5, <1>6, <2>2 DEF BarrierOrder
  <1>9. QED
    BY <1>3, <1>4, <1>7, <1>8 DEF QueryInv

LEMMA FreeContextLife ==
  ASSUME LoopInv, FreeContext
  PROVE  QueryInv'
  <1> USE DEF FreeContext, FreeContextWhen, loopVars, connVars
  <1>0. TypeOK /\ HandInv /\ SlotInv /\ QueueInv /\ BarrierOrder
    BY DEF LoopInv
  <1>1. \A q \in Queries :
            outcome'[q] = IF outcome[q] = "queued" THEN "dropped" ELSE outcome[q]
    OBVIOUS
  <1>2. HandInv'
    <2>1. UNCHANGED <<hand, barrier, pc>>
      OBVIOUS
    <2>2. \A p \in Queries : outcome[p] = "taken" <=> outcome'[p] = "taken"
      BY <1>1
    <2>3. \A p \in Blocking : outcome'[p] # "sent"
      BY <1>0, <1>1, LoopAssumption DEF HandInv
    <2>4. QED
      BY <1>0, <2>1, <2>2, <2>3, HandsUntouched
  <1>3. SlotInv'
    <2>1. UNCHANGED <<qr_dt, iostate>>
      OBVIOUS
    <2>2. \A p \in Queries : outcome[p] = "sent" <=> outcome'[p] = "sent"
      BY <1>1
    <2>3. QED
      BY <1>0, <2>1, <2>2, SlotsUntouched
  <1>4. /\ queue' = <<>> /\ log' = log /\ Len(log) \in Nat /\ DOMAIN log = 1..Len(log)
        /\ \A i \in 1..Len(log) : log[i] \in Queries /\ outcome[log[i]] # "new"
    BY <1>0 DEF TypeOK, QueueInv
  <1>5. QueueInv'
    <2>1. \A i \in 1..Len(log) : outcome'[log[i]] \notin {"new", "queued"}
      BY <1>1, <1>4
    <2>2. Len(queue') = 0 /\ Gone' = Len(log)
      BY <1>4 DEF Gone
    <2>3. QED
      BY <1>0, <1>4, <2>1, <2>2 DEF QueueInv
  <1>6. \A q \in Queries : outcome[q] # "taken"
    <2>1. \A t \in Threads : hand[t] = NULL
      BY <1>0 DEF HandInv
    <2>2. QED
      BY <1>0, <2>1, LoopAssumption DEF HandInv
  <1>7. BarrierOrder'
    <2>1. ASSUME NEW i \in 1..Len(log), log[i] \in Blocking
          PROVE  outcome'[log[i]] \in Final
      <3>1. outcome[log[i]] \in {"queued", "answered", "failed", "dropped"}
        BY <1>0, <1>4, <1>6, <2>1 DEF HandInv, TypeOK, Final
      <3>2. QED
        BY <1>1, <1>4, <3>1 DEF Final
    <2>2. QED
      BY <1>4, <2>1 DEF BarrierOrder
  <1>8. QED
    BY <1>2, <1>3, <1>5, <1>7 DEF QueryInv

LEMMA DequeueLife ==
  ASSUME LoopInv, NEW t \in Threads, Dequeue(t)
  PROVE  QueryInv'
  <1> USE DEF Dequeue, DequeueUnder, mainVars, loopVars, connVars, Goto
  <1> DEFINE x == Head(queue)
             n == Len(log)
             k == Len(queue)
  <1>0. TypeOK /\ HandInv /\ SlotInv /\ QueueInv /\ BarrierOrder
    BY DEF LoopInv
  <1>1. /\ n \in Nat /\ k \in Nat \ {0} /\ k <= n /\ Gone = n - k
        /\ x \in Queries /\ x = queue[1] /\ x = log[Gone + 1]
        /\ Len(queue') = k - 1 /\ \A i \in 1..(k - 1) : queue'[i] = queue[i + 1]
        /\ \A i \in 1..n : log[i] \in Queries
        /\ Gone' = Gone + 1 /\ log' = log /\ DOMAIN log = 1..n
    <2>1. queue # <<>> /\ queue' = Tail(queue) /\ log' = log
      BY DEF IsEmpty
    <2>2. queue \in Seq(Queries) /\ log \in Seq(Queries)
      BY <1>0 DEF TypeOK
    <2>3. /\ n \in Nat /\ k \in Nat \ {0} /\ x \in Queries /\ x = queue[1]
          /\ Len(queue') = k - 1 /\ \A i \in 1..(k - 1) : queue'[i] = queue[i + 1]
          /\ \A i \in 1..n : log[i] \in Queries
          /\ DOMAIN log = 1..n
      BY <2>1, <2>2
    <2>4. k <= n /\ Gone = n - k /\ Gone' = n - (k - 1)
      BY <1>0, <2>1, <2>3 DEF QueueInv, Gone
    <2>5. x = log[Gone + 1]
      BY <1>0, <2>3 DEF QueueInv
    <2>6. QED
      BY <2>1, <2>3, <2>4, <2>5
  <1>2. outcome[x] = "queued"
    BY <1>0, <1>1 DEF QueueInv
  <1>3. /\ outcome'[x] = "taken" /\ \A p \in Queries \ {x} : outcome'[p] = outcome[p]
        /\ pc[t] = "feed" /\ pc'[t] = "send" /\ \A u \in Threads \ {t} : pc'[u] = pc[u]
        /\ hand'[t] = x /\ \A u \in Threads \ {t} : hand'[u] = hand[u]
    BY <1>0, <1>1 DEF TypeOK, Set
  <1>4. HandInv'
    <2>1. \A u \in Threads : hand[u] # x /\ hand[u] \in Queries \cup {NULL}
      BY <1>0, <1>1, <1>2, LoopAssumption DEF HandInv, TypeOK
    <2>2. \A u \in Threads : hand[u] \notin Blocking
      BY <1>0, LoopAssumption DEF HandInv
    <2>3. ASSUME NEW u \in Threads
          PROVE  hand'[u] \in Blocking <=> barrier' = u
      BY <1>3, <2>2, <2>3, LoopAssumption
    <2>4. ASSUME NEW u \in Threads
          PROVE  /\ pc'[u] = "send" <=> hand'[u] # NULL
                 /\ hand'[u] # NULL => outcome'[hand'[u]] = "taken"
      BY <1>0, <1>1, <1>3, <2>1, LoopAssumption DEF HandInv
    <2>5. ASSUME NEW u \in Threads, NEW v \in Threads, hand'[u] = hand'[v], hand'[u] # NULL
          PROVE  u = v
      BY <1>0, <1>3, <2>1, <2>5 DEF HandInv
    <2>6. ASSUME NEW q \in Queries, outcome'[q] = "taken"
          PROVE  \E u \in Threads : hand'[u] = q
      <3>1. CASE q = x
        BY <1>3, <3>1
      <3>2. CASE q # x
        <4>1. PICK u \in Threads : hand[u] = q
          BY <1>0, <1>3, <2>6, <3>2 DEF HandInv
        <4>2. u # t
          BY <1>0, <1>3, <4>1, LoopAssumption DEF HandInv
        <4>3. QED
          BY <1>3, <4>1, <4>2
      <3>3. QED
        BY <3>1, <3>2
    <2>7. \A q \in Blocking : outcome'[q] # "sent"
      BY <1>0, <1>3, LoopAssumption DEF HandInv
    <2>8. QED
      BY <2>3, <2>4, <2>5, <2>6, <2>7 DEF HandInv
  <1>5. SlotInv'
    <2>1. UNCHANGED <<qr_dt, iostate>>
      OBVIOUS
    <2>2. \A p \in Queries : outcome[p] = "sent" <=> outcome'[p] = "sent"
      BY <1>2, <1>3
    <2>3. QED
      BY <1>0, <2>1, <2>2, SlotsUntouched
  <1>6. \A i \in 1..n : i # Gone + 1 => log[i] # x /\ outcome'[log[i]] = outcome[log[i]]
    <2>1. Gone + 1 \in 1..n
      BY <1>1
    <2>2. QED
      BY <1>0, <1>1, <1>3, <2>1 DEF QueueInv
  <1>7. QueueInv'
    <2>1. \A i \in 1..Len(queue') : queue'[i] = log'[Gone' + i]
      <3>1. ASSUME NEW i \in 1..(k - 1)
            PROVE  queue'[i] = log[(Gone + 1) + i]
        <4>1. queue[i + 1] = log[Gone + (i + 1)]
          <5>1. i + 1 \in 1..Len(queue)
            BY <1>1
          <5>2. QED
            BY <1>0, <5>1 DEF QueueInv
        <4>2. Gone + (i + 1) = (Gone + 1) + i
          BY <1>1
        <4>3. QED
          BY <1>1, <4>1, <4>2
      <3>2. QED
        BY <1>1, <3>1
    <2>2. \A i \in 1..Len(log') :
              /\ outcome'[log'[i]] # "new"
              /\ outcome'[log'[i]] = "queued" <=> i > Gone'
      <3>1. ASSUME NEW i \in 1..n
            PROVE  /\ outcome'[log[i]] # "new"
                   /\ outcome'[log[i]] = "queued" <=> i > Gone + 1
        <4>1. CASE i = Gone + 1
          BY <1>1, <1>3, <4>1
        <4>2. CASE i # Gone + 1
          <5>1. i > Gone <=> i > Gone + 1
            BY <1>1, <4>2
          <5>2. QED
            BY <1>0, <1>6, <4>2, <5>1 DEF QueueInv
        <4>3. QED
          BY <4>1, <4>2
      <3>2. QED
        BY <1>1, <3>1
    <2>3. \A i, j \in 1..Len(log') : log'[i] = log'[j] => i = j
      BY <1>0, <1>1 DEF QueueInv
    <2>4. Len(queue') <= Len(log')
      BY <1>1
    <2>5. QED
      BY <2>1, <2>2, <2>3, <2>4 DEF QueueInv
  <1>8. BarrierOrder'
    <2> SUFFICES ASSUME NEW i \in 1..n, NEW j \in 1..n, i < j,
                        log[i] \in Blocking, outcome'[log[j]] # "queued"
                 PROVE  outcome'[log[i]] \in Final
      BY <1>1 DEF BarrierOrder
    <2>1. CASE j # Gone + 1
      <3>1. outcome[log[i]] \in Final
        <4>1. outcome[log[j]] # "queued" /\ i \in DOMAIN log /\ j \in DOMAIN log
          BY <1>1, <1>6, <2>1
        <4>2. QED
          BY <1>0, <4>1 DEF BarrierOrder
      <3>2. log[i] # x
        BY <1>2, <3>1 DEF Final
      <3>3. QED
        BY <1>1, <1>3, <3>1, <3>2
    <2>2. CASE j = Gone + 1
      <3>1. outcome[log[i]] \notin {"new", "queued"} /\ outcome'[log[i]] = outcome[log[i]]
        <4>1. i # Gone + 1 /\ ~ (i > Gone) /\ i \in 1..Len(log)
          BY <1>1, <2>2
        <4>2. QED
          BY <1>0, <1>6, <4>1 DEF QueueInv
      <3>2. outcome[log[i]] # "taken"
        <4>1. \A u \in Threads : hand[u] \notin Blocking
          BY <1>0, LoopAssumption DEF HandInv
        <4>2. QED
          BY <1>0, <1>1, <4>1 DEF HandInv
      <3>3. outcome[log[i]] # "sent"
        BY <1>0 DEF HandInv
      <3>4. QED
        BY <1>0, <1>1, <3>1, <3>2, <3>3 DEF TypeOK, Final
    <2>3. QED
      BY <2>1, <2>2
  <1>9. QED
    BY <1>4, <1>5, <1>7, <1>8 DEF QueryInv

(* A query that t was carrying, or had just taken, gets its answer or fails:  *)
(* the queue and the barrier are as before.                                 *)
LEMMA ConcludeKeeps ==
  ASSUME TypeOK, QueueInv, BarrierOrder, UNCHANGED <<queue, log>>,
         \/ outcome' = outcome
         \/ \E q \in Queries : Moves(q, {"taken", "sent"}, {"sent", "answered", "failed"})
  PROVE  QueueInv' /\ BarrierOrder'
  <1>1. \A q \in Queries : /\ outcome[q] = "queued" <=> outcome'[q] = "queued"
                           /\ outcome'[q] = "new" => outcome[q] = "new"
                           /\ outcome[q] \in Final => outcome'[q] \in Final
    <2>1. ASSUME NEW p \in Queries, Moves(p, {"taken", "sent"}, {"sent", "answered", "failed"})
          PROVE  \A q \in Queries : /\ outcome[q] = "queued" <=> outcome'[q] = "queued"
                                    /\ outcome'[q] = "new" => outcome[q] = "new"
                                    /\ outcome[q] \in Final => outcome'[q] \in Final
      BY <2>1, MovesAt DEF Final
    <2>2. QED
      BY <2>1
  <1>2. QED
    BY <1>1, QueueUntouched, BarrierUntouched

LEMMA ReceiveLife ==
  ASSUME LoopInv, NEW t \in Threads, Input(t) \/ ConnInvalid(t)
  PROVE  QueryInv'
  <1> DEFINE x == Carried(t)
  <1>0. TypeOK /\ HandInv /\ SlotInv /\ QueueInv /\ BarrierOrder
    BY DEF LoopInv
  <1>1. /\ UNCHANGED <<queue, barrier, hand, log>>
        /\ qr_dt' = SetConn(qr_dt, t, NULL)
        /\ \E s \in {"IDLE", "ERROR"} : iostate' = SetConn(iostate, t, s)
        /\ \/ x = NULL /\ outcome' = outcome
           \/ x # NULL /\ \E s \in {"answered", "failed"} : outcome' = Set(outcome, x, s)
        /\ pc[t] = "conn" /\ pc' = [pc EXCEPT ![t] = "feed"]
    <2>1. CASE Input(t)
      BY <2>1 DEF Input, InputLeaving, Goto
    <2>2. CASE ConnInvalid(t)
      BY <2>2 DEF ConnInvalid, Goto
    <2>3. QED
      BY <2>1, <2>2
  <1>2. x \in Queries \cup {NULL} /\ (x # NULL => outcome[x] = "sent")
    BY <1>0 DEF TypeOK, SlotInv, Carried
  <1>3. \/ x = NULL /\ outcome' = outcome
        \/ x # NULL /\ Moves(x, {"sent"}, {"answered", "failed"})
    BY <1>1, <1>2 DEF Moves
  <1>4. SlotInv'
    BY <1>0, <1>1, <1>3, SlotCleared
  <1>5. \A q \in Queries : /\ outcome[q] = "taken" <=> outcome'[q] = "taken"
                           /\ outcome'[q] = "sent" => outcome[q] = "sent"
    <2>1. CASE x = NULL
      BY <1>3, <2>1
    <2>2. CASE x # NULL
      BY <1>0, <1>2, <1>3, <2>2, MovesAt
    <2>3. QED
      BY <2>1, <2>2
  <1>6. HandInv'
    <2>1. \A u \in Threads : pc[u] = "send" <=> pc'[u] = "send"
      BY <1>0, <1>1 DEF TypeOK
    <2>2. \A q \in Blocking : outcome'[q] # "sent"
      BY <1>0, <1>5, LoopAssumption DEF HandInv
    <2>3. QED
      BY <1>0, <1>1, <1>5, <2>1, <2>2, HandsUntouched
  <1>7. QueueInv' /\ BarrierOrder'
    <2>1. \/ outcome' = outcome
          \/ \E q \in Queries : Moves(q, {"taken", "sent"}, {"sent", "answered", "failed"})
      BY <1>2, <1>3 DEF Moves
    <2>2. QED
      BY <1>0, <1>1, <2>1, ConcludeKeeps
  <1>8. QED
    BY <1>4, <1>6, <1>7 DEF QueryInv

LEMMA SendLife ==
  ASSUME LoopInv, NEW t \in Threads, Send(t)
  PROVE  QueryInv'
  <1> DEFINE x == hand[t]
  <1> USE DEF Send, SendCounting, Goto
  <1>0. TypeOK /\ CountInv /\ HandInv /\ SlotInv /\ QueueInv /\ BarrierOrder
    BY DEF LoopInv
  <1>1. /\ pc[t] = "send" /\ pc'[t] = "advance" /\ \A u \in Threads \ {t} : pc'[u] = pc[u]
        /\ hand' = Set(hand, t, NULL) /\ barrier' = IF barrier = t THEN NULL ELSE barrier
        /\ UNCHANGED <<queue, log>>
    BY <1>0 DEF TypeOK
  <1>2. x \in Queries /\ outcome[x] = "taken" /\ iostate[t][conn[t]] = "IDLE"
    BY <1>0, <1>1 DEF TypeOK, HandInv, CountInv, CountAt
  <1>3. CASE x \in Blocking
    <2>1. Moves(x, {"taken"}, {"answered"}) /\ UNCHANGED <<iostate, qr_dt>>
      BY <1>2, <1>3 DEF Moves
    <2>2. HandInv'
      BY <1>0, <1>1, <2>1, HandEmptied
    <2>3. SlotInv'
      <3>1. \A q \in Queries : outcome[q] = "sent" <=> outcome'[q] = "sent"
        BY <1>0, <1>2, <2>1, MovesAt
      <3>2. QED
        BY <1>0, <2>1, <3>1, SlotsUntouched
    <2>4. QueueInv' /\ BarrierOrder'
      <3>1. Moves(x, {"taken", "sent"}, {"sent", "answered", "failed"})
        BY <2>1 DEF Moves
      <3>2. QED
        BY <1>0, <1>1, <1>2, <3>1, ConcludeKeeps
    <2>5. QED
      BY <2>2, <2>3, <2>4 DEF QueryInv
  <1>4. CASE x \notin Blocking
    <2>1. /\ Moves(x, {"taken"}, {"sent"}) /\ qr_dt' = SetConn(qr_dt, t, x)
          /\ iostate' = SetConn(iostate, t, "WAIT")
      BY <1>2, <1>4 DEF Moves
    <2>2. HandInv'
      BY <1>0, <1>1, <1>4, <2>1, HandEmptied
    <2>3. SlotInv'
      BY <1>0, <1>2, <2>1, SlotFilled
    <2>4. QueueInv' /\ BarrierOrder'
      <3>1. Moves(x, {"taken", "sent"}, {"sent", "answered", "failed"})
        BY <2>1 DEF Moves
      <3>2. QED
        BY <1>0, <1>1, <1>2, <3>1, ConcludeKeeps
    <2>5. QED
      BY <2>2, <2>3, <2>4 DEF QueryInv
  <1>5. QED
    BY <1>3, <1>4

LEMMA SendFailsLife ==
  ASSUME LoopInv, NEW t \in Threads, SendFails(t)
  PROVE  QueryInv'
  <1> DEFINE x == hand[t]
  <1> USE DEF SendFails, Goto
  <1>0. TypeOK /\ HandInv /\ SlotInv /\ QueueInv /\ BarrierOrder
    BY DEF LoopInv
  <1>1. /\ pc[t] = "send" /\ pc'[t] = "exit" /\ \A u \in Threads \ {t} : pc'[u] = pc[u]
        /\ hand' = Set(hand, t, NULL) /\ barrier' = IF barrier = t THEN NULL ELSE barrier
        /\ UNCHANGED <<queue, log, qr_dt>> /\ iostate' = SetConn(iostate, t, "ERROR")
    BY <1>0 DEF TypeOK
  <1>2. x \in Queries /\ outcome[x] = "taken"
    BY <1>0, <1>1 DEF TypeOK, HandInv
  <1>3. Moves(x, {"taken"}, {"failed"})
    BY <1>2 DEF Moves
  <1>4. HandInv'
    BY <1>0, <1>1, <1>3, HandEmptied
  <1>5. SlotInv'
    <2>1. \A q \in Queries : outcome[q] = "sent" <=> outcome'[q] = "sent"
      BY <1>0, <1>2, <1>3, MovesAt
    <2>2. \A u \in Threads, c \in Conns : iostate'[u][c] \in {iostate[u][c], "ERROR"}
      BY <1>0, <1>1, SetConnAt
    <2>3. QED
      BY <1>0, <1>1, <2>1, <2>2, SlotsUntouched
  <1>6. QueueInv' /\ BarrierOrder'
    <2>1. Moves(x, {"taken", "sent"}, {"sent", "answered", "failed"})
      BY <1>3 DEF Moves
    <2>2. QED
      BY <1>0, <1>1, <1>2, <2>1, ConcludeKeeps
  <1>7. QED
    BY <1>4, <1>5, <1>6 DEF QueryInv

LEMMA BookkeepingStates ==
  ASSUME TypeOK, NEW t \in Threads, Bookkeeping(t)
  PROVE  UNCHANGED iostate \/ iostate' = SetConn(iostate, t, "ERROR")
  BY DEF Bookkeeping, Open, OpenFails, LoopTest, LoopTestWith, Poll, PollInto, PollFails,
         InputFails, ConnError, Quiet, DequeueStarves, SkipFeed, Advance, AdvanceSeeing, Exit,
         FreeThread, connVars

LEMMA BookkeepingLife ==
  ASSUME LoopInv, NEW t \in Threads, Bookkeeping(t)
  PROVE  QueryInv'
  <1>0. TypeOK /\ HandInv /\ SlotInv /\ QueueInv /\ BarrierOrder
    BY DEF LoopInv
  <1>1. /\ UNCHANGED <<queue, barrier, hand, outcome, log, qr_dt>>
        /\ \A u \in Threads : pc[u] = "send" <=> pc'[u] = "send"
    BY <1>0, BookkeepingKeeps
  <1>2. HandInv'
    BY <1>0, <1>1, HandsUntouched DEF HandInv
  <1>3. SlotInv'
    <2>1. \A u \in Threads, c \in Conns : iostate'[u][c] \in {iostate[u][c], "ERROR"}
      BY <1>0, BookkeepingStates, SetConnAt
    <2>2. QED
      BY <1>0, <1>1, <2>1, SlotsUntouched
  <1>4. QueueInv' /\ BarrierOrder'
    BY <1>0, <1>1, ConcludeKeeps
  <1>5. QED
    BY <1>2, <1>3, <1>4 DEF QueryInv

LEMMA StepLife ==
  ASSUME LoopInv, [Next]_vars
  PROVE  QueryInv'
  <1>1. ASSUME NEW q \in Queries, Enqueue(q)
        PROVE  QueryInv'
    BY <1>1, EnqueueLife
  <1>2. ASSUME NEW t \in Threads, ThreadStep(t)
        PROVE  QueryInv'
    BY <1>2, ThreadStepKinds, BookkeepingLife, ReceiveLife, DequeueLife, SendLife,
       SendFailsLife
  <1>3. CASE FreeContext
    BY <1>3, FreeContextLife
  <1>4. CASE Stop \/ UNCHANGED vars
    <2>0. TypeOK /\ HandInv /\ SlotInv /\ QueueInv /\ BarrierOrder
      BY DEF LoopInv
    <2>1. UNCHANGED <<queue, log, outcome, hand, barrier, pc, qr_dt, iostate>>
      BY <1>4 DEF Stop, vars, connVars
    <2>2. HandInv'
      BY <2>0, <2>1, HandsUntouched DEF HandInv
    <2>3. SlotInv'
      BY <2>0, <2>1, SlotsUntouched
    <2>4. QueueInv' /\ BarrierOrder'
      BY <2>0, <2>1, ConcludeKeeps
    <2>5. QED
      BY <2>2, <2>3, <2>4 DEF QueryInv
  <1>5. QED
    BY <1>1, <1>2, <1>3, <1>4 DEF Next

-----------------------------------------------------------------------------
(* The end, and failures                                                    *)

LEMMA ThreadEnd ==
  ASSUME TypeOK, EndInv, NEW t \in Threads, ThreadStep(t)
  PROVE  /\ ~ joined /\ ~ joined'
         /\ faults' = 0 => /\ faults = 0
                           /\ \A c \in Conns : /\ iostate'[t][c] # "ERROR"
                                               /\ revents'[t][c] \in {"none", "input"}
  <1> USE DEF Goto, Set, mainVars, loopVars, connVars
  <1> DEFINE Sound == /\ \A c \in Conns : /\ iostate'[t][c] # "ERROR"
                                          /\ revents'[t][c] \in {"none", "input"}
  <1>0. /\ pc[t] # "done" => ~ joined
        /\ faults = 0 => \A c \in Conns : /\ iostate[t][c] # "ERROR"
                                          /\ revents[t][c] \in {"none", "input"}
        /\ faults \in Nat
        /\ iostate \in [Threads -> [Conns -> {"IDLE", "WAIT", "ERROR"}]]
        /\ revents \in [Threads -> [Conns -> {"none", "input", "error", "invalid"}]]
        /\ conn[t] \in Conns
    BY DEF TypeOK, EndInv
  <1>1. CASE Open(t)
    BY <1>0, <1>1 DEF Open
  <1>2. CASE OpenFails(t)
    BY <1>0, <1>2 DEF OpenFails, Fault
  <1>3. CASE LoopTest(t)
    BY <1>0, <1>3 DEF LoopTest, LoopTestWith
  <1>4. CASE Poll(t)
    <2>1. PICK r \in [Conns -> {"none", "input", "error", "invalid"}] :
             /\ Fault(Cardinality({c \in Conns : r[c] \in {"error", "invalid"}}))
             /\ revents' = Set(revents, t, r)
      BY <1>4 DEF Poll, PollInto
    <2> DEFINE F == {c \in Conns : r[c] \in {"error", "invalid"}}
    <2>2. IsFiniteSet(F) /\ Cardinality(F) \in Nat /\ (Cardinality(F) = 0 <=> F = {})
      BY FailuresFinite, FS_CardinalityType, FS_EmptySet
    <2>3. pc[t] = "poll" /\ joined' = joined /\ iostate' = iostate
      BY <1>4 DEF Poll, PollInto
    <2>4. ASSUME faults' = 0
          PROVE  faults = 0 /\ Sound
      <3>1. faults = 0 /\ Cardinality(F) = 0
        BY <1>0, <2>1, <2>2, <2>4 DEF Fault
      <3>2. \A c \in Conns : r[c] \in {"none", "input"}
        BY <2>2, <3>1
      <3>3. revents'[t] = r
        BY <1>0, <2>1
      <3>4. QED
        BY <1>0, <2>3, <3>1, <3>2, <3>3
    <2>5. QED
      BY <1>0, <2>3, <2>4
  <1>5. CASE PollFails(t)
    BY <1>0, <1>5 DEF PollFails, Fault
  <1>6. CASE Input(t)
    <2>1. /\ pc[t] = "conn" /\ joined' = joined /\ revents' = revents
          /\ iostate' = SetConn(iostate, t, "IDLE") /\ faults' \in {faults, faults + 1}
      BY <1>0, <1>6 DEF Input, InputLeaving, Fault
    <2>2. \A c \in Conns : iostate'[t][c] \in {iostate[t][c], "IDLE"}
      BY <2>1, SetConnAt
    <2>3. QED
      BY <1>0, <2>1, <2>2
  <1>7. CASE InputFails(t)
    BY <1>0, <1>7 DEF InputFails, Fault
  <1>8. CASE ConnError(t)
    <2>1. /\ pc[t] = "conn" /\ joined' = joined /\ revents[t][conn[t]] = "error"
          /\ faults' = faults
      BY <1>8 DEF ConnError, Reported
    <2>2. QED
      BY <1>0, <2>1
  <1>9. CASE ConnInvalid(t)
    <2>1. /\ pc[t] = "conn" /\ joined' = joined /\ revents[t][conn[t]] = "invalid"
          /\ faults' = faults
      BY <1>9 DEF ConnInvalid, Reported
    <2>2. QED
      BY <1>0, <2>1
  <1>10. CASE Quiet(t)
    BY <1>0, <1>10 DEF Quiet
  <1>11. CASE Dequeue(t)
    BY <1>0, <1>11 DEF Dequeue, DequeueUnder
  <1>12. CASE DequeueStarves(t)
    BY <1>0, <1>12 DEF DequeueStarves
  <1>13. CASE Send(t)
    <2>1. /\ pc[t] = "send" /\ joined' = joined /\ revents' = revents /\ faults' = faults
          /\ iostate' = iostate \/ iostate' = SetConn(iostate, t, "WAIT")
      BY <1>13 DEF Send, SendCounting
    <2>2. \A c \in Conns : iostate'[t][c] \in {iostate[t][c], "WAIT"}
      BY <2>1, SetConnAt
    <2>3. QED
      BY <1>0, <2>1, <2>2
  <1>14. CASE SendFails(t)
    BY <1>0, <1>14 DEF SendFails, Fault
  <1>15. CASE SkipFeed(t)
    BY <1>0, <1>15 DEF SkipFeed
  <1>16. CASE Advance(t)
    BY <1>0, <1>16 DEF Advance, AdvanceSeeing
  <1>17. CASE Exit(t)
    BY <1>0, <1>17 DEF Exit
  <1>18. CASE FreeThread(t)
    BY <1>0, <1>18 DEF FreeThread
  <1>19. QED
    BY <1>1, <1>2, <1>3, <1>4, <1>5, <1>6, <1>7, <1>8, <1>9, <1>10, <1>11, <1>12,
       <1>13, <1>14, <1>15, <1>16, <1>17, <1>18 DEF ThreadStep

LEMMA StepEnd ==
  ASSUME TypeOK, EndInv, [Next]_vars
  PROVE  EndInv'
  <1>1. ASSUME NEW t \in Threads, ThreadStep(t)
        PROVE  EndInv'
    <2>1. ASSUME faults' = 0, NEW u \in Threads, NEW c \in Conns
          PROVE  iostate'[u][c] # "ERROR" /\ revents'[u][c] \in {"none", "input"}
      <3>1. CASE u = t
        BY <1>1, <2>1, <3>1, ThreadEnd
      <3>2. CASE u # t
        <4>1. faults = 0
          BY <1>1, <2>1, ThreadEnd
        <4>2. iostate'[u] = iostate[u] /\ revents'[u] = revents[u]
          BY <1>1, <3>2, OthersStay
        <4>3. QED
          BY <4>1, <4>2 DEF EndInv
      <3>3. QED
        BY <3>1, <3>2
    <2>2. ~ joined'
      BY <1>1, ThreadEnd
    <2>3. QED
      BY <2>1, <2>2 DEF EndInv
  <1>2. ASSUME NEW q \in Queries, Enqueue(q)
        PROVE  EndInv'
    BY <1>2 DEF Enqueue, EndInv, mainVars, loopVars, connVars
  <1>3. CASE Stop
    BY <1>3 DEF Stop, EndInv, loopVars, connVars
  <1>4. CASE FreeContext
    <2>1. \A q \in Queries : outcome'[q] # "queued"
      BY <1>4 DEF FreeContext, FreeContextWhen
    <2>2. QED
      BY <1>4, <2>1 DEF FreeContext, FreeContextWhen, EndInv, loopVars, connVars
  <1>5. CASE UNCHANGED vars
    BY <1>5 DEF EndInv, vars, mainVars, loopVars, connVars
  <1>6. QED
    BY <1>1, <1>2, <1>3, <1>4, <1>5 DEF Next

-----------------------------------------------------------------------------
(* The invariant                                                            *)

LEMMA InitLoop == Init => LoopInv
  <1> SUFFICES ASSUME Init
               PROVE  LoopInv
    OBVIOUS
  <1>1. TypeOK
    BY TypeInit
  <1>2. CountInv
    BY DEF Init, CountInv, CountAt, Conns
  <1>3. HandInv
    BY LoopAssumption DEF Init, HandInv
  <1>4. SlotInv
    BY DEF Init, SlotInv
  <1>5. QueueInv
    <2>1. Len(log) = 0 /\ Len(queue) = 0
      BY DEF Init
    <2>2. QED
      BY <2>1 DEF QueueInv
  <1>6. BarrierOrder
    <2>1. DOMAIN log = {}
      BY DEF Init
    <2>2. QED
      BY <2>1 DEF BarrierOrder
  <1>7. EndInv
    BY DEF Init, EndInv
  <1>8. QED
    BY <1>1, <1>2, <1>3, <1>4, <1>5, <1>6, <1>7 DEF LoopInv

LEMMA NextLoop == LoopInv /\ [Next]_vars => LoopInv'
  <1> SUFFICES ASSUME LoopInv, [Next]_vars
               PROVE  LoopInv'
    OBVIOUS
  <1>0. TypeOK /\ CountInv /\ EndInv
    BY DEF LoopInv
  <1>1. TypeOK' /\ CountInv'
    <2>1. ASSUME NEW t \in Threads, ThreadStep(t)
          PROVE  TypeOK' /\ CountInv'
      BY <1>0, <2>1, StepCount, TypeThread
    <2>2. CASE \/ \E q \in Queries : Enqueue(q)
               \/ Stop \/ FreeContext \/ UNCHANGED vars
      <3>1. TypeOK'
        BY <1>0, <2>2, TypeOthers
      <3>2. UNCHANGED <<pc, conn, topoll, iostate>>
        BY <2>2 DEF Enqueue, Stop, FreeContext, FreeContextWhen, vars, loopVars, connVars
      <3>3. CountInv'
        BY <1>0, <3>2 DEF CountInv, CountAt
      <3>4. QED
        BY <3>1, <3>3
    <2>3. QED
      BY <2>1, <2>2 DEF Next
  <1>2. QueryInv'
    BY StepLife
  <1>3. EndInv'
    BY <1>0, StepEnd
  <1>4. QED
    BY <1>1, <1>2, <1>3 DEF LoopInv, QueryInv

LEMMA LoopCorrect == Spec => []LoopInv
  <1>1. Init => LoopInv
    BY InitLoop
  <1>2. LoopInv /\ [Next]_vars => LoopInv'
    BY NextLoop
  <1>3. QED
    BY <1>1, <1>2, PTL DEF Spec

(* The context and the threads' locals keep their types, in particular topoll *)
(* never exceeds the number of connections.                                 *)
THEOREM TypeCorrect == Spec => []TypeOK
  <1>1. LoopInv => TypeOK
    BY DEF LoopInv
  <1>2. QED
    BY LoopCorrect, <1>1, PTL

(* The loop condition counts the answers that are outstanding, whatever came  *)
(* in, failed or was sent during the pass (wlpq.c:450, 466-580).             *)
THEOREM CountCorrect == Spec => []TopollExact
  <1>1. LoopInv => TopollExact
    <2> SUFFICES ASSUME LoopInv, NEW t \in Threads, pc[t] = "test"
                 PROVE  topoll[t] = Cardinality(Waiting(t))
      BY DEF TopollExact
    <2>1. Waiting(t) = Upto(iostate[t], NConn)
      BY DEF Waiting, Upto, Conns
    <2>2. QED
      BY <2>1 DEF LoopInv, CountInv, CountAt
  <1>2. QED
    BY LoopCorrect, <1>1, PTL

(* A query in flight is in exactly one slot, over all threads (wlpq.c:530,    *)
(* 575).                                                                    *)
THEOREM SlotsCorrect == Spec => []CarriedOnce
  <1>1. LoopInv => CarriedOnce
    <2> SUFFICES ASSUME LoopInv
                 PROVE  CarriedOnce
      OBVIOUS
    <2>1. SlotInv /\ TypeOK
      BY DEF LoopInv
    <2>2. ASSUME NEW q \in Queries, outcome[q] = "sent"
          PROVE  Cardinality({tc \in Threads \X Conns : qr_dt[tc[1]][tc[2]] = q}) = 1
      <3>1. PICK t \in Threads, c \in Conns : qr_dt[t][c] = q
        BY <2>1, <2>2 DEF SlotInv
      <3>2. ASSUME NEW tc \in Threads \X Conns, qr_dt[tc[1]][tc[2]] = q
            PROVE  tc = <<t, c>>
        <4>1. tc[1] \in Threads /\ tc[2] \in Conns /\ tc = <<tc[1], tc[2]>> /\ q # NULL
          BY LoopAssumption
        <4>2. tc[1] = t /\ tc[2] = c
          BY <2>1, <3>1, <3>2, <4>1 DEF SlotInv
        <4>3. QED
          BY <4>1, <4>2
      <3>3. {tc \in Threads \X Conns : qr_dt[tc[1]][tc[2]] = q} = {<<t, c>>}
        BY <3>1, <3>2
      <3>4. QED
        BY <3>3, FS_Singleton
    <2>3. QED
      BY <2>1, <2>2 DEF CarriedOnce, SlotInv
  <1>2. QED
    BY LoopCorrect, <1>1, PTL

(* A lock_until_complete query is over before anything enqueued after it is   *)
(* taken, by any thread (wlpq.c:559).                                       *)
THEOREM BarrierCorrect == Spec => []BarrierOrder
  <1>1. LoopInv => BarrierOrder
    BY DEF LoopInv
  <1>2. QED
    BY LoopCorrect, <1>1, PTL

(* After a stop and a join without a failure nothing is abandoned.           *)
THEOREM StopLeavesNothing == Spec => []NothingInFlight
  <1>1. LoopInv => NothingInFlight
    <2> SUFFICES ASSUME LoopInv, joined, faults = 0, NEW q \in Queries
                 PROVE  outcome[q] \in {"new"} \cup Final
      BY DEF NothingInFlight
    <2>1. TypeOK /\ CountInv /\ HandInv /\ SlotInv /\ EndInv
      BY DEF LoopInv
    <2>2. \A t \in Threads : pc[t] = "done" /\ hand[t] = NULL
      BY <2>1 DEF EndInv, HandInv
    <2>3. outcome[q] # "queued"
      BY <2>1 DEF EndInv
    <2>4. outcome[q] # "taken"
      BY <2>1, <2>2, LoopAssumption DEF HandInv
    <2>5. outcome[q] # "sent"
      <3>1. ASSUME NEW t \in Threads, NEW c \in Conns
            PROVE  qr_dt[t][c] = NULL
        <4>1. iostate[t][c] \in {"IDLE", "WAIT", "ERROR"}
          BY <2>1 DEF TypeOK
        <4>2. iostate[t][c] # "ERROR" /\ iostate[t][c] # "WAIT"
          BY <2>1, <2>2 DEF EndInv, CountInv, CountAt
        <4>3. QED
          BY <2>1, <4>1, <4>2 DEF SlotInv
      <3>2. QED
        BY <2>1, <3>1, LoopAssumption DEF SlotInv
    <2>6. QED
      BY <2>1, <2>3, <2>4, <2>5 DEF TypeOK
  <1>2. QED
    BY LoopCorrect, <1>1, PTL

-----------------------------------------------------------------------------
(* The threads implement QueryService                                       *)

LEMMA ServiceThread ==
  ASSUME LoopInv, NEW t \in Threads, ThreadStep(t)
  PROVE  [Service!Next]_<<outcome, thread_continue>>
  <1> USE DEF Service!Next, Service!Becomes, mainVars, Goto
  <1>0. TypeOK /\ HandInv /\ SlotInv /\ QueueInv
    BY DEF LoopInv
  <1>1. CASE Bookkeeping(t)
    BY <1>0, <1>1, BookkeepingKeeps
  <1>2. CASE Input(t) \/ ConnInvalid(t)
    <2> DEFINE x == Carried(t)
    <2>1. /\ UNCHANGED thread_continue
          /\ \/ x = NULL /\ outcome' = outcome
             \/ x # NULL /\ \E s \in {"answered", "failed"} : outcome' = Set(outcome, x, s)
      BY <1>2 DEF Input, InputLeaving, ConnInvalid
    <2>2. x # NULL => x \in Queries /\ outcome[x] = "sent"
      BY <1>0 DEF TypeOK, SlotInv, Carried
    <2>3. CASE x = NULL
      BY <2>1, <2>3
    <2>4. CASE x # NULL
      <3>1. Service!Conclude(x)
        BY <2>1, <2>2, <2>4 DEF Service!Conclude, Set
      <3>2. QED
        BY <2>2, <2>4, <3>1
    <2>5. QED
      BY <2>3, <2>4
  <1>3. CASE Dequeue(t)
    <2> DEFINE x == Head(queue)
    <2>1. /\ queue # <<>> /\ outcome' = Set(outcome, x, "taken")
          /\ UNCHANGED thread_continue
      BY <1>3 DEF Dequeue, DequeueUnder, IsEmpty
    <2>2. x \in Queries /\ outcome[x] = "queued"
      <3>1. /\ queue \in Seq(Queries) /\ log \in Seq(Queries) /\ Len(queue) \in Nat \ {0}
            /\ x = queue[1] /\ x \in Queries
        BY <1>0, <2>1 DEF TypeOK
      <3>2. x = log[Gone + 1] /\ Gone + 1 \in 1..Len(log) /\ Gone + 1 > Gone
        BY <1>0, <3>1 DEF QueueInv, Gone
      <3>3. QED
        BY <1>0, <3>1, <3>2 DEF QueueInv
    <2>3. Service!Take(x)
      BY <2>1, <2>2 DEF Service!Take, Set
    <2>4. QED
      BY <2>2, <2>3
  <1>4. CASE Send(t) \/ SendFails(t)
    <2> DEFINE x == hand[t]
    <2>1. /\ pc[t] = "send" /\ UNCHANGED thread_continue
          /\ \E s \in {"answered", "sent", "failed"} : outcome' = Set(outcome, x, s)
      BY <1>4 DEF Send, SendCounting, SendFails
    <2>2. x \in Queries /\ outcome[x] = "taken"
      BY <1>0, <2>1 DEF TypeOK, HandInv
    <2>3. Service!Dispatch(x) \/ Service!Conclude(x)
      BY <2>1, <2>2 DEF Service!Dispatch, Service!Conclude, Set
    <2>4. QED
      BY <2>2, <2>3
  <1>5. QED
    BY <1>1, <1>2, <1>3, <1>4, ThreadStepKinds

(* To whoever enqueues, any number of threads over any number of connections  *)
(* are the query service: every query is taken once, concluded once, and not *)
(* touched afterwards, and what the release of the context discards was never *)
(* sent (wlpq.c:363-589, 625-648).                                          *)
THEOREM ServiceImplemented == Spec => ImplementsService
  <1>1. Init => Service!Init
    BY DEF Init, Service!Init
  <1>2. LoopInv /\ [Next]_vars => [Service!Next]_<<outcome, thread_continue>>
    <2> SUFFICES ASSUME LoopInv, [Next]_vars
                 PROVE  [Service!Next]_<<outcome, thread_continue>>
      OBVIOUS
    <2>1. ASSUME NEW t \in Threads, ThreadStep(t)
          PROVE  [Service!Next]_<<outcome, thread_continue>>
      BY <2>1, ServiceThread
    <2>2. ASSUME NEW q \in Queries, Enqueue(q)
          PROVE  [Service!Next]_<<outcome, thread_continue>>
      <3>1. Service!Submit(q)
        BY <2>2 DEF Enqueue, Set, mainVars, Service!Submit, Service!Becomes
      <3>2. QED
        BY <3>1 DEF Service!Next
    <2>3. CASE Stop
      BY <2>3 DEF Stop, Service!Next, Service!Close
    <2>4. CASE FreeContext
      BY <2>4 DEF FreeContext, FreeContextWhen, Service!Next, Service!Discard
    <2>5. CASE UNCHANGED vars
      BY <2>5 DEF vars, mainVars
    <2>6. QED
      BY <2>1, <2>2, <2>3, <2>4, <2>5 DEF Next
  <1>3. QED
    BY <1>1, <1>2, LoopCorrect, PTL DEF Spec, ImplementsService, Service!Spec

-----------------------------------------------------------------------------
(* One thread: the default of WLPQ_MAX_NCONNTHREADS                          *)

LEMMA InitSnapshot == Init => SnapshotInv
  BY DEF Init, SnapshotInv

LEMMA ThreadSnapshot ==
  ASSUME SingleThread, TypeOK, SnapshotInv, NEW t \in Threads, ThreadStep(t)
  PROVE  SnapshotInv'
  <1> USE DEF SnapshotInv, SingleThread, IsEmpty, Goto, Set, loopVars
  <1>0. /\ pc[t] # "starved"
        /\ pc[t] \in {"test", "poll", "conn", "feed"} /\ ~ empty[t] => ~ IsEmpty
        /\ pc \in [Threads -> Pcs] /\ empty \in [Threads -> BOOLEAN]
        /\ \A u \in Threads : u = t
    BY DEF TypeOK
  <1>1. CASE Open(t)
    BY <1>0, <1>1 DEF Open
  <1>2. CASE OpenFails(t)
    BY <1>0, <1>2 DEF OpenFails
  <1>3. CASE LoopTest(t)
    BY <1>0, <1>3 DEF LoopTest, LoopTestWith
  <1>4. CASE Poll(t)
    BY <1>0, <1>4 DEF Poll, PollInto
  <1>5. CASE PollFails(t)
    BY <1>0, <1>5 DEF PollFails
  <1>6. CASE Input(t)
    BY <1>0, <1>6 DEF Input, InputLeaving
  <1>7. CASE InputFails(t)
    BY <1>0, <1>7 DEF InputFails
  <1>8. CASE ConnError(t)
    BY <1>0, <1>8 DEF ConnError
  <1>9. CASE ConnInvalid(t)
    BY <1>0, <1>9 DEF ConnInvalid
  <1>10. CASE Quiet(t)
    BY <1>0, <1>10 DEF Quiet
  <1>11. CASE Dequeue(t)
    BY <1>0, <1>11 DEF Dequeue, DequeueUnder
  <1>12. CASE DequeueStarves(t)
    BY <1>0, <1>12 DEF DequeueStarves, Hungry
  <1>13. CASE Send(t)
    BY <1>0, <1>13 DEF Send, SendCounting
  <1>14. CASE SendFails(t)
    BY <1>0, <1>14 DEF SendFails
  <1>15. CASE SkipFeed(t)
    BY <1>0, <1>15 DEF SkipFeed
  <1>16. CASE Advance(t)
    BY <1>0, <1>16 DEF Advance, AdvanceSeeing
  <1>17. CASE Exit(t)
    BY <1>0, <1>17 DEF Exit
  <1>18. CASE FreeThread(t)
    BY <1>0, <1>18 DEF FreeThread
  <1>19. QED
    BY <1>1, <1>2, <1>3, <1>4, <1>5, <1>6, <1>7, <1>8, <1>9, <1>10, <1>11, <1>12,
       <1>13, <1>14, <1>15, <1>16, <1>17, <1>18 DEF ThreadStep

LEMMA NextSnapshot ==
  ASSUME SingleThread, TypeOK, SnapshotInv, [Next]_vars
  PROVE  SnapshotInv'
  <1>1. ASSUME NEW t \in Threads, ThreadStep(t)
        PROVE  SnapshotInv'
    BY <1>1, ThreadSnapshot
  <1>2. ASSUME NEW q \in Queries, Enqueue(q)
        PROVE  SnapshotInv'
    <2>1. queue' = Append(queue, q) /\ UNCHANGED <<pc, empty>>
      BY <1>2 DEF Enqueue, loopVars
    <2>2. queue' # <<>>
      <3>1. queue \in Seq(Queries)
        BY DEF TypeOK
      <3>2. QED
        BY <2>1, <3>1
    <2>3. QED
      BY <2>1, <2>2 DEF SnapshotInv, IsEmpty
  <1>3. CASE Stop
    BY <1>3 DEF Stop, SnapshotInv, IsEmpty, loopVars
  <1>4. CASE FreeContext
    BY <1>4 DEF FreeContext, FreeContextWhen, SnapshotInv, loopVars
  <1>5. CASE UNCHANGED vars
    BY <1>5 DEF SnapshotInv, IsEmpty, vars, loopVars
  <1>6. QED
    BY <1>1, <1>2, <1>3, <1>4, <1>5 DEF Next

(* A lone thread with any number of connections never goes into the dequeue   *)
(* of an empty queue, where it would wait while its connections have answers *)
(* (wlpq.c:537, 581).  With two threads this is false.                       *)
THEOREM LoneThreadNeverStarves ==
  ASSUME SingleThread
  PROVE  Spec => []NeverStarved
  <1>1. Init => SnapshotInv
    BY InitSnapshot
  <1>2. TypeOK /\ SnapshotInv /\ [Next]_vars => SnapshotInv'
    BY NextSnapshot
  <1>3. SnapshotInv => NeverStarved
    BY DEF SnapshotInv, NeverStarved, Hungry
  <1>4. QED
    BY <1>1, <1>2, <1>3, TypeCorrect, PTL DEF Spec
===============================================================================
