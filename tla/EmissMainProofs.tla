---------------------------- MODULE EmissMainProofs ----------------------------
(***************************************************************************)
(* Proofs about EmissMain, for any number of threads of a launch and any   *)
(* number of failing calls.  What keeps the two launches apart is only     *)
(* that main() reads thread_continue outside of them, so most of the       *)
(* invariant is under the condition ~ overlap.                             *)
(***************************************************************************)
EXTENDS EmissMain, TLAPS

(* Before the release of the context has begun.                             *)
Working == main \in {"launch", "check", "update", "parse", "drain", "countries", "run",
                     "serve", "free"}

NoneLaunching == \A l \in Launchers : ~ Launching(l)

(* Where main() stands tells what has been asked for so far.                 *)
OrderInv ==
    /\ main = "launch" => launcher["resource"] = "off" /\ Running = {}
    /\ main \in {"launch", "check", "update"} => launcher["update"] = "off"
    /\ \A l \in Launchers : launcher[l] \in {"off", "requested"} => index[l] = 0
    /\ Working => joining = 0

(* A launch has the indices for itself: it goes upwards over free ones, with   *)
(* the flag set, and an undone launch upwards over those it has freed.       *)
LaunchInv ==
    ~ overlap =>
        /\ \A l, m \in Launchers : Launching(l) /\ Launching(m) => l = m
        /\ \A l \in Launchers :
              /\ launcher[l] \in {"requested", "create"} =>
                     \A t \in Running : t[1] = l /\ t[2] < index[l]
              /\ launcher[l] = "create" /\ Working => thread_continue
              /\ launcher[l] = "undo" =>
                     \A i \in Slots : i < index[l] => thread_pt_id[i] = Nobody

(* Outside of a launch the flag is down only when no thread runs; from the     *)
(* stop on there is no launch, the join frees the indices upwards, and after *)
(* it no thread runs.                                                       *)
StopInv ==
    ~ overlap =>
        /\ Working /\ ~ thread_continue /\ NoneLaunching => Running = {}
        /\ main \in {"join", "release", "freed", "ended"} => NoneLaunching
        /\ main = "join" => \A i \in Slots : i < joining => thread_pt_id[i] = Nobody
        /\ main \in {"release", "freed", "ended"} => Running = {}
        /\ ctx = "freed" => main \in {"freed", "ended"}

LifeInv == TypeOK /\ OrderInv /\ LaunchInv /\ StopInv /\ RunningIsKnown

-----------------------------------------------------------------------------
(* Types *)

LEMMA SlotFacts ==
    /\ 0 \in Slots
    /\ \A i \in Slots : i \in Nat /\ i < NThreads
    /\ \A i \in Slots : i + 1 < NThreads => i + 1 \in Slots
BY MainAssumption DEF Slots

LEMMA OverlapsTyped == overlap \in BOOLEAN => Overlaps \in BOOLEAN
BY Zenon DEF Overlaps

LEMMA ThreadFacts ==
    /\ \A l \in Launchers, i \in Slots :
          /\ <<l, i>> \in Threads
          /\ <<l, i>>[1] = l /\ <<l, i>>[2] = i
    /\ \A t \in Threads : t[1] \in Launchers /\ t[2] \in Slots /\ t = <<t[1], t[2]>>
    /\ Running \subseteq Threads
BY DEF Threads, Running

LEMMA InitTyped == Init => TypeOK
<1> SUFFICES ASSUME Init
             PROVE  TypeOK
    OBVIOUS
<1> USE SlotFacts, MainAssumption DEF Init
<1>1. thread_pt_id \in [Slots -> Threads \cup {Nobody}]
    OBVIOUS
<1>2. /\ launcher \in [Launchers -> {"off", "requested", "create", "undo", "done"}]
      /\ index \in [Launchers -> Slots]
      /\ thread \in [Threads -> {"none", "running", "over"}]
    OBVIOUS
<1>3. main \in Mains /\ ctx \in {"live", "freed"} /\ thread_continue \in BOOLEAN
    BY DEF Mains
<1>4. /\ joining \in Slots /\ queue_empty \in BOOLEAN
      /\ server \in {"down", "up"} /\ terminate \in BOOLEAN /\ asked \in BOOLEAN
      /\ stuck \subseteq Threads /\ worker_waits \in BOOLEAN
    OBVIOUS
<1>5. overlap \in BOOLEAN /\ targets \subseteq Threads /\ stopped \in BOOLEAN
    OBVIOUS
<1>6. faults \in 0..MaxFaults
    OBVIOUS
<1> QED
    BY <1>1, <1>2, <1>3, <1>4, <1>5, <1>6 DEF TypeOK

LEMMA StepTyped == TypeOK /\ [Next]_vars => TypeOK'
<1> SUFFICES ASSUME TypeOK, [Next]_vars
             PROVE  TypeOK'
    OBVIOUS
<1> USE SlotFacts, MainAssumption DEF TypeOK, Mains, Goto, Fault, ctxVars, launchVars,
                                       serverVars, history, hangVars
<1>1. CASE RequestThreads
    BY <1>1 DEF RequestThreads, RequestLaunch
<1>2. CASE ShouldUpdate
    BY <1>2 DEF ShouldUpdate
<1>3. CASE EnsureActive
    BY <1>3, OverlapsTyped DEF EnsureActive, RequestLaunch, Launchers
<1>4. CASE EnqueueUpdate
    BY <1>4 DEF EnqueueUpdate
<1>5. CASE Drained
    BY <1>5 DEF Drained
<1>6. CASE InitServer
    BY <1>6 DEF InitServer
<1>7. CASE ResetTerminate
    BY <1>7 DEF ResetTerminate
<1>8. CASE StopServer
    BY <1>8 DEF StopServer
<1>9. CASE BeginFree
    BY <1>9, OverlapsTyped, ThreadFacts DEF BeginFree, BeginFreeStopping
<1>10. CASE Join
    BY <1>10 DEF Join
<1>11. CASE Release
    BY <1>11 DEF Release
<1>12. CASE End
    BY <1>12 DEF End
<1>13. CASE SetupFails
    BY <1>13 DEF SetupFails
<1>14. CASE SigactionFails
    BY <1>14 DEF SigactionFails
<1>15. CASE ExitRequest
    BY <1>15 DEF ExitRequest
<1>16. CASE SigTerm
    BY <1>16 DEF SigTerm
<1>17. ASSUME NEW l \in Launchers, BeginLaunch(l)
       PROVE  TypeOK'
    BY <1>17 DEF BeginLaunch, BeginLaunchWith
<1>18. ASSUME NEW l \in Launchers, CreateThread(l)
       PROVE  TypeOK'
  <2>1. index[l] \in Slots /\ <<l, index[l]>> \in Threads
    BY <1>18, ThreadFacts
  <2>2. /\ thread' \in [Threads -> {"none", "running", "over"}]
        /\ thread_pt_id' \in [Slots -> Threads \cup {Nobody}]
    BY <1>18, <2>1 DEF CreateThread
  <2>3. /\ launcher' \in [Launchers -> {"off", "requested", "create", "undo", "done"}]
        /\ index' \in [Launchers -> Slots]
    BY <1>18, <2>1 DEF CreateThread, NextIndex
  <2> QED
    BY <1>18, <2>2, <2>3 DEF CreateThread
<1>19. ASSUME NEW l \in Launchers, CreateFails(l)
       PROVE  TypeOK'
  <2>1. /\ launcher' \in [Launchers -> {"off", "requested", "create", "undo", "done"}]
        /\ index' \in [Launchers -> Slots]
        /\ faults' \in 0..MaxFaults
    BY <1>19 DEF CreateFails
  <2> QED
    BY <1>19, <2>1 DEF CreateFails
<1>20. ASSUME NEW l \in Launchers, UndoLaunch(l)
       PROVE  TypeOK'
    BY <1>20 DEF UndoLaunch, UndoLaunchWhen, NextIndex
<1>21. ASSUME NEW t \in Threads, SendQueued(t)
       PROVE  TypeOK'
    BY <1>21 DEF SendQueued
<1>22. ASSUME NEW t \in Threads, LeaveLoop(t)
       PROVE  TypeOK'
    BY <1>22 DEF LeaveLoop
<1>23. ASSUME NEW t \in Threads, ThreadFails(t)
       PROVE  TypeOK'
    BY <1>23 DEF ThreadFails
<1>24. CASE UNCHANGED vars
    BY <1>24 DEF vars
<1>25. CASE WorkerWaits
    BY <1>25 DEF WorkerWaits
<1>26. ASSUME NEW t \in Threads, GetStuck(t)
       PROVE  TypeOK'
    BY <1>26 DEF GetStuck
<1> QED
    BY <1>1, <1>2, <1>3, <1>4, <1>5, <1>6, <1>7, <1>8, <1>9, <1>10, <1>11, <1>12, <1>13, <1>14, <1>15, <1>16, <1>17, <1>18, <1>19, <1>20, <1>21, <1>22, <1>23, <1>24, <1>25, <1>26
    DEF Next, Main, Launch

(* Every variable keeps its type.                                            *)
THEOREM TypeCorrect == Spec => []TypeOK
<1>1. TypeOK /\ [Next]_vars => TypeOK'
    BY StepTyped
<1> QED
    BY InitTyped, <1>1, PTL DEF Spec

-----------------------------------------------------------------------------
(* The steps that launch, join and release nothing *)

(* main() goes on without touching a thread, a launch or the context.        *)
GoesOn ==
    \/ main' = main
    \/ Working /\ main' = "failed"
    \/ Working /\ Working' /\ main' \notin {"launch", "check", "update"}
    \/ main = "check" /\ main' = "update"
    \/ main = "freed" /\ main' = "ended"

Aside ==
    /\ GoesOn /\ Running' \subseteq Running
    /\ UNCHANGED <<ctx, thread_continue, thread_pt_id, launcher, index, joining, overlap>>

LEMMA RunningFacts ==
    /\ UNCHANGED thread => Running' = Running
    /\ \A t \in Threads : TypeOK /\ thread' = [thread EXCEPT ![t] = "over"]
                              => Running' \subseteq Running
    /\ \A t \in Threads : TypeOK /\ thread' = [thread EXCEPT ![t] = "running"]
                              => Running' = Running \cup {t}
BY DEF Running, TypeOK

LEMMA AsideKeeps ==
    ASSUME LifeInv, Aside, TypeOK'
    PROVE  LifeInv'
<1> USE DEF Aside
<1>1. NoneLaunching' = NoneLaunching /\ (\A l \in Launchers : Launching(l)' = Launching(l))
    BY DEF NoneLaunching, Launching
<1>2. Working' => Working
    BY DEF GoesOn, Working
<1>3. OrderInv'
    BY <1>2 DEF LifeInv, OrderInv, GoesOn, Working
<1>4. LaunchInv'
    BY <1>1, <1>2 DEF LifeInv, LaunchInv
<1>5. StopInv'
  <2> SUFFICES ASSUME ~ overlap'
               PROVE  StopInv'
      BY DEF StopInv
  <2> USE DEF LifeInv, StopInv
  <2>1. (Working /\ ~ thread_continue /\ NoneLaunching)' => Running' = {}
      BY <1>1, <1>2
  <2>2. main' \in {"join", "release", "freed", "ended"} =>
            main \in {"join", "release", "freed", "ended"} /\ (main' = "join" => main = "join")
            /\ (main' \in {"release", "freed", "ended"} =>
                    main \in {"release", "freed", "ended"})
      BY DEF GoesOn, Working
  <2>3. main' \in {"join", "release", "freed", "ended"} => NoneLaunching'
      BY <1>1, <2>2
  <2>4. main' = "join" => \A i \in Slots : i < joining' => thread_pt_id'[i] = Nobody
      BY <2>2
  <2>5. main' \in {"release", "freed", "ended"} => Running' = {}
      BY <2>2
  <2>6. ctx' = "freed" => main' \in {"freed", "ended"}
      BY DEF GoesOn, Working
  <2> QED
      BY <2>1, <2>3, <2>4, <2>5, <2>6
<1>6. RunningIsKnown'
    BY DEF LifeInv, RunningIsKnown
<1> QED
    BY <1>3, <1>4, <1>5, <1>6 DEF LifeInv

LEMMA MostStepsAside ==
    ASSUME TypeOK,
           \/ ShouldUpdate \/ EnqueueUpdate \/ Drained \/ InitServer \/ ResetTerminate
           \/ StopServer \/ End \/ SetupFails \/ SigactionFails \/ ExitRequest \/ SigTerm
           \/ WorkerWaits
           \/ \E t \in Threads : SendQueued(t) \/ LeaveLoop(t) \/ ThreadFails(t) \/ GetStuck(t)
           \/ UNCHANGED vars
    PROVE  Aside
<1> USE RunningFacts DEF Aside, GoesOn, Working, Goto, ctxVars, launchVars, serverVars,
                         history, hangVars
<1>1. CASE ShouldUpdate
    BY <1>1 DEF ShouldUpdate
<1>2. CASE EnqueueUpdate
    BY <1>2 DEF EnqueueUpdate
<1>3. CASE Drained
    BY <1>3 DEF Drained
<1>4. CASE InitServer
    BY <1>4 DEF InitServer
<1>5. CASE ResetTerminate
    BY <1>5 DEF ResetTerminate
<1>6. CASE StopServer
    BY <1>6 DEF StopServer
<1>7. CASE End
    BY <1>7 DEF End
<1>8. CASE SetupFails
    BY <1>8 DEF SetupFails
<1>9. CASE SigactionFails
    BY <1>9 DEF SigactionFails
<1>10. CASE ExitRequest
    BY <1>10 DEF ExitRequest
<1>11. CASE SigTerm
    BY <1>11 DEF SigTerm
<1>12. ASSUME NEW t \in Threads, SendQueued(t)
       PROVE  Aside
    BY <1>12 DEF SendQueued
<1>13. ASSUME NEW t \in Threads, LeaveLoop(t)
       PROVE  Aside
    BY <1>13 DEF LeaveLoop
<1>14. ASSUME NEW t \in Threads, ThreadFails(t)
       PROVE  Aside
    BY <1>14 DEF ThreadFails
<1>15. CASE UNCHANGED vars
    BY <1>15 DEF vars
<1>16. CASE WorkerWaits
    BY <1>16 DEF WorkerWaits
<1>17. ASSUME NEW t \in Threads, GetStuck(t)
       PROVE  Aside
    BY <1>17 DEF GetStuck
<1> QED
    BY <1>1, <1>2, <1>3, <1>4, <1>5, <1>6, <1>7, <1>8, <1>9, <1>10, <1>11, <1>12, <1>13,
       <1>14, <1>15, <1>16, <1>17

-----------------------------------------------------------------------------
(* Requests of a launch *)

(* Asked for while no thread runs and no other launch goes on, a launcher      *)
(* finds the indices free.                                                  *)
LEMMA RequestKeepsApart ==
    ASSUME TypeOK, OrderInv, NEW l \in Launchers,
           launcher[l] = "off", Running = {},
           \A m \in Launchers : ~ Launching(m),
           launcher' = [launcher EXCEPT ![l] = "requested"],
           UNCHANGED <<index, thread, thread_pt_id, thread_continue>>
    PROVE  LaunchInv'
<1>1. Running' = {}
    BY RunningFacts
<1>2. \A m \in Launchers : m # l => launcher'[m] = launcher[m] /\ ~ Launching(m)'
    BY DEF TypeOK, Launching
<1>3. launcher'[l] = "requested"
    BY DEF TypeOK
<1>4. \A k, m \in Launchers : Launching(k)' /\ Launching(m)' => k = m
    BY <1>2
<1>5. \A m \in Launchers : launcher'[m] \notin {"create", "undo"}
    BY <1>2, <1>3 DEF Launching
<1> QED
    BY <1>1, <1>4, <1>5 DEF LaunchInv

LEMMA RequestThreadsKeeps ==
    ASSUME LifeInv, RequestThreads, TypeOK'
    PROVE  LifeInv'
<1> USE DEF RequestThreads, RequestLaunch, Goto, ctxVars, history
<1>0. /\ main = "launch" /\ main' = "check" /\ "resource" \in Launchers
      /\ launcher["resource"] = "off" /\ launcher["update"] = "off" /\ Running = {}
      /\ launcher' = [launcher EXCEPT !["resource"] = "requested"] \/ launcher' = launcher
      /\ UNCHANGED <<index, thread, thread_pt_id, thread_continue, joining, ctx, overlap>>
    BY DEF LifeInv, OrderInv, Launchers
<1>1. \A m \in Launchers : ~ Launching(m)
    BY <1>0 DEF Launching, Launchers
<1>2. Running' = {}
    BY <1>0, RunningFacts
<1>3. launcher'["update"] = "off" /\ launcher'["resource"] \in {"off", "requested"}
    BY <1>0 DEF LifeInv, TypeOK, Launchers
<1>4. OrderInv'
    BY <1>0, <1>2, <1>3 DEF LifeInv, OrderInv, Working, Launchers
<1>5. LaunchInv'
  <2>1. CASE launcher' = [launcher EXCEPT !["resource"] = "requested"]
      BY <1>0, <1>1, <2>1, RequestKeepsApart DEF LifeInv
  <2>2. CASE launcher' = launcher
      BY <1>0, <1>1, <2>2 DEF LaunchInv, Launching
  <2> QED
      BY <1>0, <2>1, <2>2
<1>6. StopInv'
    BY <1>0, <1>2 DEF LifeInv, StopInv
<1>7. RunningIsKnown'
    BY <1>2 DEF RunningIsKnown
<1> QED
    BY <1>4, <1>5, <1>6, <1>7 DEF LifeInv

LEMMA EnsureActiveKeeps ==
    ASSUME LifeInv, EnsureActive, TypeOK'
    PROVE  LifeInv'
<1> USE DEF EnsureActive, RequestLaunch, Goto, ctxVars
<1>0. /\ main = "update" /\ main' = "parse" /\ "update" \in Launchers
      /\ launcher["update"] = "off"
      /\ \/ launcher' = launcher
         \/ /\ launcher' = [launcher EXCEPT !["update"] = "requested"]
            /\ ~ thread_continue
      /\ UNCHANGED <<index, thread, thread_pt_id, thread_continue, joining, ctx>>
    BY DEF LifeInv, OrderInv, Launchers
<1>1. ~ overlap' => ~ overlap /\ \A m \in Launchers : ~ Launching(m)
    BY DEF Overlaps
<1>2. Running' = Running
    BY <1>0, RunningFacts
<1>3. OrderInv'
  <2>1. \A m \in Launchers : \/ launcher'[m] = launcher[m]
                               \/ (launcher[m] = "off" /\ launcher'[m] = "requested")
      BY <1>0 DEF LifeInv, TypeOK
  <2> QED
      BY <1>0, <2>1 DEF LifeInv, OrderInv, Working
<1>4. ~ overlap' /\ ~ thread_continue => Running = {}
    BY <1>0, <1>1 DEF LifeInv, StopInv, NoneLaunching, Working
<1>5. LaunchInv'
  <2>1. CASE launcher' = launcher
      BY <1>0, <1>1, <2>1 DEF LaunchInv, Launching
  <2>2. CASE launcher' # launcher
    <3>1. CASE overlap'
        BY <3>1 DEF LaunchInv
    <3>2. CASE ~ overlap'
        BY <1>0, <1>1, <1>4, <2>2, <3>2, RequestKeepsApart DEF LifeInv
    <3> QED
        BY <3>1, <3>2
  <2> QED
      BY <2>1, <2>2
<1>6. StopInv'
    BY <1>0, <1>1, <1>2, <1>4 DEF LifeInv, StopInv
<1>7. RunningIsKnown'
    BY <1>0, <1>1, <1>2 DEF LifeInv, RunningIsKnown
<1> QED
    BY <1>3, <1>5, <1>6, <1>7 DEF LifeInv

-----------------------------------------------------------------------------
(* The stop and the release *)

LEMMA BeginFreeKeeps ==
    ASSUME LifeInv, BeginFree, TypeOK'
    PROVE  LifeInv'
<1> USE DEF BeginFree, BeginFreeStopping, Goto, launchVars
<1>0. /\ main = "free"
      /\ main' = "join" \/ (main' = "release" /\ ~ thread_continue)
      /\ UNCHANGED <<launcher, index, thread, thread_pt_id, joining, ctx>>
    OBVIOUS
<1>1. ~ overlap' => ~ overlap /\ \A m \in Launchers : ~ Launching(m)
    BY DEF Overlaps
<1>2. Running' = Running /\ \A m \in Launchers : Launching(m)' = Launching(m)
    BY <1>0, RunningFacts DEF Launching
<1>3. OrderInv'
    BY <1>0 DEF LifeInv, OrderInv, Working
<1>4. LaunchInv'
    BY <1>0, <1>1, <1>2 DEF LaunchInv, Launching
<1>5. StopInv'
  <2> SUFFICES ASSUME ~ overlap'
               PROVE  StopInv'
      BY DEF StopInv
  <2>1. NoneLaunching /\ NoneLaunching' /\ Working /\ ~ Working'
      BY <1>0, <1>1, <1>2 DEF NoneLaunching, Working
  <2>2. joining' = 0
      BY <1>0, <2>1 DEF LifeInv, OrderInv
  <2>3. ~ thread_continue => Running = {}
      BY <1>1, <2>1 DEF LifeInv, StopInv
  <2>4. ctx' # "freed"
      BY <1>0, <1>1 DEF LifeInv, StopInv
  <2>5. \A i \in Slots : ~ (i < joining')
      BY <2>2, SlotFacts
  <2> QED
      BY <1>0, <1>2, <2>1, <2>3, <2>4, <2>5 DEF StopInv
<1>6. RunningIsKnown'
    BY <1>0, <1>1, <1>2 DEF LifeInv, RunningIsKnown
<1> QED
    BY <1>3, <1>4, <1>5, <1>6 DEF LifeInv

(* An index is only cleared when the thread known under it is over, so that    *)
(* the running threads stay known.                                          *)
LEMMA ClearedIsOver ==
    ASSUME TypeOK, RunningIsKnown, NEW i \in Slots, Joinable(i),
           thread_pt_id' = [thread_pt_id EXCEPT ![i] = Nobody],
           UNCHANGED <<thread, overlap>>
    PROVE  /\ RunningIsKnown'
           /\ thread_pt_id'[i] = Nobody
           /\ \A j \in Slots : thread_pt_id[j] = Nobody => thread_pt_id'[j] = Nobody
<1>1. thread_pt_id \in [Slots -> Threads \cup {Nobody}]
    BY DEF TypeOK
<1>2. /\ thread_pt_id'[i] = Nobody
      /\ \A j \in Slots : j # i => thread_pt_id'[j] = thread_pt_id[j]
    BY <1>1
<1>3. Running' = Running
    BY RunningFacts
<1>4. ASSUME ~ overlap, NEW t \in Running
      PROVE  thread_pt_id'[t[2]] = t
  <2>1. t \in Threads /\ t[2] \in Slots /\ thread[t] = "running"
      BY ThreadFacts DEF Running
  <2>2. thread_pt_id[t[2]] = t
      BY <1>4 DEF RunningIsKnown
  <2>3. t # Nobody
      BY <2>1, ThreadFacts DEF Nobody, Launchers
  <2>4. t[2] # i
      BY <2>1, <2>2, <2>3 DEF Joinable
  <2> QED
      BY <1>2, <2>1, <2>2, <2>4
<1> QED
    BY <1>2, <1>3, <1>4 DEF RunningIsKnown

(* When no index has a thread, none runs.                                    *)
LEMMA NobodyNoneRuns ==
    ASSUME NEW R \in SUBSET Threads, NEW known,
           \A t \in R : known[t[2]] = t,
           \A i \in Slots : known[i] = Nobody
    PROVE  R = {}
<1> SUFFICES ASSUME NEW t \in R
             PROVE  FALSE
    OBVIOUS
<1>1. t[1] \in Launchers /\ t[2] \in Slots /\ t = <<t[1], t[2]>>
    BY ThreadFacts
<1>2. t = Nobody
    BY <1>1
<1> QED
    BY <1>1, <1>2 DEF Nobody, Launchers

LEMMA JoinKeeps ==
    ASSUME LifeInv, Join, TypeOK'
    PROVE  LifeInv'
<1> USE DEF Join, launchVars
<1>0. /\ main = "join" /\ main' \in {"join", "release", "failed"}
      /\ UNCHANGED <<launcher, index, thread, thread_continue, overlap, ctx>>
      /\ joining \in Slots /\ Joinable(joining)
      /\ thread_pt_id' = [thread_pt_id EXCEPT ![joining] = Nobody]
      /\ main' = "release" => joining + 1 >= NThreads
      /\ main' = "join" => joining' = joining + 1
    BY SlotFacts, MainAssumption DEF LifeInv, TypeOK
<1>1. Running' = Running /\ \A m \in Launchers : Launching(m)' = Launching(m)
    BY <1>0, RunningFacts DEF Launching
<1>2. /\ RunningIsKnown' /\ thread_pt_id'[joining] = Nobody
      /\ \A j \in Slots : thread_pt_id[j] = Nobody => thread_pt_id'[j] = Nobody
    BY <1>0, ClearedIsOver DEF LifeInv
<1>3. OrderInv'
    BY <1>0, <1>1 DEF LifeInv, OrderInv, Working
<1>4. ~ overlap => \A m \in Launchers : ~ Launching(m)
    BY <1>0 DEF LifeInv, StopInv, NoneLaunching
<1>5. LaunchInv'
    BY <1>0, <1>1, <1>4 DEF LaunchInv, Launching
<1>6. StopInv'
  <2> SUFFICES ASSUME ~ overlap
               PROVE  StopInv'
      BY <1>0 DEF StopInv
  <2>1. \A i \in Slots : i < joining + 1 => thread_pt_id'[i] = Nobody
    <3> SUFFICES ASSUME NEW i \in Slots, i < joining + 1
                 PROVE  thread_pt_id'[i] = Nobody
        OBVIOUS
    <3>1. i = joining \/ i < joining
        BY <1>0, SlotFacts
    <3> QED
        BY <1>0, <1>2, <3>1 DEF LifeInv, StopInv
  <2>2. NoneLaunching' /\ ~ Working'
      BY <1>0, <1>1, <1>4 DEF NoneLaunching, Working
  <2>3. main' = "release" => Running' = {}
    <3> SUFFICES ASSUME main' = "release"
                 PROVE  Running' = {}
        OBVIOUS
    <3>1. \A i \in Slots : i < joining + 1
        BY <1>0, SlotFacts, MainAssumption
    <3>2. \A i \in Slots : thread_pt_id'[i] = Nobody
        BY <2>1, <3>1
    <3>3. \A t \in Running' : thread_pt_id'[t[2]] = t
        BY <1>0, <1>2 DEF RunningIsKnown
    <3>4. Running' \in SUBSET Threads
        BY <1>1, ThreadFacts
    <3> QED
        BY <3>2, <3>3, <3>4, NobodyNoneRuns
  <2>4. ctx' # "freed"
      BY <1>0 DEF LifeInv, StopInv
  <2> QED
      BY <1>0, <2>1, <2>2, <2>3, <2>4 DEF StopInv
<1> QED
    BY <1>2, <1>3, <1>5, <1>6 DEF LifeInv

LEMMA ReleaseKeeps ==
    ASSUME LifeInv, Release, TypeOK'
    PROVE  LifeInv'
<1> USE DEF Release, Goto, launchVars, history
<1>0. /\ main = "release" /\ main' = "freed"
      /\ UNCHANGED <<launcher, index, thread, thread_continue, thread_pt_id, overlap,
                     joining>>
    OBVIOUS
<1>1. /\ Running' = Running /\ \A m \in Launchers : Launching(m)' = Launching(m)
      /\ NoneLaunching' = NoneLaunching
    BY <1>0, RunningFacts DEF Launching, NoneLaunching
<1>2. OrderInv'
    BY <1>0, <1>1 DEF LifeInv, OrderInv, Working
<1>3. LaunchInv'
    BY <1>0, <1>1 DEF LifeInv, LaunchInv, StopInv, NoneLaunching, Launching
<1>4. StopInv'
    BY <1>0, <1>1 DEF LifeInv, StopInv, Working
<1>5. RunningIsKnown'
    BY <1>0, <1>1 DEF LifeInv, RunningIsKnown
<1> QED
    BY <1>2, <1>3, <1>4, <1>5 DEF LifeInv

-----------------------------------------------------------------------------
(* The steps of a launcher *)

(* A launch belongs to the time before the stop, unless main() read the flag    *)
(* in the middle of it.                                                     *)
LEMMA LaunchIsBefore ==
    ASSUME LifeInv, NEW l \in Launchers, Launching(l), ~ overlap, Alive
    PROVE  /\ Working /\ ctx # "freed"
           /\ \A m \in Launchers : Launching(m) => m = l
<1>1. main \notin {"join", "release", "freed", "ended", "failed"}
    BY DEF LifeInv, StopInv, NoneLaunching, Alive
<1>2. Working
    BY <1>1 DEF LifeInv, TypeOK, Mains, Working
<1>3. ctx # "freed"
    BY <1>1 DEF LifeInv, StopInv
<1> QED
    BY <1>2, <1>3 DEF LifeInv, LaunchInv

LEMMA BeginLaunchKeeps ==
    ASSUME LifeInv, NEW l \in Launchers, BeginLaunch(l), TypeOK'
    PROVE  LifeInv'
<1> USE DEF BeginLaunch, BeginLaunchWith, history
<1>0. /\ launcher[l] = "requested" /\ Launching(l) /\ Alive
      /\ launcher' = [launcher EXCEPT ![l] = "create"]
      /\ thread_continue' = TRUE
      /\ UNCHANGED <<main, ctx, thread_pt_id, index, thread, joining, overlap>>
    BY DEF Launching
<1>1. Running' = Running
    BY <1>0, RunningFacts
<1>2. /\ launcher'[l] = "create"
      /\ \A m \in Launchers : m # l => launcher'[m] = launcher[m]
      /\ \A m \in Launchers : Launching(m)' = Launching(m)
    BY <1>0 DEF LifeInv, TypeOK, Launching
<1>3. OrderInv'
  <2>1. index[l] = 0
      BY <1>0 DEF LifeInv, OrderInv
  <2>2. main \in {"launch", "check", "update"} => l # "update"
      BY <1>0 DEF LifeInv, OrderInv
  <2>3. main = "launch" => l # "resource"
      BY <1>0 DEF LifeInv, OrderInv
  <2> QED
      BY <1>0, <1>1, <1>2, <2>1, <2>2, <2>3 DEF LifeInv, OrderInv, Working, Launchers
<1>4. LaunchInv'
  <2> SUFFICES ASSUME ~ overlap
               PROVE  LaunchInv'
      BY <1>0 DEF LaunchInv
  <2>1. \A m \in Launchers : m # l => ~ Launching(m)'
      BY <1>0, <1>2, LaunchIsBefore
  <2>2. \A t \in Running' : t[1] = l /\ t[2] < index'[l]
      BY <1>0, <1>1 DEF LifeInv, LaunchInv
  <2>3. \A m \in Launchers : m # l => launcher'[m] \in {"off", "done"}
      BY <2>1 DEF Launching
  <2> QED
      BY <1>0, <1>2, <2>1, <2>2, <2>3 DEF LaunchInv
<1>5. StopInv'
  <2> SUFFICES ASSUME ~ overlap
               PROVE  StopInv'
      BY <1>0 DEF StopInv
  <2>1. Working' /\ ctx' # "freed"
      BY <1>0, LaunchIsBefore DEF Working
  <2> QED
      BY <1>0, <2>1 DEF StopInv, Working
<1>6. RunningIsKnown'
    BY <1>0, <1>1 DEF LifeInv, RunningIsKnown
<1> QED
    BY <1>3, <1>4, <1>5, <1>6 DEF LifeInv

LEMMA CreateThreadKeeps ==
    ASSUME LifeInv, NEW l \in Launchers, CreateThread(l), TypeOK'
    PROVE  LifeInv'
<1> DEFINE n == <<l, index[l]>>
<1>0. /\ launcher[l] = "create" /\ Launching(l) /\ Alive
      /\ thread' = [thread EXCEPT ![n] = "running"]
      /\ thread_pt_id' = [thread_pt_id EXCEPT ![index[l]] = n]
      /\ index[l] \in Slots /\ n \in Threads
      /\ UNCHANGED <<main, ctx, thread_continue, joining, overlap>>
    BY ThreadFacts DEF CreateThread, Launching, LifeInv, TypeOK, history
<1>1. \/ /\ index' = [index EXCEPT ![l] = @ + 1] /\ launcher' = launcher
      \/ /\ launcher' = [launcher EXCEPT ![l] = "done"] /\ index' = index
    BY DEF CreateThread, NextIndex
<1>2. n[1] = l /\ n[2] = index[l]
    OBVIOUS
<1> HIDE DEF n
<1>3. Running' = Running \cup {n}
    BY <1>0, RunningFacts DEF LifeInv
<1>4. /\ \A m \in Launchers : m # l => launcher'[m] = launcher[m] /\ index'[m] = index[m]
      /\ \/ launcher'[l] = "create" /\ index'[l] = index[l] + 1
         \/ launcher'[l] = "done"
    BY <1>0, <1>1 DEF LifeInv, TypeOK
<1>5. OrderInv'
  <2>1. main \in {"launch", "check", "update"} => l # "update"
      BY <1>0 DEF LifeInv, OrderInv
  <2>2. main = "launch" => l # "resource"
      BY <1>0 DEF LifeInv, OrderInv
  <2> QED
      BY <1>0, <1>4, <2>1, <2>2 DEF LifeInv, OrderInv, Working, Launchers
<1>6. LaunchInv'
  <2> SUFFICES ASSUME ~ overlap
               PROVE  LaunchInv'
      BY <1>0 DEF LaunchInv
  <2>1. /\ \A m \in Launchers : m # l => launcher'[m] \in {"off", "done"}
        /\ Working
    <3>1. \A m \in Launchers : m # l => ~ Launching(m)
        BY <1>0, LaunchIsBefore
    <3> QED
        BY <1>0, <1>4, <3>1, LaunchIsBefore DEF Launching
  <2>2. \A k, m \in Launchers : Launching(k)' /\ Launching(m)' => k = m
      BY <2>1 DEF Launching
  <2>3. launcher'[l] = "create" => \A t \in Running' : t[1] = l /\ t[2] < index'[l]
    <3> SUFFICES ASSUME launcher'[l] = "create", NEW t \in Running'
                 PROVE  t[1] = l /\ t[2] < index'[l]
        OBVIOUS
    <3>1. index'[l] = index[l] + 1
        BY <1>4
    <3>2. CASE t = n
        BY <1>0, <1>2, <3>1, <3>2, SlotFacts
    <3>3. CASE t \in Running
      <4>1. t[1] = l /\ t[2] < index[l] /\ t[2] \in Nat
          BY <1>0, <3>3, ThreadFacts, SlotFacts DEF LifeInv, LaunchInv
      <4> QED
          BY <1>0, <3>1, <4>1, SlotFacts
    <3> QED
        BY <1>3, <3>2, <3>3
  <2>4. thread_continue
      BY <1>0, <2>1 DEF LifeInv, LaunchInv
  <2>5. launcher'[l] \in {"create", "done"}
      BY <1>4
  <2> QED
      BY <1>0, <2>1, <2>2, <2>3, <2>4, <2>5 DEF LaunchInv
<1>7. StopInv'
  <2> SUFFICES ASSUME ~ overlap
               PROVE  StopInv'
      BY <1>0 DEF StopInv
  <2>1. Working /\ Working' /\ ctx' # "freed"
      BY <1>0, LaunchIsBefore DEF Working
  <2>2. thread_continue'
      BY <1>0, <2>1 DEF LifeInv, LaunchInv
  <2> QED
      BY <2>1, <2>2 DEF StopInv, Working
<1>8. RunningIsKnown'
  <2> SUFFICES ASSUME ~ overlap, NEW t \in Running'
               PROVE  thread_pt_id'[t[2]] = t
      BY <1>0 DEF RunningIsKnown
  <2>1. CASE t = n
      BY <1>0, <1>2, <2>1 DEF LifeInv, TypeOK
  <2>2. CASE t \in Running
    <3>1. t[2] < index[l] /\ t[2] \in Slots
        BY <1>0, <2>2, ThreadFacts DEF LifeInv, LaunchInv
    <3>2. thread_pt_id[t[2]] = t
        BY <2>2 DEF LifeInv, RunningIsKnown
    <3>3. t[2] # index[l]
        BY <1>0, <3>1, SlotFacts
    <3> QED
        BY <1>0, <3>1, <3>2, <3>3 DEF LifeInv, TypeOK
  <2> QED
      BY <1>3, <2>1, <2>2
<1> QED
    BY <1>5, <1>6, <1>7, <1>8 DEF LifeInv

LEMMA CreateFailsKeeps ==
    ASSUME LifeInv, NEW l \in Launchers, CreateFails(l), TypeOK'
    PROVE  LifeInv'
<1>0. /\ launcher[l] = "create" /\ Launching(l) /\ Alive
      /\ launcher' = [launcher EXCEPT ![l] = "undo"]
      /\ index' = [index EXCEPT ![l] = 0]
      /\ UNCHANGED <<main, ctx, thread_pt_id, thread, joining, overlap>>
    BY DEF CreateFails, Launching, history
<1>1. Running' = Running
    BY <1>0, RunningFacts
<1>2. /\ launcher'[l] = "undo" /\ index'[l] = 0
      /\ \A m \in Launchers : m # l => launcher'[m] = launcher[m] /\ index'[m] = index[m]
      /\ \A m \in Launchers : Launching(m)' = Launching(m)
    BY <1>0 DEF LifeInv, TypeOK, Launching
<1>3. OrderInv'
  <2>1. main \in {"launch", "check", "update"} => l # "update"
      BY <1>0 DEF LifeInv, OrderInv
  <2>2. main = "launch" => l # "resource"
      BY <1>0 DEF LifeInv, OrderInv
  <2> QED
      BY <1>0, <1>1, <1>2, <2>1, <2>2 DEF LifeInv, OrderInv, Working, Launchers
<1>4. LaunchInv'
  <2> SUFFICES ASSUME ~ overlap
               PROVE  LaunchInv'
      BY <1>0 DEF LaunchInv
  <2>1. \A m \in Launchers : m # l => ~ Launching(m)'
      BY <1>0, <1>2, LaunchIsBefore
  <2>2. \A m \in Launchers : m # l => launcher'[m] \in {"off", "done"}
      BY <2>1 DEF Launching
  <2>3. \A i \in Slots : ~ (i < index'[l])
      BY <1>2, SlotFacts
  <2> QED
      BY <1>0, <1>2, <2>1, <2>2, <2>3 DEF LaunchInv
<1>5. StopInv'
  <2> SUFFICES ASSUME ~ overlap
               PROVE  StopInv'
      BY <1>0 DEF StopInv
  <2>1. Working' /\ ctx' # "freed" /\ ~ NoneLaunching'
      BY <1>0, <1>2, LaunchIsBefore DEF Working, NoneLaunching
  <2> QED
      BY <2>1 DEF StopInv, Working
<1>6. RunningIsKnown'
    BY <1>0, <1>1 DEF LifeInv, RunningIsKnown
<1> QED
    BY <1>3, <1>4, <1>5, <1>6 DEF LifeInv

LEMMA UndoLaunchKeeps ==
    ASSUME LifeInv, NEW l \in Launchers, UndoLaunch(l), TypeOK'
    PROVE  LifeInv'
<1>0. /\ launcher[l] = "undo" /\ Launching(l) /\ Alive
      /\ index[l] \in Slots /\ Joinable(index[l])
      /\ thread_pt_id' = [thread_pt_id EXCEPT ![index[l]] = Nobody]
      /\ main' = "failed" \/ main' = main
      /\ UNCHANGED <<ctx, thread_continue, thread, joining, overlap>>
    BY DEF UndoLaunch, UndoLaunchWhen, Launching, LifeInv, TypeOK, history
<1>1. \/ /\ index[l] + 1 < NThreads
         /\ index' = [index EXCEPT ![l] = @ + 1] /\ launcher' = launcher
      \/ /\ ~ (index[l] + 1 < NThreads)
         /\ launcher' = [launcher EXCEPT ![l] = "done"] /\ index' = index
    BY DEF UndoLaunch, UndoLaunchWhen, NextIndex
<1>2. /\ \A m \in Launchers : m # l => launcher'[m] = launcher[m] /\ index'[m] = index[m]
      /\ \/ launcher'[l] = "undo" /\ index'[l] = index[l] + 1
         \/ launcher'[l] = "done" /\ ~ (index[l] + 1 < NThreads)
    BY <1>0, <1>1 DEF LifeInv, TypeOK
<1>3. Running' = Running
    BY <1>0, RunningFacts
<1>4. /\ RunningIsKnown' /\ thread_pt_id'[index[l]] = Nobody
      /\ \A j \in Slots : thread_pt_id[j] = Nobody => thread_pt_id'[j] = Nobody
    BY <1>0, ClearedIsOver DEF LifeInv
<1>5. ~ overlap =>
          \A i \in Slots : i < index[l] + 1 => thread_pt_id'[i] = Nobody
  <2> SUFFICES ASSUME ~ overlap, NEW i \in Slots, i < index[l] + 1
               PROVE  thread_pt_id'[i] = Nobody
      OBVIOUS
  <2>1. i = index[l] \/ i < index[l]
      BY <1>0, SlotFacts
  <2> QED
      BY <1>0, <1>4, <2>1 DEF LifeInv, LaunchInv
<1>6. OrderInv'
  <2>1. main \in {"launch", "check", "update"} => l # "update"
      BY <1>0 DEF LifeInv, OrderInv
  <2>2. main = "launch" => l # "resource"
      BY <1>0 DEF LifeInv, OrderInv
  <2>3. Working' => Working
      BY <1>0 DEF Working
  <2>4. launcher'[l] \in {"undo", "done"}
      BY <1>2
  <2> QED
      BY <1>0, <1>2, <1>3, <2>1, <2>2, <2>3, <2>4 DEF LifeInv, OrderInv, Launchers
<1>7. LaunchInv'
  <2> SUFFICES ASSUME ~ overlap
               PROVE  LaunchInv'
      BY <1>0 DEF LaunchInv
  <2>1. \A m \in Launchers : m # l => launcher'[m] \in {"off", "done"}
    <3>1. \A m \in Launchers : m # l => ~ Launching(m)
        BY <1>0, LaunchIsBefore
    <3> QED
        BY <1>2, <3>1 DEF Launching
  <2>2. \A k, m \in Launchers : Launching(k)' /\ Launching(m)' => k = m
      BY <2>1 DEF Launching
  <2>3. launcher'[l] \in {"undo", "done"}
      BY <1>2
  <2>4. launcher'[l] = "undo" =>
            \A i \in Slots : i < index'[l] => thread_pt_id'[i] = Nobody
      BY <1>2, <1>5
  <2> QED
      BY <1>0, <2>1, <2>2, <2>3, <2>4 DEF LaunchInv
<1>8. StopInv'
  <2> SUFFICES ASSUME ~ overlap
               PROVE  StopInv'
      BY <1>0 DEF StopInv
  <2>1. Working /\ ctx' # "freed" /\ main' \notin {"join", "release", "freed", "ended"}
      BY <1>0, LaunchIsBefore DEF Working
  <2>2. NoneLaunching' => Running' = {}
    <3> SUFFICES ASSUME NoneLaunching'
                 PROVE  Running' = {}
        OBVIOUS
    <3>1. ~ (index[l] + 1 < NThreads)
        BY <1>2 DEF NoneLaunching, Launching
    <3>2. \A i \in Slots : i < index[l] + 1
        BY <1>0, <3>1, SlotFacts, MainAssumption
    <3>3. \A i \in Slots : thread_pt_id'[i] = Nobody
        BY <1>5, <3>2
    <3>4. \A t \in Running' : thread_pt_id'[t[2]] = t
        BY <1>0, <1>4 DEF RunningIsKnown
    <3>5. Running' \in SUBSET Threads
        BY <1>3, ThreadFacts
    <3> QED
        BY <3>3, <3>4, <3>5, NobodyNoneRuns
  <2> QED
      BY <2>1, <2>2 DEF StopInv
<1> QED
    BY <1>4, <1>6, <1>7, <1>8 DEF LifeInv

-----------------------------------------------------------------------------
(* The theorems *)

LEMMA InitLife == Init => LifeInv
<1> SUFFICES ASSUME Init
             PROVE  LifeInv
    OBVIOUS
<1>1. Running = {}
    BY DEF Init, Running
<1>2. \A l \in Launchers : launcher[l] = "off" /\ index[l] = 0 /\ ~ Launching(l)
    BY DEF Init, Launching
<1>3. OrderInv
    BY <1>1, <1>2 DEF Init, OrderInv, Launchers
<1>4. LaunchInv /\ RunningIsKnown
    BY <1>1, <1>2 DEF LaunchInv, RunningIsKnown
<1>5. StopInv
    BY <1>1 DEF Init, StopInv
<1> QED
    BY InitTyped, <1>3, <1>4, <1>5 DEF LifeInv

LEMMA StepLife == LifeInv /\ [Next]_vars => LifeInv'
<1> SUFFICES ASSUME LifeInv, [Next]_vars
             PROVE  LifeInv'
    OBVIOUS
<1>0. TypeOK /\ TypeOK'
    BY StepTyped DEF LifeInv
<1>1. CASE \/ ShouldUpdate \/ EnqueueUpdate \/ Drained \/ InitServer \/ ResetTerminate
           \/ StopServer \/ End \/ SetupFails \/ SigactionFails \/ ExitRequest \/ SigTerm
           \/ WorkerWaits
           \/ \E t \in Threads : SendQueued(t) \/ LeaveLoop(t) \/ ThreadFails(t) \/ GetStuck(t)
           \/ UNCHANGED vars
    BY <1>0, <1>1, MostStepsAside, AsideKeeps
<1>2. CASE RequestThreads
    BY <1>0, <1>2, RequestThreadsKeeps
<1>3. CASE EnsureActive
    BY <1>0, <1>3, EnsureActiveKeeps
<1>4. CASE BeginFree
    BY <1>0, <1>4, BeginFreeKeeps
<1>5. CASE Join
    BY <1>0, <1>5, JoinKeeps
<1>6. CASE Release
    BY <1>0, <1>6, ReleaseKeeps
<1>7. ASSUME NEW l \in Launchers, Launch(l)
      PROVE  LifeInv'
    BY <1>0, <1>7, BeginLaunchKeeps, CreateThreadKeeps, CreateFailsKeeps, UndoLaunchKeeps
    DEF Launch
<1> QED
    BY <1>1, <1>2, <1>3, <1>4, <1>5, <1>6, <1>7 DEF Next, Main

LEMMA LifeHolds == Spec => []LifeInv
<1>1. LifeInv /\ [Next]_vars => LifeInv'
    BY StepLife
<1> QED
    BY InitLife, <1>1, PTL DEF Spec

(* Unless main() looked at the flag in the middle of a launch, the context is    *)
(* freed after every thread and every launcher that uses it has ended.      *)
THEOREM FreedLastCorrect == Spec => []FreedLast
<1>1. LifeInv => FreedLast
    BY DEF LifeInv, StopInv, FreedLast, NoneLaunching
<1> QED
    BY LifeHolds, <1>1, PTL

(* Under the same condition every running thread is known under its index, and    *)
(* so will be joined.                                                       *)
THEOREM RunningKnown == Spec => []RunningIsKnown
<1>1. LifeInv => RunningIsKnown
    BY DEF LifeInv
<1> QED
    BY LifeHolds, <1>1, PTL
===============================================================================
