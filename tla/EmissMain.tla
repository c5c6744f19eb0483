------------------------------ MODULE EmissMain ------------------------------
(***************************************************************************)
(* The life of the program: main() and emiss_resource_ctx_init(), which    *)
(* has the send/poll threads launched by a detached launcher thread, looks *)
(* whether the data is due for an update, updates it, and loads the        *)
(* countries; then the server's run and termination, and the release of    *)
(* the connection context.  The threads appear by their lifetime: what     *)
(* they do while they run is SendPollLoop, the requests are ChartRequest.  *)
(* As these show, a thread need not come out of its loop once it has been  *)
(* told to stop, and a worker, for which mg_stop() waits, may wait for its *)
(* query for ever: both are actions here.                                  *)
(*                                                                         *)
(* A second launcher is requested by the update when it finds the threads  *)
(* inactive.  Published thread states and the error count of the stop are  *)
(* left out, since the program reads neither.  SIGTERM before the handler  *)
(* is installed ends the process, as does every failure that makes main()  *)
(* return.  Failing calls count against MaxFaults.                         *)
(***************************************************************************)
EXTENDS Integers

CONSTANTS NThreads,    \* WLPQ_MAX_NCONNTHREADS
          MaxFaults    \* bound on the failing calls of one behaviour

ASSUME MainAssumption == NThreads \in Nat \ {0} /\ MaxFaults \in Nat

VARIABLES
    main,              \* where main() stands
    ctx,               \* the connection context: live or freed
    thread_continue,
    thread_pt_id,      \* the thread known under each index, or Nobody (0)
    launcher, index,   \* each launcher's position and loop index
    thread,            \* each thread: none, running, over
    joining,           \* index of main's pthread_join() loop
    queue_empty,       \* no query of the update is queued
    server, terminate,
    stuck,             \* threads that will never leave
    worker_waits,      \* an HTTP worker waits for a query nobody will answer
    overlap,           \* history: main read thread_continue during a launch
    asked,             \* history: an exit request was answered
    targets, stopped,  \* history: threads running when main began to stop them;
                       \* wlpq_threads_stop_and_join() has returned to main
    faults

Launchers == {"resource", "update"}     \* emiss_resource.c:821, emiss_update.c:489
Slots     == 0..(NThreads - 1)
Threads   == Launchers \X Slots
Nobody    == <<"nobody", 0>>

ctxVars    == <<ctx, thread_continue, thread_pt_id>>
launchVars == <<launcher, index>>
serverVars == <<server, terminate, asked>>
history    == <<overlap, targets, stopped>>
hangVars   == <<stuck, worker_waits>>
vars == <<main, ctxVars, launchVars, thread, joining, queue_empty, serverVars,
          history, hangVars, faults>>

Goto(from, to) == main = from /\ main' = to
Fault   == faults < MaxFaults /\ faults' = faults + 1
Alive   == main \notin {"ended", "failed"}
Running == {t \in Threads : thread[t] = "running"}
Launching(l) == launcher[l] \notin {"off", "done"}
Overlaps == overlap \/ \E l \in Launchers : Launching(l)

Init ==
    /\ main = "launch" /\ ctx = "live" /\ thread_continue = FALSE
    /\ thread_pt_id = [i \in Slots |-> Nobody]
    /\ launcher = [l \in Launchers |-> "off"] /\ index = [l \in Launchers |-> 0]
    /\ thread = [t \in Threads |-> "none"]
    /\ joining = 0 /\ queue_empty = TRUE
    /\ server = "down" /\ terminate = FALSE /\ asked = FALSE
    /\ overlap = FALSE /\ targets = {} /\ stopped = FALSE /\ faults = 0
    /\ stuck = {} /\ worker_waits = FALSE

-----------------------------------------------------------------------------
(* wlpq_threads_launch_async() and, in the launcher, wlpq_threads_launch()   *)

(* The detached launcher is created, or pthread_create() fails: no caller     *)
(* looks at the result.                                                     *)
RequestLaunch(l) ==
    \/ /\ launcher' = [launcher EXCEPT ![l] = "requested"]
       /\ UNCHANGED faults
    \/ /\ Fault
       /\ UNCHANGED launcher

BeginLaunchWith(l, continue) ==
    /\ Alive /\ launcher[l] = "requested"
    /\ launcher' = [launcher EXCEPT ![l] = "create"]
    /\ thread_continue' = continue
    /\ UNCHANGED <<main, ctx, thread_pt_id, index, thread, joining, queue_empty,
                   serverVars, history, hangVars, faults>>

(* Mutant of BeginLaunch: the threads find the flag as it was.               *)
BeginLaunchStopped(l) == BeginLaunchWith(l, thread_continue)

BeginLaunch(l) == BeginLaunchWith(l, TRUE)

(* Mutant of NextIndex: the index runs one too far.                          *)
NextIndexBeyond(l) ==
    IF index[l] + 1 <= NThreads
      THEN index' = [index EXCEPT ![l] = @ + 1] /\ UNCHANGED launcher
      ELSE launcher' = [launcher EXCEPT ![l] = "done"] /\ UNCHANGED index

NextIndex(l) ==
    IF index[l] + 1 < NThreads
      THEN index' = [index EXCEPT ![l] = @ + 1] /\ UNCHANGED launcher
      ELSE launcher' = [launcher EXCEPT ![l] = "done"] /\ UNCHANGED index

CreateThread(l) ==
    /\ Alive /\ launcher[l] = "create"
    /\ thread' = [thread EXCEPT ![<<l, index[l]>>] = "running"]
    /\ thread_pt_id' = [thread_pt_id EXCEPT ![index[l]] = <<l, index[l]>>]
    /\ NextIndex(l)
    /\ UNCHANGED <<main, ctx, thread_continue, joining, queue_empty, serverVars,
                   history, hangVars, faults>>

(* The context of a thread or the thread cannot be made: the ones before it   *)
(* are stopped and joined,                                                  *)
CreateFails(l) ==
    /\ Alive /\ launcher[l] = "create" /\ Fault
    /\ thread_continue' = FALSE
    /\ launcher' = [launcher EXCEPT ![l] = "undo"]
    /\ index' = [index EXCEPT ![l] = 0]
    /\ UNCHANGED <<main, ctx, thread_pt_id, thread, joining, queue_empty, serverVars,
                   history, hangVars>>

(* pthread_join() and the reset of the identifier; of an identifier that is 0 *)
(* the join is undefined: it may fail, or bring the program down.            *)
Joinable(i) == thread_pt_id[i] # Nobody => thread[thread_pt_id[i]] = "over"

UndoLaunchWhen(l, joined) ==
    /\ Alive /\ launcher[l] = "undo" /\ joined
    /\ thread_pt_id' = [thread_pt_id EXCEPT ![index[l]] = Nobody]
    /\ \/ thread_pt_id[index[l]] = Nobody /\ main' = "failed"
       \/ UNCHANGED main
    /\ NextIndex(l)
    /\ UNCHANGED <<ctx, thread_continue, thread, joining, queue_empty, serverVars,
                   history, hangVars, faults>>

(* Mutant of UndoLaunch: the threads already created are not joined.         *)
UndoLaunchUnjoined(l) == UndoLaunchWhen(l, TRUE)

UndoLaunch(l) == UndoLaunchWhen(l, Joinable(index[l]))

Launch(l) == BeginLaunch(l) \/ CreateThread(l) \/ CreateFails(l) \/ UndoLaunch(l)

(* A thread sends what is queued, and leaves its loop when it is told to      *)
(* stop and the queue is empty, or on a failure.                            *)
SendQueued(t) ==
    /\ Alive /\ thread[t] = "running" /\ t \notin stuck
    /\ ~ queue_empty
    /\ queue_empty' = TRUE
    /\ UNCHANGED <<main, ctxVars, launchVars, thread, joining, serverVars, history,
                   hangVars, faults>>

LeaveLoop(t) ==
    /\ Alive /\ thread[t] = "running" /\ t \notin stuck
    /\ ~ thread_continue /\ queue_empty
    /\ thread' = [thread EXCEPT ![t] = "over"]
    /\ UNCHANGED <<main, ctxVars, launchVars, joining, queue_empty, serverVars, history,
                   hangVars, faults>>

ThreadFails(t) ==
    /\ Alive /\ thread[t] = "running" /\ t \notin stuck /\ Fault
    /\ thread' = [thread EXCEPT ![t] = "over"]
    /\ UNCHANGED <<main, ctxVars, launchVars, joining, queue_empty, serverVars, history,
                   hangVars>>

(* Another thread has been taking queries beside this one.                   *)
Rivalled(t) == \E u \in Threads \ {t} : thread[u] # "none"

(* A thread will never come out: its connections fail, so that it cannot empty *)
(* the queue and stays in its loop (wlpq.c:450, 537), or it leaves with one  *)
(* in wait and so stays in inl_free_query_thread_ctx() (wlpq.c:148).  The    *)
(* latter takes no failure when another thread has emptied the queue before   *)
(* it, and the stop finds it in queue_dequeue_item() (wlpq.c:376, 544).       *)
GetStuck(t) ==
    /\ Alive /\ thread[t] = "running" /\ t \notin stuck
    /\ Fault \/ (~ thread_continue /\ Rivalled(t) /\ UNCHANGED faults)
    /\ stuck' = stuck \cup {t}
    /\ UNCHANGED <<main, ctxVars, launchVars, thread, joining, queue_empty, serverVars,
                   history, worker_waits>>

-----------------------------------------------------------------------------
(* main() up to the server: emiss_resource_ctx_init()                        *)

RequestThreads ==
    /\ Goto("launch", "check")
    /\ RequestLaunch("resource")
    /\ UNCHANGED <<ctxVars, index, thread, joining, queue_empty, serverVars, history,
                   hangVars>>

(* emiss_resource_should_update(), over a connection of its own.              *)
ShouldUpdate ==
    /\ Goto("check", "update") \/ Goto("check", "countries")
    /\ UNCHANGED <<ctxVars, launchVars, thread, joining, queue_empty, serverVars,
                   history, hangVars, faults>>

(* emiss_update_parse_send() asks for a launch unless the threads are active. *)
EnsureActive ==
    /\ Goto("update", "parse")
    /\ overlap' = Overlaps
    /\ IF thread_continue THEN UNCHANGED <<launcher, faults>> ELSE RequestLaunch("update")
    /\ UNCHANGED <<ctxVars, index, thread, joining, queue_empty, serverVars, targets,
                   stopped, hangVars>>

EnqueueUpdate ==
    /\ Goto("parse", "drain")
    /\ queue_empty' = FALSE
    /\ UNCHANGED <<ctxVars, launchVars, thread, joining, serverVars, history, hangVars,
                   faults>>

(* The update waits until the queue is empty; then the update is recorded.    *)
Drained ==
    /\ Goto("drain", "countries") /\ queue_empty
    /\ UNCHANGED <<ctxVars, launchVars, thread, joining, queue_empty, serverVars,
                   history, hangVars, faults>>

(* retrieve_country_data() and the resources, then emiss_server_ctx_init().   *)
InitServer ==
    /\ Goto("countries", "run")
    /\ server' = "up"
    /\ UNCHANGED <<ctxVars, launchVars, thread, joining, queue_empty, terminate, asked,
                   history, hangVars, faults>>

(* Any of it fails: main() returns, and the process ends with all its threads. *)
SetupFails ==
    /\ main \in {"check", "update", "parse", "drain", "countries"} /\ Fault
    /\ main' = "failed"
    /\ UNCHANGED <<ctxVars, launchVars, thread, joining, queue_empty, serverVars,
                   history, hangVars>>

-----------------------------------------------------------------------------
(* emiss_server_run()                                                        *)

ResetTerminate ==
    /\ Goto("run", "serve")
    /\ terminate' = FALSE
    /\ UNCHANGED <<ctxVars, launchVars, thread, joining, queue_empty, server, asked,
                   history, hangVars, faults>>

(* exit_request_handler(), not with NDEBUG.                                   *)
ExitRequest ==
    /\ Alive /\ server = "up"
    /\ terminate' = TRUE /\ asked' = TRUE
    /\ UNCHANGED <<main, ctxVars, launchVars, thread, joining, queue_empty, server,
                   history, hangVars, faults>>

SigTerm ==
    /\ main = "serve"
    /\ terminate' = TRUE
    /\ UNCHANGED <<main, ctxVars, launchVars, thread, joining, queue_empty, server,
                   asked, history, hangVars, faults>>

(* A worker comes to wait for a query that nobody will answer any more: it has *)
(* failed, or was lost (ChartRequest, emiss_resource.c:559).                 *)
WorkerWaits ==
    /\ Alive /\ server = "up" /\ ~ worker_waits
    /\ worker_waits' = TRUE
    /\ UNCHANGED <<main, ctxVars, launchVars, thread, joining, queue_empty, serverVars,
                   history, stuck, faults>>

(* The event loop ends on termination; mg_stop() returns when no worker is in  *)
(* a request (emiss_server.c:380).                                          *)
StopServer ==
    /\ Goto("serve", "free") /\ terminate /\ ~ worker_waits
    /\ server' = "down"
    /\ UNCHANGED <<ctxVars, launchVars, thread, joining, queue_empty, terminate, asked,
                   history, hangVars, faults>>

(* sigaction() fails: the event loop is not entered, but mg_stop() is called. *)
SigactionFails ==
    /\ Goto("serve", "free") /\ ~ worker_waits /\ Fault
    /\ server' = "down"
    /\ UNCHANGED <<ctxVars, launchVars, thread, joining, queue_empty, terminate, asked,
                   history, hangVars>>

-----------------------------------------------------------------------------
(* wlpq_conn_ctx_free()                                                      *)

BeginFreeStopping(active, continue) ==
    /\ overlap' = Overlaps
    /\ IF active
         THEN /\ Goto("free", "join")
              /\ thread_continue' = continue
              /\ targets' = Running
         ELSE /\ Goto("free", "release")
              /\ UNCHANGED <<thread_continue, targets>>
    /\ UNCHANGED <<ctx, thread_pt_id, launchVars, thread, joining, queue_empty,
                   serverVars, stopped, hangVars, faults>>

(* Mutant of BeginFree: the threads are not stopped before the release.       *)
BeginFreeUnstopped == BeginFreeStopping(FALSE, FALSE)

(* Mutant of BeginFree: the threads are joined, but not told to stop.         *)
BeginFreeUntold == BeginFreeStopping(thread_continue, TRUE)

BeginFree == BeginFreeStopping(thread_continue, FALSE)

(* wlpq_threads_stop_and_join(), one thread after the other.                  *)
Join ==
    /\ main = "join" /\ Joinable(joining)
    /\ thread_pt_id' = [thread_pt_id EXCEPT ![joining] = Nobody]
    /\ \/ /\ thread_pt_id[joining] = Nobody
          /\ main' = "failed"
          /\ UNCHANGED <<joining, stopped>>
       \/ IF joining + 1 < NThreads
            THEN joining' = joining + 1 /\ UNCHANGED <<main, stopped>>
            ELSE main' = "release" /\ stopped' = TRUE /\ UNCHANGED joining
    /\ UNCHANGED <<ctx, thread_continue, launchVars, thread, queue_empty, serverVars,
                   overlap, targets, hangVars, faults>>

Release ==
    /\ Goto("release", "freed")
    /\ ctx' = "freed"
    /\ UNCHANGED <<thread_continue, thread_pt_id, launchVars, thread, joining,
                   queue_empty, serverVars, history, hangVars, faults>>

(* The rest of emiss_resource_ctx_free(), and main() returns.                 *)
End ==
    /\ Goto("freed", "ended")
    /\ UNCHANGED <<ctxVars, launchVars, thread, joining, queue_empty, serverVars,
                   history, hangVars, faults>>

Main ==
    \/ RequestThreads \/ ShouldUpdate \/ EnsureActive \/ EnqueueUpdate \/ Drained
    \/ InitServer \/ ResetTerminate \/ StopServer
    \/ BeginFree \/ Join \/ Release \/ End

Next ==
    \/ Main \/ SetupFails \/ SigactionFails \/ ExitRequest \/ SigTerm \/ WorkerWaits
    \/ \E l \in Launchers : Launch(l)
    \/ \E t \in Threads : SendQueued(t) \/ LeaveLoop(t) \/ ThreadFails(t) \/ GetStuck(t)

Spec == Init /\ [][Next]_vars

(* Every thread of the process is scheduled: main(), the launchers, and the    *)
(* send/poll threads that are not stuck.  A thread may get stuck instead of   *)
(* leaving its loop, and while a worker waits StopServer has nothing to do.  *)
(* Signals, requests and failures need not come.                            *)
Fairness ==
    /\ WF_vars(Main)
    /\ \A l \in Launchers : WF_vars(Launch(l))
    /\ \A t \in Threads : WF_vars(SendQueued(t) \/ LeaveLoop(t))

FairSpec == Spec /\ Fairness

-----------------------------------------------------------------------------
Mains == {"launch", "check", "update", "parse", "drain", "countries", "run", "serve",
          "free", "join", "release", "freed", "ended", "failed"}

(* The types of the context, of the threads and of main().                    *)
TypeOK ==
    /\ main \in Mains /\ ctx \in {"live", "freed"} /\ thread_continue \in BOOLEAN
    /\ thread_pt_id \in [Slots -> Threads \cup {Nobody}]
    /\ launcher \in [Launchers -> {"off", "requested", "create", "undo", "done"}]
    /\ index \in [Launchers -> Slots]
    /\ thread \in [Threads -> {"none", "running", "over"}]
    /\ joining \in Slots /\ queue_empty \in BOOLEAN
    /\ server \in {"down", "up"} /\ terminate \in BOOLEAN /\ asked \in BOOLEAN
    /\ overlap \in BOOLEAN /\ targets \subseteq Threads /\ stopped \in BOOLEAN
    /\ stuck \subseteq Threads /\ worker_waits \in BOOLEAN
    /\ faults \in 0..MaxFaults

(* Unless main() looked at thread_continue in the middle of a launch, the      *)
(* context is freed after every thread and launcher that uses it has ended.  *)
FreedLast ==
    ctx = "freed" /\ ~ overlap =>
        Running = {} /\ \A l \in Launchers : ~ Launching(l)

(* Under the same condition a running thread is known by its index, so that   *)
(* it can be joined: a launch after a failed one does not lose any.          *)
RunningIsKnown ==
    ~ overlap => \A t \in Running : thread_pt_id[t[2]] = t

(* Nobody is left to empty the queue, and no launcher is about to bring one.   *)
Helpless ==
    /\ Running \subseteq stuck
    /\ \A l \in Launchers : launcher[l] \notin {"requested", "create"}

(* An update is sent to the last query, also after a failure, as long as a     *)
(* thread that works is left or on its way (emiss_update.c:557).              *)
UpdateIsSent ==
    main = "drain" ~> (main = "countries" \/ ~ Alive \/ (faults > 0 /\ Helpless))

(* What can keep the program from ending: main() looked at thread_continue in   *)
(* the middle of a launch; mg_stop() waits for a worker; or the join waits for *)
(* a thread that never leaves.                                              *)
Held == overlap \/ worker_waits \/ stuck # {}

(* When termination was requested while the server runs, the program ends,    *)
(* unless one of these three holds it: an overlapping launch, a worker that   *)
(* waits for ever (emiss_server.c:380, emiss_resource.c:559), a thread that   *)
(* is stuck (wlpq.c:148, 450).                                              *)
TerminationEnds == main = "serve" /\ terminate ~> (~ Alive \/ Held)

(* wlpq.h:273: "Stop all send/poll threads, blocks until complete".  When it   *)
(* returns, the threads that ran when it was called are over.               *)
StopMeansStopped == stopped => targets \cap Running = {}

(* emiss.h:411: the server runs "until a terminating signal/request is         *)
(* received"; emiss_server.c:302 answers "SERVER WILL CLOSE.": after it the  *)
(* program ends, unless something holds it on the way.                      *)
ExitIsHonoured == asked ~> (~ Alive \/ Held)
==============================================================================
