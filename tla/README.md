# Emission in TLA+

A specification of the server side of Emission (`src/`), with TLC runs on small
instances and TLAPS proofs for any size. Emission downloads World Bank
indicator data, parses it, sends it to PostgreSQL, and serves charts of it over
HTTP. Most of what can go wrong happens between threads: its home-grown
asynchronous database layer `wlpq` sits between the main thread, a pool of HTTP
workers, and a set of send/poll threads that own the database connections.

Paths like `wlpq.c:360` are below `src/src/`, headers below `src/include/`.

## 1. The system

| Component | Code | State | Operations | Talks to |
|---|---|---|---|---|
| query queue | `wlpq.c` 347-399, 746-782 | list head and tail, empty flag, lock, every element's next pointer | enqueue, dequeue, the caller's release of the lock | producers: main thread, HTTP workers; consumers: send/poll threads |
| send/poll threads | `wlpq.c` 294-345, 401-589 | per connection: I/O state, query slot, poll entry; per thread: snapshot of the empty flag, `topoll`, errors; shared: `thread_continue` | one pass: poll, fetch answers, repair, dequeue, send | queue, database, result callbacks |
| thread lifecycle | `wlpq.c` 591-648, 804-881 | thread identifiers, `thread_continue`, the detached launcher | launch, undo of a launch, stop and join, release of the context | main thread |
| program life | `emiss.c`, `emiss_resource.c` 805-921, `emiss_server.c` 285-416 | where `main()` stands, server up or down, `terminate` | init, update, run, terminate, free | lifecycle, HTTP server |
| chart requests | `emiss_resource.c` 383-756 | result storages with their `in_progress` flags, the reply | make storages and enqueue, wait, format, reply, error exits | queue; callbacks run in the send/poll threads |
| update parsing | `emiss_update.c`, `emiss_resource.c` 186-206 | callback identifiers, field buffer, country table, current data set | csv callbacks, one query per field or row, wait for an empty queue, record | csv reader, queue |
| csv reader | `wlcsv.c` | callback table, chain of enabled callbacks, column offset, row, column, options | enlist, toggle, clear, search, end of row, read, preview | update parsing, libcsv |
| retrieval | `emiss_retrieve.c` | files | download, unpack | libcurl, zip |
| static resources, templates | `emiss_resource.c`, `emiss_server.c` | constant after start | copy into replies | CivetWeb |
| vendored code, front end, schema | `src/dep`, `resources`, `db` | - | - | - |

### What is hard

* *Interleaving and atomicity.* The queue's tail is written after the unlock;
  its emptiness is known by a flag and by the head; a dequeue of a
  `lock_until_complete` query returns with the lock held, and its caller
  releases it. A worker and a callback share a storage through one flag.
* *Stale state.* The loop works with a snapshot of the empty flag. Whether the
  threads are active is set by the launcher thread itself, while others read it.
* *Liveness.* A stop must bring every thread out of the loop, out of the
  dequeue, and out of the release of its context, which waits for connection
  states that only the thread itself changes. A worker waits for a flag that
  only a callback clears. `mg_stop()` waits for the workers.
* *Partial failure.* A connection may fail at any time with a query in its
  slot; a launch may fail half way; a request may fail with queries enqueued.
* *Ordering.* A data point must not overtake the country it refers to; the
  context must be freed after the server and the threads.
* *Protocol sequences.* The csv reader's chain of enabled callbacks is edited by
  hand while it is being searched.

### What makes each component correct

* Queue: it is a FIFO queue with a barrier; no query is lost, none is taken twice,
  no freed element is touched, and every dequeue returns after a stop.
* Threads: every query is answered once; the barrier holds back later queries;
  the thread never sleeps on top of open connections; a stop completes.
* Lifecycle and program life: the context outlives its users; no launch loses a
  thread; the update is sent; a termination request ends the program.
* Requests: no callback writes into a freed storage, no chart shows half an answer,
  every request is answered, nothing waits for a discarded query.
* Update parsing: countries and years are stored before what refers to them, an
  identifier names the callback it was given for, and a recorded update has sent
  what the files say, each value under its own country and year.
* csv reader: a field goes to the first enabled callback that matches, and the
  search for it ends.

`PROJECT.json` lists the hazards at their lines with the properties that cover them.

## 2. Modules

| Module | What it is |
|---|---|
| `FifoQueue` | abstract: a FIFO queue of which at most one query may hold the barrier |
| `QueryQueue` | the linked list, one action per shared memory access |
| `QueryService` | abstract: what `wlpq` promises to those who enqueue |
| `SendPollLoop` | `send_poll_loop()`, with queue operations atomic |
| `ChartRequest` | HTTP workers and callbacks, above `QueryService` |
| `EmissMain` | `main()`, launchers, thread lifetimes, server, release |
| `CallbackSet` | abstract: what `wlcsv.h` promises of the csv reader's callbacks |
| `WlcsvCallbacks` | the callback table, the skip list, the search, the reader's position |
| `UpdateParse` | an update from its files to its queries and its record |
| `MC...` | instances for TLC; `...Proofs` hold the theorems |

They stack:

    EmissMain (threads by their lifetime)     ChartRequest (threads as QueryService)
                                                  | uses
                          QueryService  <=====  SendPollLoop     (checked and proved: ImplementsService)
                                                  | takes the queue to be
                          FifoQueue     <=====  QueryQueue       (checked and proved: ImplementsFifo)

    UpdateParse  uses  FifoQueue
                 uses  WlcsvCallbacks  =====>  CallbackSet       (checked and proved: ImplementsCallbackSet)

`QueryQueue` shows that with one producer the list is `FifoQueue`, which is how
`SendPollLoop` uses it; `SendPollLoop` shows that the threads are the
`QueryService` that `ChartRequest` relies on. The HTTP workers are several
producers: for them the queue is *not* FIFO (run `queue_lost`) and may lose queries,
which `ChartRequest` models as such (`GetStuck`). In the same way `EmissMain` lets a
stopped thread stay for ever (`GetStuck`) and `mg_stop()` wait for ever (`WorkerWaits`),
as `loop_stop_two`, `loop_stop_conn` and `ChartRequest` show that they may.

### QueryQueue

`head`, `tail`, `empty`, `lock`, `thread_continue`, `next` are the fields of
`struct wlpq_conn_ctx` and of the elements; `pc` and `item` are a thread's position
and its local. `enqueued` and `dequeued` are histories. A producer goes
`NewElement - EnqueueLock - LinkFirst | LinkToNext, LinkFromTail - MarkNonEmpty -
EnqueueUnlock - SetTail`; `SetTail` comes after the unlock, as in the code
(`wlpq.c:360`). A consumer goes `SeeNonEmpty - DequeueLock | DequeueLockBusy,
WaitWhileEmpty - TakeHead | TakeNothing - MarkEmpty - DequeueUnlock - RunQuery`.
`DequeueUnlock` keeps the lock for a `Blocking` query and `RunQuery` clears it
(`wlpq.c:389`, `559`). An element's next pointer starts as anything (`malloc()`).
Reuse of freed addresses by `malloc()` is left out.

### SendPollLoop

One action per step of a pass; `conn` is the loop index, `empty`, `topoll`,
`pass_err` are the locals, `iostate`, `qr_dt`, `watched`, `lost` the arrays per
connection. `Poll` chooses what `poll()` reports; `Input`, `ConnError`,
`ConnInvalid`, `Quiet` are the branches on it, `Dequeue`, `DequeueStarves`,
`SkipFeed`, `Send`, `SendFails` the feeding, `Advance` the end of an iteration
with its fresh snapshot. `Exit` and `FreeThread` are the way out. A lock kept for a
blocking query is `barrier`. The database is external: it answers some time,
well or badly, and connections fail, within `MaxFaults`. A thread of which only
some connections could be opened is left out: the code goes on to use
connections that it has released, and what follows is libpq's.

### ChartRequest

`storage`, `in_progress` and `callback` describe the `result_storage_s` of each
item and how far the callback of its query has come. A worker goes `Accept -
EnqueueItem... - ReadItem... - Reply`, or leaves by `Refuse`, `EnqueueFails`,
`FormatFails`. `ReadItem` is the successful `atomic_flag_test_and_set()` (it sets
the flag), the formatting and the `free()`. The service's steps are those of
`QueryService`, refined around the callback: `Fill`, `Clear`, `Answer`. `Terminate`,
`ServerStops`, `StopThreads`, `Release` are the end of `emiss_server_run()`,
`mg_stop()`, and `wlpq_conn_ctx_free()`. Names, SQL and JSON are left out.

Not every query comes through. `raced` records that a worker may have enqueued while
another had released the lock but not yet written the tail (`Publishing`,
`wlpq.c:359-360`): from then on queued queries may drop out of the list. (A stale tail
does harm until the queue has been empty; the model does not heal it, and leaves out what
it may overwrite in freed memory.) `impaired` records that a thread or a connection has
failed, with a query (`QueryFails`) or without (`ThreadFails`): queries may then stay
queued, if no idle connection is left (`wlpq.c:510`, `537`), or in flight on a connection
that is marked or whose thread has left its loop. With more than one thread a query in
flight may also be left without a failure, by a thread that stays in
`queue_dequeue_item()` since another has emptied the queue (`wlpq.c:371`). `GetStuck` puts
such a query into `stuck`, at any time after its cause; nothing ever happens to it again,
but that a release discards it if it is queued. `JoinHangs` is the join of a thread that
never comes out. None of the three has to happen.

### EmissMain

`main` is the position of `main()`; each of the two launchers (the one of
`emiss_resource_ctx_init()` and the one the update asks for when it finds the
threads inactive) runs `wlpq_threads_launch()`: `BeginLaunch`, `CreateThread`,
`CreateFails`, `UndoLaunch`. A thread lives until `LeaveLoop` or `ThreadFails`, or it
becomes one of `stuck` and stays: by a failure, or without one if another thread took
queries beside it (`Rivalled`) and it has been told to stop. `worker_waits` says that an
HTTP worker waits for a query that nobody will answer; `mg_stop()` then does not return.
`thread_pt_id` names the thread known under an index; a second launch overwrites it.
A `pthread_join()` of an identifier that was never set is undefined: it returns or
brings the program down. Published thread states and error counts have no reader
in the program and are left out.

### WlcsvCallbacks

`tbl`, `skip` and `offs` are `callbacks.tbl`, `tbl_idx_skip` and `tbl_offs_col`
(a slot's `skip` of 0 means disabled, `END` ends the chain); `place` and `at` say
where the reader is and which slot the search looks at. `Toggle`, `Enlist`, `Clear`,
`ClearAll` are the registry's operations, as actions on the table alone, so that
`UpdateParse` can compose them with its own; `Relinked` is `callbacks_toggle()`'s
walk to the link in front. `Enlist` shifts what is behind, as the code does; the user
of the runs and proofs keeps to `Appends`, as the program's one user does. The search
takes a step per slot: `SearchText`, `SearchRow` (which expires rows that are over),
`SearchColumns` (the jump to `offs`), `SearchColumn`, `SearchFails`. `EndRow` is
`callbacks_eor()` with its search for the first column. In a table without column
callbacks, `offs` still names the first column slot, whose entry is absent: the
reader looks at it all the same (`wlcsv.c:191`), which is `place = "crash"`. The
program always enlists columns before it comes to that, unless a file is missing.

### UpdateParse

The main thread's walk through `emiss_update_parse_send()`: `phase` and `file` say
where it stands between files, `Begin` to `Record` are its steps. Within a file it is
the csv reader, through the actions of `WlcsvCallbacks` conjoined with what the
callback does: `HeaderRegister`, `HeaderDone` (`cb_codes_data_header`), `CodeIso3`,
`CodeIndependency`, `CodeIso2`, `CountryName`, `CountryCode`, `MetaColumn`,
`CountryNothing` (`cb_country`), `Year`, `Data`, `DataOfMeta`, and the end-of-row
callbacks `EorNothing`, `EorFlush`, `EorRegister`, `EorWaitDone`. Queries go through
`FifoQueue`, with the barrier of `lock_until_complete`; `TakeQuery` and
`CompleteQuery` are the send/poll threads. A cell is text, empty, or ignored; which
optional cells are empty is chosen at the start. `missing` is a history of the files
that were not read. The parser does not look from one file into another, so what it can
promise rests on what the files say of each other: `FilesAssumption` has the header of
CO2E name every year, and every row with a value or a note be about a country that CO2E
names. A value in a row without a country would go out with an empty country code.
`FilesComplete`, which only the theorem about `RecordedIsSent` needs and TLC evaluates in
`MCUpdateParse`, has the columns of the codes in order and a code in each of their rows, a
country in each row of data that is not to be ignored, a header of the metadata that is not
to be ignored, and a code and a note in each of its rows.
Three things the model shows of the code as it is:

* A file that cannot be opened counts as read, so an update without its first or
  last file is recorded all the same. `RecordedIsSent` is therefore about the files
  that were read, and `ReferencesStored` assumes the file with the years.
* If the metadata is missing, `wlcsv_callbacks_clear()` is given identifier 0 and
  clears the default entry, which the next file goes on to set (`OpenCrashes`); or, if
  the year callback is still there, the toggle that follows never ends. If CO2E is
  missing, a file may be searched before there is any column callback. `UpdateEnds`
  excepts exactly these two files.
* Otherwise every identifier kept across files names the callback it was given for
  (`IdsNameTheirCallbacks`): registrations come in an order that shifts nobody.

## 3. Runs

State counts are distinct states.

| Run | Instance | Shows |
|---|---|---|
| `queue_update` | 1 producer, 2 consumers, 3 queries, 1 of them blocking | the list is the FIFO queue with its barrier; mutual exclusion; flag and head agree; the dangling tail is harmless; every query is taken; dequeues return after a stop |
| `queue_lost` (violated) | 2 producers, 1 consumer, 3 queries | a query linked behind a stale tail is never dequeued, though `wlpq.h` calls the enqueue atomic |
| `loop_one` | 1 thread (the default build), 2 connections, 2 queries, 1 blocking, 2 failures; 39 thousand | exact `topoll`, one slot per query, no starving dequeue, answers, refinement of `QueryService`, and the end of a stop as long as the thread can work |
| `loop_two` | 2 threads, 2 connections each, 3 queries, the second blocking; 620 thousand | the barrier holds across threads |
| `loop_stop_two` (violated) | 2 threads, no failure | a thread leaves through the starved dequeue with a connection in flight: the stop hangs |
| `loop_stop_conn` (violated) | 1 thread, 1 connection, 1 failure | the only connection is lost with a query in the queue: the stop hangs. The default build has more connections, all of which must be lost |
| `chart_requests` | 2 workers, 1 or 2 items, 2 threads, 1 failing call; 196 thousand | storages, flags and callbacks on every way out of a request; answers and the shutdown, unless a query failed or is stuck |
| `main_life` | 2 threads per launch, 1 failing call; 65 thousand | the context is freed last, launches after failed ones lose no thread, the update is sent as long as a working thread is left, termination ends the program unless something holds it |
| `csv_callbacks` | 1 keyword, 2 rows, 3 columns, 2 rows of 3 fields; 179 thousand | the skip list is the chain of the enabled callbacks under any legal operations between and inside searches; the refinement of `CallbackSet`; every search ends |
| `update_parse` | 4 files, 2 countries, 2 years, 6 cells that may be empty, 2 faults; 160 thousand | references are stored first, identifiers name their callbacks, a recorded update has sent what was read, the update ends |
| `main_relaunch` (violated) | 1 thread | the update asks for a second launch during the first: the stop returns with a thread running |
| `main_exit` (violated) | 1 thread, no failure | an exit request before the event loop is forgotten |

Each violated run checks one promise of a header or message against the code;
`PROJECT.json` quotes both under `findings`. The passing runs state what
remains true, with the condition in the property:

* `StopWhileWorking`, for `StopCompletes`: as long as no thread has left on a failure or
  lost all its connections.
* `FreedLast`, `RunningIsKnown`: unless `main()` looked at the flag during a launch
  (`overlap`).
* `RequestAnswered`: unless the worker comes to wait for a query that has failed or is
  stuck (`WaitsInVain`), whose callback never runs, while nobody else clears the flag.
* `ShutdownCompletes`: unless a worker waits so, or the join hangs.
* `UpdateIsSent`: unless, after a failure, no thread that works is left and none is being
  launched (`Helpless`).
* `TerminationEnds`: unless something holds the program (`Held`): an overlapping launch,
  a worker that waits for ever, a thread that is stuck. `ExitIsHonoured` has the same
  condition, so that its violation is about the forgotten request and nothing else.

### Bounds

* Queue: three queries give an empty, a one-element and a longer list, an element
  before and behind the blocking one, and a list that empties and fills again while
  its tail dangles; two consumers contend for the lock. The proofs remove the bound.
* Loop: two connections are enough for a connection to be idle while another waits,
  and for a snapshot to grow stale in the middle of a pass; two failures let a
  repaired connection fail again or both fail. Two threads with three queries give a
  query before, the barrier, and one after it, on different threads. The proofs remove
  the bound, but for `NeverStarved`, which is about a single thread.
* Requests: two items distinguish first and last, storages read, being read and
  still to be read; two workers let one request end in an error while the other goes
  on, the server stop in between, and their enqueues overlap. With two send/poll threads
  a query can get stuck with and without a failure; a single thread only takes behaviours
  away. The proofs remove the bound.
* Program life: two threads let a launch fail half way, before the first or after
  it; one failing call is enough for each of the failures in turn. The proofs remove the
  bound.
* Callbacks: with two rows and three columns a callback can be toggled before, at
  and behind the place of the search, and a column can be first, middle or last; two
  rows show the reset between rows and the expiry of row callbacks, and since
  the callbacks survive a file, what one file leaves to the next. The proofs remove
  the bound.
* Update: two countries tell "this row" from "the other row"; a third row without
  a country, years in and out of range, columns before and behind those of interest,
  and optional cells of every kind of column (status, region, note, values) cover the
  branches of the callbacks. Two faults make any two files missing, or one missing
  and the record failing. The proofs remove the bound.
* `MaxFaults` bounds failing calls. No other bound restricts behaviours.
* Deadlock is not checked: all of the models end, by design.

### Fairness

* Every thread is weakly fair: the operating system schedules it (`WF` on
  `ProducerStep`, `ConsumerStep`, `ThreadStep`, `Main`, `Launch`, and on a worker's
  next step). Spinning threads have no enabled step and so get none.
* A sound connection that waits for an answer and is polled again and again reports
  input some time (`SF` on `InputArrives`): PostgreSQL answers. Weak fairness would
  not do, as the thread does other things between polls.
* `FreeContext`, the join and the release are steps of the main thread.
* In `ChartRequest` a query that is not stuck takes its next step (`WF` on `QueryStep`):
  that is `EveryQueryTaken` of `queue_update`, `EveryQueryAnswered` and `InFlightAnswered`
  of `loop_one`. These are about one producer and runs without a failure; where
  they do not apply, `GetStuck` may take the query away at any time.
* The release of the context is fair together with `JoinHangs`: one of them happens. In
  `EmissMain` a thread's way out of its loop is fair as long as the thread is not `stuck`,
  and `StopServer` is not enabled while `worker_waits`; neither has to be reached.
* A search is straight-line code of the thread that reads (`WF` on `Search`). In
  `UpdateParse` the main thread runs, and the queue's queries are taken and completed
  (`WF` on `Main`, `TakeQuery`, `CompleteQuery`): that is `EveryQueryTaken` of
  `queue_update` and `InFlightAnswered` of `loop_one`.
* In `QueryQueue` nobody has to enqueue, in `SendPollLoop` nobody has to enqueue or
  stop, in `ChartRequest` and `EmissMain` no request, signal or failure has to come.

## 4. Proofs

`QueryQueueProofs`, for any sets of producers, consumers and queries:

* `SafeInv` is inductive: types, "a thread past its first step has an element",
  `LockInv` (the lock is held exactly when one thread is in a critical section,
  where running a blocking query counts as one), and `FlagInv`, what the holder of the
  lock knows of flag and head at each point. The last is needed since `FlagHonest`
  speaks only of the moments when the lock is free. It gives `TypeCorrect`,
  `LockCorrect` and `FlagCorrect`.
* With a single producer, `FifoInv` is inductive on top of it: the list from the head
  is the part of `enqueued` that is not yet in `dequeued`, each element is linked once,
  the tail names the last linked element whenever the producer is about to use it, and
  freed elements are among the dequeued ones. It gives `FifoCorrect`,
  `NoUseAfterFreeCorrect` and, step by step under the refinement mapping,
  `QueueImplementsFifo`. With two producers `FifoInv` fails at the tail: that is
  `queue_lost`.

`SendPollLoopProofs`, for any threads, connections per thread, queries and failures:

* `LoopInv` is inductive. `CountAt` says what `topoll` counts at each point of a pass:
  the connections it has come past, the current one from its result on; `TopollExact`
  is what is left of that between two passes. `HandInv`: a query that was taken is in the
  hand of one thread that is about to send it, and the lock is held exactly for a
  blocking one. `SlotInv`: a query in flight is in the slot of one connection, which
  waits for it or was given up with it. `QueueInv`: the queue is the part of the log that
  is still queued, and every query is enqueued once. `EndInv`: after the join nothing
  runs and nothing is queued; without a failure no connection is given up. With these,
  `BarrierOrder` is inductive too: a dequeue takes the first query left in the log, and
  only while nobody's hand holds the lock. It gives `TypeCorrect`, `CountCorrect`,
  `SlotsCorrect`, `BarrierCorrect` and `StopLeavesNothing`.
* `ServiceImplemented` maps each step. Most steps of a pass touch no query
  (`Bookkeeping`) and are stutters; the others move one query as `QueryService` does,
  since by `HandInv` and `SlotInv` it is where the thread believes it to be.
* `LoneThreadNeverStarves` assumes one thread (`SingleThread`), as the default build
  has: its snapshot can only say empty when the queue no longer is, never the other way,
  since nobody else takes queries (`SnapshotInv`). With two threads the property is
  false: that is `loop_stop_two`.

`EmissMainProofs`, for any threads per launch and any failing calls:

* `FreedLast` and `RunningIsKnown` speak of identifiers and live threads, which a launcher
  changes one at a time. `LifeInv` adds the order of `main()` (`OrderInv`: what is
  initialised, served, stopped at each position), what each launcher has created at its
  position (`LaunchInv`: the indices below its own, and for an undo those not yet
  joined), and what a stop has joined (`StopInv`). Only `CreateThread` can lose a
  thread, by overwriting the identifier of one that runs, and while launches do not
  overlap, an index that is created anew is nobody's. Undo and stop clear indices
  upwards, so at their end no index names a thread, and by `RunningIsKnown` none runs.
  It gives `TypeCorrect`, `FreedLastCorrect`, `RunningKnown`.

`ChartRequestProofs`, for any number of workers, items and failures:

* The safety properties are not inductive: that a storage about to be freed has seen
  its callback depends on the flag, on the outcome of the query, and on the worker's
  position. `SafeInv` ties them together: `QueryInv` for a storage, its flag, its
  query and its callback; `WorkerInv` for what is live or freed at each position of a
  worker; `ServerInv` for a server that stops when nobody is in a request.
  `NextItemType`, `StepType`, `StepQuery`, `StepWorker`, `StepServer` show one part
  each, with a step per action.

`WlcsvCallbacksProofs`, for any layout of the table, any callbacks, any size of file:

* `RelinkedIsSound` is the heart: toggling a slot of a sound chain (`Leads`: each link
  names the least enabled slot behind it) gives a sound chain of the enabled slots
  with or without it. The link in front exists and is unique because a non-empty
  bounded set of slots has a greatest element.
* `ChainSound` and `ColumnsToCome` are not inductive: that `offs` is not past a column
  to come needs the columns to lie in the order of what they match (`TableInv`), and
  that the search skipped nothing needs what it has ruled out so far (`SearchInv`).
  Their conjunction `SafeInv` is inductive: one lemma per operation (`ToggleKeeps`,
  `ClearKeeps`, `ClearAllKeeps`, `EnlistKeeps`) and per step of the search and of the
  reader. It gives `TypeCorrect`, `ChainCorrect` and `ColumnsCorrect`.
* `RegistryImplemented` maps each step: a hit is the promised call, since nothing
  enabled before it matches and so it is the least match; a failed search is the call of
  the default; a toggle by the search is the expiry of a row; all else in a search is
  a stutter.

`UpdateParseProofs`, `UpdateSentProofs` and `UpdateRecordedProofs`, for files of any size,
any of them missing:

* The reader of `UpdateParse` is an instance of `WlcsvCallbacks`, so that its
  `SafeInv` and the lemmas about its operations are cited and not proved again:
  `SameTable` and `SameReader` show that the instances agree, `EnlistEffect`,
  `ClearEffect`, `ToggleReturnEffect`, `SearchEffect` say what an operation or a search
  does to the slots of this program.
* `CtrlInv` is inductive. `ShapeInv` knows which slot holds which callback:
  the header's or the years' in slot 2, the columns in 5 to 7, and an identifier that is
  not 0 is the slot of its own callback (`HeaderShape` while the codes are read,
  `DataShape` afterwards). That a registration shifts nobody needs the columns to come
  in order, also in the middle of a header row. `StandInv` says where the walk is, and
  allows for the default entry that is cleared when the metadata is missing
  (`Broken`), after which no file is read. `CallInv`: a call goes to a callback that
  matches the cell. It gives `IdsNamed`.
* `SayInv` is inductive on top of it. `CellInv`: a cell that is searched for is not
  one to be left out. `BufferInv`: in a row that names its country, the buffer holds the
  code of this row from the third column on. `SentInv`: of the file with the years, the
  years and countries of the cells that have been read are in the queue. `RefInv`: what a
  query refers to is in the queue before it. `FifoInv`: queries leave in this order, and
  the one that is in progress and blocks is the last that left. Hence what left before
  it has completed, and `ReferencesStored` follows. `CallsAre` says who can be called for
  which cell; `YearSaid`, `CountrySaid`, `MetaSaid` are its consequences for the cells that
  matter. It gives `TypeCorrect` and `StoredFirst`.
* `RecInv` is the same induction in the other direction. No cell is lost: `HeaderInv` (a
  column whose header was read is registered and enabled), `CodesBuffer` and `CcodesInv`
  (what is known of a country is what the cells read so far say of it), `RowInv` (a row
  under way has its country or code in the buffer), `DataInv` and `NotesInv` (what the rows
  read so far amount to is in the queue), `InsertInv` (nor the countries of POPT, if CO2E is
  missing). Nothing else is sent: `RightInv`, with `UpdatedInv`: only the first data file
  that is read inserts countries. `LostInv` is about the update that takes CO2E for read
  though it is missing, and so would insert no country at all: the reader crashes in the
  metadata's header (`HeaderLost`; `OffsInv` says why it looks at an absent entry) or the
  default entry is cleared, and it is never recorded. `QuietInv`: the update is recorded
  only after all that was enqueued has been dequeued; `MissInv`: only files already passed
  are missing, never the one being read. It gives `RecordedSent`.

Assumptions are those on the constants: producers and consumers are disjoint, blocking
queries are queries, `NULL` is no query, thread or callback, the bounds are natural numbers;
the table has a slot to spare of its 16, and at most one keyword and one pattern
(`CsvAssumption`); the files are about each other (`FilesAssumption`). Only
`LoneThreadNeverStarves`, the theorems about the FIFO queue and `RecordedSent` assume more,
and say so: one thread, one producer, complete files.

Only model-checked: every liveness property, since fairness and `ENABLED` are
beyond the prover; and `NeverStarved` with more than one thread, where it is false.

## 5. Not modelled

* `malloc()` giving a freed address again, which would hide or worsen the stale tail.
* libpq objects: a connection that fails while being opened is released twice
  (`wlpq.c:205`, `233`) and may be used afterwards; a repaired one may leak.
* Published thread states and the error count of a stop, which nobody reads.
* SQL, JSON, HTML and file contents; static resources; vendored code; retrieval, which
  is a sequence of downloads and unpackings by libraries that shares and keeps nothing.
* In the csv reader: the rule that a field whose pointer is NULL goes to no callback
  (`wlcsv.h:107`); the refinement takes a crash in a table without columns for a stutter,
  where `wlcsv.h:116` promises the default callback; several keywords or several patterns
  (with more than one keyword the search would run patterns over keywords), a full table
  (`callbacks_eor()` then reads behind `tbl_idx_skip`), and the preview, of which
  `UpdateParse` has the effect.
* In the update: `exit()` on failed allocations, codes of an unexpected length, and
  files skipped as not new, which cannot happen with the version that is passed.
* `wlpq_query_run_blocking()`, which uses a connection of its own.
* Prepared statements: the program never passes parameters.

## 6. Plan

What is left:

1. Several keywords and a full table in `WlcsvCallbacks`, with the search's wrong order of
   keywords and patterns as a finding about `wlcsv.h`.
