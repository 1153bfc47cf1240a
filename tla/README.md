# A TLA+ development for aiomisc

This directory holds TLA+ specifications of the parts of aiomisc in which
tasks, threads, callbacks or processes can meet in an order nobody wrote a test
for. TLC checks them on small instances; TLAPS proves the main safety properties of
most of them for every value of the constants: every number of calls, workers,
services, signals, clients, children or lines.
`PROJECT.json` is the index: which source lines each definition models, which
run checks which property, which mutation of the code each property catches,
and at which lines of the code the hazards are.

## 1. The system

aiomisc is a toolbox around asyncio. Its parts, their state, and what is hard
about them:

| part | source | state | what makes it hard |
|---|---|---|---|
| thread pool | `thread_pool.py` | channel of work items, futures, worker threads, shutdown flags | threads, loops and `shutdown()` interleave; loops close under running work |
| aggregation | `aggregate.py` | current batch (args, futures, event, lock), first call time | cancelled callers, timeouts racing with a full batch, retries of a cancelled execution |
| connection pool | `pool.py` | idle queue, used set, semaphore, recycle bin | slots lost on a failure, waiters nobody wakes, instances destroyed in use |
| circuit breaker | `circuit_breaker.py` | state, statistic buckets, deadlines | state computed from time and counters; calls that end after the state moved on |
| entrypoint | `entrypoint.py`, `service/base.py`, `context.py` | services, start and stop events, tasks | start failures, interrupts during start, double shutdown |
| worker pool | `worker_pool.py`, `aiomisc_worker/` | worker processes, task queue, pending futures | crashes, lost connections, cancelled tasks |
| timers | `periodic.py`, `recurring.py`, `cron.py` | task, running call | restart while an old run is still ending |
| retries and timeouts | `backoff.py`, `timeout.py` | deadlines, attempts | timeout racing with a late answer |
| task helpers | `utils.py` | sets of tasks | cancellation of the waiter and of the waited |
| file I/O | `io.py` | file object, iterator lock | an operation in a thread outlives the cancelled task |
| logging | `log.py`, `aiomisc_log/` | buffered handler queue and thread | a full queue, `close()` beside `emit()` |
| process service | `service/process.py`, `process_pool.py` | process, events | a process that dies at start or at stop |
| network services | `service/tcp.py`, `udp.py`, `tls.py`, `sdwatchdog.py`, `raven.py` | servers, client tasks, queues | reconnects, stop while connecting or accepting |
| adapters | `service/aiohttp.py`, `asgi.py`, `uvicorn.py`, `grpc_server.py`, `carbon.py`, `profiler.py` | what `start()` has assigned | a `start()` cut short, then `stop()` |
| test proxy | `pytest.py` | clients with two pipes each | closed while connecting or delayed |
| DNS store | `service/dns/` | radix tree of zones | longest-prefix search |

How they interact: `entrypoint` creates a loop with a `ThreadPoolExecutor` as
its default executor, starts the services, and on exit cancels tasks, stops
services and finishes the executor before it closes the loop. The thread pool
therefore meets event loops in three ways: `submit()` and callbacks on the
loop's own thread, `shutdown()` on the helper thread of
`loop.shutdown_default_executor()`, and `loop.close()`, which calls
`shutdown(wait=False)` on a loop that is already closed. A service meets the
entrypoint as a `start()` that may fail or be cancelled at each await, followed by
a `stop()` that may be cancelled as well: `Watchdog`, `TcpClient`, `Server` and
`Adapters` are modelled under that contract, which `Entrypoint` models itself.

## 2. Modules

| module | what it is |
|---|---|
| `Executor` | what an executor promises, without threads: a function runs at most once, a future is resolved at most once and for a named reason |
| `ThreadPool`, `MCThreadPool` | `thread_pool.py` at the granularity of single accesses to shared state |
| `ThreadPoolRun`, `ThreadPoolProofs` | its inductive invariant, the refinement of `Executor`, no lost work |
| `Aggregator`, `MCAggregator`, `AggregatorProofs` | `aggregate.py`: batches of calls on one loop |
| `Entrypoint`, `MCEntrypoint`, `EntrypointProofs` | `entrypoint.py`: start, body, signals and shutdown |
| `RemoteCalls` | what a pool of processes promises: a function is started at most once, an answer is given to one call |
| `WorkerPool`, `MCWorkerPool`, `WorkerPoolProofs` | `worker_pool.py` and `aiomisc_worker`: callers, handlers, supervisor and processes |
| `Pool` | `pool.py`: instances, clients and the recycler |
| `PoolProofs` | its invariants: who has an instance, and how many there are |
| `CircuitBreaker` | `circuit_breaker.py`: states, buckets, overlapping calls |
| `Select` | `select()` and `cancel_tasks()` of `utils.py` |
| `Recurring` | `recurring.py`, `periodic.py`, `cron.py` and their services |
| `Backoff` | `backoff.py`: attempts, pauses, deadline, on a clock |
| `FileIO` | `AsyncFileIO` of `io.py`, used by several tasks |
| `LogHandler` | the threaded handler of `log.py` |
| `Processes` | `service/process.py` |
| `TcpClient`, `Server` | the clients and servers of `tcp.py`, `tls.py` and `udp.py` |
| `Watchdog` | `service/sdwatchdog.py` |
| `Transport` | the two transports of `service/raven.py` |
| `Adapters` | `start()` and `stop()` of the services around external servers |
| `Proxy` | `TCPProxy` of the pytest plugin |
| `Dns` | the zone tree, the store and the server of `service/dns` |
| `SafeParts`, `LoopParts`, `FilePart` | components with names of their own for their variables, to be put together |
| `SafetyProofs`, `FileProofs` | theorems about these components |
| `MCSafety`, `MCLiveness` | components that share no state, side by side |

Outside of the thread pool, the log handler and the worker processes everything
runs on one event loop, and an action is what a task does between two awaits that
suspend. A definition whose comment begins with "Fault" is a plausible mistake; no
specification uses it, and `PROJECT.json` says which property notices it when it
takes the place of the definition below it.

`MCSafety` and `MCLiveness` put components into one run: the variable `which`,
chosen in the initial state, names the component that runs, and the others keep
their initial values. The behaviours of such a run are those of each component
alone, and each property is about one of them. `SafeParts`, `LoopParts` and
`FilePart` instantiate the components that also have proofs, so that a theorem of
`SafetyProofs` or `FileProofs` is about the very definition that a run checks.

### 2.1 ThreadPool

Each call of `submit()` is an *item*: its work item and its future. A variable
models each piece of shared state: `tasks` (the `TaskChannel`, with `None` for
the poison pill), `closed_event`, `shutdown_event`, `futures` (the set
`__futures`), `future` (the state of each item's future), `ready` (each loop's
queue of callbacks) and `loop_closed`. `pc` and `item` are a worker thread's
position and the item it holds; `sd_pc`, `sd_by`, `sd_wait` and `sd_future` are
the position and the locals of the one active `shutdown()`.

A thread's cycle is `LoopTest`, `GetTest`, `Take` (and `PutBack` for the pill),
`CallTest`, `ClosedTest`, `Execute`, `ClosedTest` again, then `Post` or
`Reject`. `shutdown()` is `SetShutdownEvent`, `CloseChannel`, `PutPill`, then
`WhileFutures`, `PopFuture`, `DoneTest`, `SetPoolClosed` for each future, and
`EndWait`. `submit()` is one step: it runs under the write lock, and what other
threads do meanwhile commutes with it. A loop's thread runs nothing else while
it is inside `shutdown()`.

asyncio itself is external and modelled from how the pool uses it:
`Future.set_exception` marks the future done and only then schedules its
callbacks with `call_soon`, which raises on a closed loop and, in debug mode,
when called from another thread; `loop.close()` drops the ready callbacks and
then calls the default executor's `shutdown(wait=False)`.

Left out: `ThreadPoolStatistic` (nothing reads its counters), logging, the
context a function runs in, and a second call of `shutdown()` (it returns at
once, the event being set).

### 2.2 Aggregator

A batch (the list `_args` with its futures, event and lock) is named after the
call that opened it. `Call` joins the current batch or opens one, `Wake` is the
end of the wait for the event or the leeway, `Acquired` the lock, and an
execution ends by `FuncEnds` in one of the ways of `aggregate()`
(all futures are set from a list of results, or all get the exception) or of
`aggregate_async()` (the function sets single futures itself). A caller can be
cancelled at each await. Left out: `AggregateStatistic` and the checks of the
constructors.

### 2.3 Pool

`Acquire`, `Created`, `Get`, the outcomes of `_check_instance()` and `Release`
are the steps of a client; `RecyclerTake` and `RecyclerDone` those of the
recycler; `Close` and `CloseEnds` those of `close()`. `Faults` says what may go
wrong in a run. `doubtful` is a history variable: the instances whose check has
raised, which the code recycles and hands out as well. Left out: the reuse guard of `ContextManager`.

### 2.4 CircuitBreaker

Time advances in whole units by `Tick`. A call takes the counter of the current
bucket when it is let through (`Passed`) and writes to it when it ends (`Ends`),
by when the bucket may have left the statistic. `ComputeState` is
`_compute_state()`. `random()` is a choice between the outcomes it can have.
`since`, `begun` and `failed` are history variables. Left out: statistics, and
calls from several threads.

### 2.5 Entrypoint

The program is a `with entrypoint(...)` statement (`main`) whose body is
`run_until_complete(main())` or `run_forever()`. A background task may start
and stop further services (`Dynamic`), signals may arrive (`Interrupts`). With
`Owner` FALSE the loop is the caller's: the entrypoint is entered and left on it
(`entrypoint(loop=...)`, or a direct `__aenter__()` and `__aexit__()`), and the
caller closes it.

* `group` is the place of each `start_services()`, `starter` that of each
  `_start_service()`, `task` and `ready` are a service's `start()` and its
  `start_event`.
* `stopper` is the place of each coroutine that stops services: `__aexit__()`,
  the background task's `stop_services()`, and one `_stop()` for each signal;
  `stop` holds the `stop()` tasks each has created. `closing` is `_closing`; it
  also records who has set it.
* `Timeout` is `call_later(shutdown_timeout, task.cancel)`, `CancelBackground`
  is `_cancel_background_tasks()`, `CloseLoop` is `Runner.close()`.

How a cancellation travels is external and modelled after asyncio: a task that
has not begun never does; `gather()` passes the cancellation on to its children
and raises with the first that ends; a coroutine that waits for
`cancel_tasks()` gets the exception when those tasks are over; a cancelled
`start()` or `stop()` ends. Receivers of the entrypoint's signals (`PRE_START`
and so on) are awaits without effect. Left out: arguments, logging setup,
`stop()` methods that are not coroutines.

### 2.6 WorkerPool

Three kinds of actors: callers in `create_task()` (`pc`, with the two futures of a
call), one `__handle_client()` per process (`handler`, `job`), and the processes
themselves (`supervisor`, `worker`), which share sockets (the queues `request` and
`replies`) and
signals (`signalled`, `reaped`) with the pool. A process may die at any moment
(`Die`), a call may be impossible to send (`Faulty`) or end its process, the
initializer may fail, and a signal may reach a worker between its answer and the
end of its `try` (the fault `late_signal`). `ran` counts how often the function of a
call was started; the refinement of `RemoteCalls` is about it and about `outcome`.
Left out: the digest, the framing of packets, and the variant for Windows.

### 2.7 Components on the event loop

* `Recurring`: a task per callback that asks its strategy, sleeps and calls; the
  strategy may skip or end the recurrence, the call may fail or be shielded,
  and the service may be started again.
* `Backoff`: one decorated call on a clock. `Options` are all combinations of
  `attempt_timeout`, `deadline`, `pause` and `max_tries` over small sets; `giveup` is a
  choice.
* `Select`: the tasks of one `select()` with each combination of its options, and
  a caller that may be cancelled.
* `FileIO`: a task's operation (`job`) runs in a thread, and goes on when the task
  is cancelled. File objects are numbered, so that `open()` may replace one.
* `TcpClient`: a server that goes up and down, the plain and the robust client, TLS
  contexts that fail. `Server`: start, also one that fails, handlers, and
  `stop()` while peers are still accepted.
* `Processes`: a child that may die at any moment, and a supervisor that replaces it.
  The first `start()`, that of a replacement and `stop()` may raise or be cancelled in
  each of their awaits; `orphaned` remembers the children this has happened to.
* `Watchdog`: the order of the entrypoint's signals with every way in which a start
  or a stop is cut short, and the periodic notification beside them. `AbortStop` is
  the shutdown timeout that strikes when `stop_services()` has made the task of
  `stop()` and the task has not begun: it never will (`skipped`), and POST_STOP is
  called all the same.
* `Transport`: `async_send()` from any thread, then either the bounded queue with
  its workers, or one task per event; `close()` puts its end mark, or gathers.
* `Adapters`: what each `start()` has assigned when it is cut short (`has`), and what
  keeps running (`running`). The external servers are reduced to what they run, and
  to what they leave when they are cut short (`LeftBehind`, `ServeRaises`): a runner
  half set up, a socket that listens and that nobody has a name for. `cut` remembers
  which awaits were cut short.
* `LogHandler`: several threads in `emit()`, the handler's thread, and `close()`, at
  the granularity of the lock and the queue.
* `Proxy`: connections, the two pipes of each, delays, `disconnect_all()`, `close()`.
* `Dns`: names are sequences of labels from the root; `FindPrefix` is
  `RadixTree.find_prefix()` and `Reference` says what a store of zones has to answer.

## 3. Runs

Every program modelled here may stop or wait for a request that never comes, so
deadlock is not checked; that nobody waits in vain is stated by the liveness
properties.

| run | question | instance |
|---|---|---|
| `pool_shared` | the pool as default executor of one loop, used by a second, implements `Executor` and loses no work | 2 items, 2 workers, 2 loops, debug mode; helper thread, `loop.close()`, `__del__`, cancellation |
| `pool_live` | every future is resolved, every thread ends | 2 items, 2 workers, the loop calls `shutdown()` or drops the pool, fair |
| `aggregate_async` | one execution of a batch at a time, closed batches, every call ends | 3 calls, `max_count` 2, all cancellable, fair |
| `entry_races` | a failing or cancelled start is joined, one shutdown only, `start()` cancelled before `stop()` | 2 + 1 services, 1 signal, the body ends, the caller's loop |
| `entry_signal` | every `stop()` returns, context and executor outlive it, failed starts and signals come to an end | 2 + 1 services, 1 signal, `run_forever()`, fair |
| `entry_status` | violation: exit status 70 | 1 service, 1 signal |
| `workers_calls` | the worker pool implements `RemoteCalls`; calls end, and `close()` leaves no process | 2 calls, 1 worker, up to 4 processes, 1 death, a queue of 1, fair |
| `workers_answers` | violation: an answer reaches another call | 3 calls, 1 worker |
| `components_safe` | the safety of ten components, see below | 3 tasks, see `Components_safe.cfg` |
| `components_live` | safety and liveness of eight components | see `Components_live.cfg`, fair |
| `instances_stranded` | violation: a waiter of `Pool` is not woken | 2 clients, 1 slot, fair |
| `dns_found` | violation: a record disappears | the zones of `components_safe` |

What `components_safe` checks, besides types:

| property | component | in words |
|---|---|---|
| `AloneAndAlive` | `Pool` | an instance serves one client, and is not destroyed nor about to be, unless its check has raised |
| `SizeIsBounded` | `Pool` | until a check raises, never more than `maxsize`, and `len(pool)` does not drift |
| `SameFate` | `Aggregator` | with `aggregate`, an execution fails for all of its callers or for none |
| `BreaksForAReason` | `CircuitBreaker` | only recent failures break the circuit, PASSING has its minimum time, late calls leave no trace |
| `SelectLeavesNothing` | `Select` | no task is left behind, also by a cancelled caller |
| `GrowthKeepsUp` | `ThreadPool` | the pool grows with its futures |
| `OnlyTheClosestZone` | `Dns` | an answer comes from the closest zone |
| `LinesInOrder` | `FileIO` | lines arrive in order, each once, and are lost only with a cancelled reader |
| `ClientsAreTracked` | `Proxy` | a connected client is in `self.clients` exactly until it is closed, and `set_delay()` has reached every client there |
| `NothingAfterStopping` | `Watchdog` | nothing after STOPPING=1 once `stop()` has begun, no READY=1 once services stop |
| `StopReleases` | `Adapters` | `stop()` leaves nothing running, wherever `start()` was cut short, but what the code leaves for a named cause |

And `components_live`:

| property | component | in words |
|---|---|---|
| `AcquireReturns` | `Pool` | who waits for an instance gets one |
| `StopLeavesNothing`, `Recurs` | `Recurring` | no call under way after `stop()`; a function is called again, however a call ended |
| `EndsForAReason` | `Backoff` | a call ends for a reason its caller can tell, and is counted once |
| `RecordsAreHandled` | `LogHandler` | a record left with an open handler reaches the target |
| `EventsAreAnswered`, `CloseEndsWell` | `Transport` | an event gets its callback or errorback; `close()` ends |
| `Reconnects` | `TcpClient` | a robust client is connected again |
| `ServerStops` | `Server` | `stop()` returns |
| `OneChild` | `Processes` | one child at a time, none after `stop()`, but those whose `start()` or `stop()` was cut short |

Bounds. Two workers and two items are the least with which one thread can hold
the pill, or an item, while another runs; three of each are needed to see the
pool grow, since it starts with two threads (`components_safe`). Three calls of an
aggregated function are enough for a full batch of two with another one behind it
(`aggregate_async`), or for a full batch of three (`components_safe`). Three
clients on two slots leave one waiting, and the third instance takes the place of
one that was recycled. For the circuit breaker the time is long enough to break, recover,
pass and break again, and two buckets are the least of which one can be old and one
current. Two services are needed for one to fail while its peer is anywhere in its
startup or its `stop()`, and one signal for a `_stop()` task besides `__aexit__()`; the
proof of `StopOnce` covers any number of signals. In the worker pool a call can be
running, another queued, while the worker is replaced up to three times; a late
signal shows with the call after it, hence three calls in `workers_answers`. Two
file objects and two lines let a reading that was left behind meet both the next
line and a file opened anew. Three events, two workers and a queue of one make the
queue overflow while both workers send. Three records fill each queue size. Limits of one
and three units let the timeout of an attempt, the deadline or `max_tries` of
`Backoff` be the first to strike. Four names
give a zone two labels below another, and one whose text only looks like a suffix.

Fairness, in the runs marked fair:

* thread pool: the operating system runs every worker thread and the thread in
  `shutdown()`, a running loop runs its callbacks, and submitted functions end.
  Nobody is obliged to submit, cancel, close or shut down, and the shutdown
  timeout need not strike;
* aggregator: the loop wakes tasks that can go on, timers strike, and the
  aggregated function ends; nobody is obliged to call or to be cancelled;
* entrypoint: the loop runs every coroutine that can go on, a cancelled `start()`
  or `stop()` ends, and the timer of a signal strikes. Nothing obliges an
  uncancelled `start()` or `stop()` to end, nor a signal to arrive;
* worker pool: the loop runs callers and handlers, the processes are scheduled, and
  functions return. Nobody has to call, cancel, close, die or fail;
* `Pool`: the loop runs every client and the recycler, and clients release what
  they have acquired; nobody is obliged to ask for an instance;
* `Recurring`: tasks go on, and a call ends, by itself or once it is cancelled;
* `LogHandler`: the handler's thread and a thread within `emit()` go on;
* `Transport`: the loop runs callbacks and tasks, and a request ends;
* `TcpClient`: `start()` goes on. Strong fairness is assumed of the environment only: a
  server that is up again and again accepts at last, an SSL context that can be
  built again and again is built at last;
* `Server`: `stop()` goes on, and a handler ends once it is cancelled; a handler
  that is not cancelled need not end.

`Backoff` and `Processes` are checked for safety only: the first ends by its clock,
and nothing obliges a child process to do anything.

### What the violations show

* `instances_stranded`: an instance that is too old on release is recycled; the
  slot is freed, but a client that waits in `Queue.get()` does not look at it.
  The test of the pool expects every client to be served.
* `entry_status`: the shutdown of a signal cancels `main()`; the body ends,
  closing the loop cancels the shutdown task, and its callback reports a timeout
  that did not happen, with status 70.
* `workers_answers`: `execute()` sends its answer within the `try` that answers a
  cancellation. A signal that arrives in between makes it send two packets for one
  request, and from then on each call on this worker gets the answer to another.
* `dns_found`: `find_prefix()` returns the labels of all nodes on its way with the
  value of the last zone among them. A zone two labels below another hides the
  records of the upper one in between.

### What the passing properties leave out

The models follow the code where it does less than a reader might expect, and
these properties are stated accordingly:

* `FuturesResolved` is about open loops and a `shutdown()` on the loop's own
  thread. `loop.close()` closes the loop first; the first `set_exception` in
  `shutdown()` then raises, and other futures stay pending. The same happens on the
  helper thread when the loop resolves a future between `done()` and
  `set_exception`, or in debug mode.
* `EveryCallEnds` says nothing about when. A batch is replaced only by a caller
  that gets past its wait: if all are cancelled, the next call, however late,
  joins the old batch and is executed with its arguments.
* When `_check_instance()` raises, the instance is recycled and handed out as well
  (`pool.py:151-153`). `AloneAndAlive` then still says that it serves one client at a
  time, but not that it is alive. Its slot is freed while the client has it, and again
  when it is recycled once more: `SizeIsBounded` is about the time up to the first
  check that raises.
* `AcquireReturns` is stated for the time after the last request, because
  `Queue.get()` may serve a later client first, and `components_live` checks it
  without ageing and without failing creations, which cost a slot.
* `BreaksForAReason` asks for one recent failure. The test for enough statistic
  counts buckets that are too old for the ratio, so that after a pause one may be
  all there is; and a recovering circuit breaks at half of `error_ratio`, without a
  minimum time.
* `StartsCancelledFirst` is about the services given to the entrypoint:
  `_services` knows a service that is started at run time before `_tasks` knows
  its `start()`.
* `GracefulStop` is about `run_forever()` and one signal, without a timeout and
  without a `stop()` that raises. A body that ends during a signal's shutdown has
  the loop closed and the `stop()` calls cancelled midway, because `__aexit__()`
  returns at once when `_closing` is set; the first `stop()` that raises has the
  others cancelled.
* `CallsEnd` excepts a pool whose processes have all ended with status 0: the
  supervisor then ends too, and nobody serves the queue.
* `RecordsAreHandled` excepts an unbuffered handler with a bounded queue, whose
  `emit()` waits for room with the lock that the handler's thread needs.
* `CloseEndsWell` excepts an event that a thread schedules after `close()`, having
  seen the transport open.
* `ServerStops` excepts TLS: its `stop()` waits without a limit for a connection
  accepted meanwhile.
* `OneChild` excepts the children whose `start()` was cancelled or has raised, the
  first or a replacement, because `self.process` does not name them yet, and the one
  whose `stop()` was cancelled while it waited.
* `NothingAfterStopping` excepts a `stop()` whose task was cancelled before it began:
  nobody has cancelled the timer, and WATCHDOG=1 may follow until the socket is
  closed.
* `ClientsAreTracked` says when a client that was closed while it was connecting
  leaves `self.clients`: once it has connected. Its pipes run on, and no
  `disconnect_all()` reaches them any more.
* `StopLeavesNothing` is about unshielded functions; a shielded one outlives `stop()`
  by design.
* `StopReleases` is about a `stop()` that has begun, and each of its exceptions has a
  cause: the runner stays if `stop()` was cancelled at its `sleep(0)` or `cleanup()`
  itself was cut short; the periodic callback and the profiler, if `stop()` was
  cancelled while it waited for them; a socket that listens, if `site.start()` was
  cancelled after it had begun to, or uvicorn's `serve()` was, which has no cleanup of
  its own and which a cancelled `stop()` cancels.
* `CallsEnd` is about calls in the queue: a caller that waits for room when the pool is
  closed is not woken.

## 4. Proofs

### 4.1 Thread pool

`ThreadPoolProofs` proves `Spec => []IInv` for

    IInv == TypeOK /\ OnePlace /\ RunState /\ CallbackState /\ ShutdownState /\ OwnOutcome

`OwnOutcome` (a future carries the outcome of its own function) is not
inductive: the callback that sets it must carry the right outcome
(`CallbackState`), which holds because the thread that posted it held an item
that had run (`RunState`), and the item cannot run again because nobody else
can hold it (`OnePlace`). `ThreadPoolRun` has the types, `OnePlace` and `RunState`,
`ThreadPoolProofs` the rest. From the invariant follow `TypeOK`, `OnePlace`,
`OwnOutcome` and `RunsOnce`. `ThreadPoolProofs` then proves that
every step of the pool is a step of `Executor` or changes nothing `Executor` talks
about (`KeepsPromise`), hence `FutureFinal`; and `NoLostWork` by an induction
relative to `IInv`: an item that leaves the channel is in a thread's hands, and one
that leaves a thread's hands is among the callbacks of its loop, resolved, or its
loop is closed.

Assumptions on the constants: `MaxWorkers` is a positive number, `Items` is
finite, each item has a loop, and the special values differ. The proofs are
split in two modules because the prover's time per step grows with the number of
steps in a module.

### 4.2 Aggregator

`AggregatorProofs` proves `Spec => []IInv`, where `IInv` adds to the properties
themselves `Membership` (a call is in the batch it has captured and in no
other), `Collecting` (the batch that takes calls is not full, and nobody in it
has got past the wait) and `ExecutorLocks`. `ExecutesWholeBatch` needs
`Collecting`: an execution has the whole batch because the batch was closed
before its first caller left the wait. `NeverBlocks` needs `Membership`: the
futures that an execution sets are those of its batch. Assumptions: `max_count`
is positive, `None` is not a call.

### 4.3 Entrypoint

`EntrypointProofs` proves `Spec => []EInv` for

    EInv == TypeOK /\ StartInv /\ StopInv

`StopOnce` follows from `StopInv`: only the coroutine that has set `_closing` is
on the way to `stop_services()`, and `_closing` is set once. `StartInv` ties the
place of a startup to its `start()` task: "ok" means that the task is over or
registered in `_tasks`, "failed" that it is over or was never created.
`JoinedBeforePostStart` follows, because both ways to POST_START wait until
every startup of the group is "ok" or "failed". Assumptions: the initial and the
dynamic services are different ones, and the special values differ.

### 4.4 Connection pool

`PoolProofs` proves `Spec => []PInv` for

    PInv == TypeOK /\ Hands /\ Alone /\ Alive

and `AloneAndAlive` from it. `AloneAndAlive` is not inductive: it says nothing of a
client that still checks its instance, and that client is about to use it.
`Alive` therefore speaks of all hands, and `Hands` says who has any: exactly the
clients that check or use an instance. Both `Alone` and `Hands` hold whatever fails;
`Alive` is about the instances that are not `doubtful`.

`SizeIsBounded` is proved by an induction relative to `PInv`. The account that every
step keeps until a check raises is not the one of the living instances. After
`close()` has destroyed an instance in use, its client may still release it and free a
slot; `Occupied` counts such an instance until its client lets it go. Each step then
moves a slot between the semaphore, the creations under way and the occupied ones, or
loses it, which is what happens when a creation fails. That `_len` counts the living
instances rests on `Alive`: an instance is recycled only by the client that has it,
hence once.

Assumptions: `maxsize` is positive, `Nothing` is not an instance, and the clients are
finitely many (for the sizes only). Every fault is allowed.

### 4.5 Worker pool

`WorkerPoolProofs` proves `Spec => []WInv` for

    WInv == TypeOK /\ Busy /\ Begun /\ SentOnce /\ AnsweredOnce /\ Ended

and from it that every step is one that `RemoteCalls` allows (`KeepsPromise`). A
function starts once because a request is in the socket of one process and its
function has not run (`SentOnce`); an answer goes to one call because it is in one
place: still to come, in one socket, or in one future (`AnsweredOnce`). That holds
with late signals as well, which put an extra packet into the socket but no second
answer of the same function.

`OwnAnswer`, which the run `workers_answers` violates, is proved where
`late_signal` is not among the `Faults`: the handler and the process of a socket then
take turns (`Turns`), so that the first packet is the answer to the call the handler
waits for. This shows that the late signal is the only way to the violation.
Assumptions: `Pending` and the ways a call may fail differ from calls and processes.

### 4.6 File

`FileProofs` proves `LinesInOrder` for any number of tasks, lines and file objects,
from an invariant that ties a reading to the lock or to a cancelled task
(`FileJobs`), puts every line given before the position of its file object
(`FileOrder`), and counts the missing lines against the cancelled readers
(`FileCount`). Assumption: the tasks are finitely many.

### 4.7 Components

`SafetyProofs` proves one property of each of these components, on the component's
own specification, by an invariant that its steps keep:

| theorem | property | what the invariant adds |
|---|---|---|
| `NoTaskBehind` | `SelectLeavesNothing` | types only |
| `AllReleased` | `StopReleases` | for each kind of service, where it can be and what may run; nothing runs that was not assigned, except a listener, which has its cause in `cut` |
| `EveryClientTracked` | `ClientsAreTracked` | a client that connects is in the set, and has no pipes before |
| `Silent` | `NothingAfterStopping` | which stages may have sent what, and that the timer is over in the last ones unless `stop()` was skipped |
| `FromTheClosestZone` | `OnlyTheClosestZone` | zones are nodes of the tree; among the prefixes of a name there is one longest |
| `StoppedIsIdle` | `StopLeavesNothing` | a stopped callback is in no phase that calls |
| `ReasonIsKnown` | `EndsForAReason` | an unfinished call has no outcome, and one that pauses has tries left |
| `OneChildAtATime` | `OneChild` | which child is the only one alive: the one being started, `self.process`, or the one `stop()` has taken |

Assumptions: the parents of a DNS name are names, the limits of `Backoff` are numbers
or `Unlimited`, and children are numbered from 1.

### 4.8 Only model-checked

Liveness everywhere (the prover has neither fairness nor ENABLED); of the thread
pool `GrowthKeepsUp` (cardinalities); of the entrypoint `StartsCancelledFirst`,
`GracefulStop` and `ResourcesOutliveStops`, which hold only for some programs; of the
circuit breaker `BreaksForAReason` (its statistic is a sum over a sequence). The
other safety properties that the runs of `MCSafety` and `MCLiveness` check for one
instance are proved above for all.

## 5. Not modelled

`PROJECT.json` lists every part with its status. Left out, with the reason:

* `ThreadPoolStatistic` and the other counters: no decision of the program reads
  them. `Backoff` has two of its counters, because they must agree.
* `run_in_new_thread` and the decorators over executors (`threaded`,
  `threaded_separate`): they choose where a function runs and keep no state.
* The Windows variant of the worker processes (`aiomisc_worker/process.py`): it
  depends on what `os.kill` does there, which the code does not say.
* The framing and pickling of `protocol.py`, the wire format and records of DNS:
  data of the standard library or of an external one.
* `Context.get` and `set`: a future per name, whose users are the services.
* `signal.py`: receivers are user code; the entrypoint awaits them in order.
* `AsyncFileIO` methods other than `open()`, iteration and `close()`: each passes one
  operation of the file to the executor, without the iterator's lock.
* `MemoryTracer`: its `stop()` ends the tracing and leaves its periodic callback
  running until the entrypoint cancels the tasks. No document says otherwise, so it
  is listed as a hazard and not as a finding.
* `RavenSender`'s wiring, the handlers and arguments that HTTP, ASGI and gRPC services
  pass on, log formatters, the log configuration, plugins, pytest fixtures and
  re-exports: configuration, layout of text, or code of external libraries, without
  concurrent behaviour of their own.
