----------------------------- MODULE ThreadPool -----------------------------
(***************************************************************************)
(* aiomisc.ThreadPoolExecutor (aiomisc/thread_pool.py): an executor whose  *)
(* submit() returns an asyncio future of the submitting event loop.        *)
(*                                                                         *)
(* Actors: the event loops, each a single thread that submits, cancels and *)
(* runs its ready callbacks; the pool's worker threads; whoever calls      *)
(* shutdown() (a loop's thread, or the helper thread that                  *)
(* loop.shutdown_default_executor() starts); and the collector that runs   *)
(* __del__.  Steps of different actors interleave between any two accesses *)
(* of shared state.  Two accesses are one step only where no other actor   *)
(* can tell the difference; the comment of the action says why.  The       *)
(* counters of ThreadPoolStatistic, which nothing reads, are left out.     *)
(***************************************************************************)
EXTENDS Integers, Sequences, FiniteSets

CONSTANTS
    Items,        \* the calls of submit(): each is a WorkItem and its future
    Loops,        \* event loops
    LoopOf,       \* the loop each item is submitted from
    MaxWorkers,   \* max_workers
    Owner,        \* the loop whose default executor this pool is, or Nobody
    Debug,        \* asyncio debug mode of the loops
    Callers,      \* who may call shutdown(): a subset of Loops \cup {Helper}
    Cancellable,  \* the items whose future the program may cancel
    Closing,      \* the loops the program may close
    Droppable,    \* may the program drop its last reference to the pool?
    Nobody,
    Helper,       \* the thread started by loop.shutdown_default_executor()
    Collector,    \* the garbage collector, in __del__
    None          \* the poison pill of TaskChannel

ASSUME MaxWorkersAssumption == MaxWorkers \in Nat \ {0}
ASSUME ItemsAssumption == IsFiniteSet(Items) /\ None \notin Items
ASSUME LoopsAssumption ==
    /\ LoopOf \in [Items -> Loops]
    /\ Owner \in Loops \cup {Nobody}
    /\ Callers \subseteq Loops \cup {Helper}
    /\ Cancellable \subseteq Items
    /\ Closing \subseteq Loops
    /\ Debug \in BOOLEAN /\ Droppable \in BOOLEAN
    /\ {Nobody, Helper, Collector} \cap Loops = {}
    /\ Helper # Collector /\ Nobody # Helper /\ Nobody # Collector

VARIABLES
    tasks,           \* the TaskChannel: items, and None once closed
    closed_event,    \* TaskChannel.closed_event
    shutdown_event,  \* ThreadPoolExecutor.__shutdown_event
    futures,         \* ThreadPoolExecutor.__futures
    future,          \* the state of each item's future
    ready,           \* the callbacks each loop has still to run
    loop_closed,     \* loop.is_closed()
    pc, item,        \* where each worker thread is, and the item it holds
    ran,             \* how each item's function ended, if it ran
    sd_pc, sd_by,    \* where shutdown() is, and who is in it
    sd_wait,         \* its argument
    sd_future        \* its local variable: the future it has popped

queueVars == <<tasks, closed_event>>
futureVars == <<futures, future>>
loopVars == <<ready, loop_closed>>
threadVars == <<pc, item>>
shutdownVars == <<shutdown_event, sd_pc, sd_by, sd_wait, sd_future>>
workVars == <<future, ready, ran>>
vars == <<queueVars, futureVars, loopVars, threadVars, ran, shutdownVars>>

Threads == 1 .. MaxWorkers

\* where a worker thread can be; it holds an item in WorkItem.__call__
Holding == {"call", "closed1", "func", "closed2", "post", "reject"}
ThreadLabels == {"unborn", "loop", "get", "queue", "put", "dead"} \cup Holding

\* where shutdown() can be; "gone" is the end of __del__
ShutdownLabels == {"idle", "enter", "close", "pill", "while", "pop", "done", "set",
                   "wait", "returned", "raised", "gone"}

Outcomes == {"result", "error"}

\* "closed": ThreadPoolException("Pool closed"); "loopclosed": the
\* CancelledError a worker sets when the loop is closed
FutureStates == Outcomes \cup {"none", "pending", "cancelled", "closed", "loopclosed"}

Callback(i, o) == [call |-> "set", item |-> i, outcome |-> o]
Discard(i) == [call |-> "discard", item |-> i, outcome |-> "none"]
Callbacks == {Callback(i, o) : i \in Items, o \in Outcomes} \cup {Discard(i) : i \in Items}

\* frozenset __pool: every thread ever started, those that died included
Pool == {t \in Threads : pc[t] # "unborn"}
PoolSize == Cardinality(Pool)

\* with self.__write_lock: shutdown() holds it from the event to its return
WriteLockHeld ==
    /\ sd_pc \in {"close", "pill", "while", "pop", "done", "set", "wait"}
    /\ sd_by # Collector

\* a loop's thread runs nothing else while it is inside shutdown() or __del__
LoopRuns(l) ==
    /\ ~loop_closed[l]
    /\ sd_by = l => sd_pc \in {"idle", "returned", "raised", "gone"}

-----------------------------------------------------------------------------
\* __init__: two threads, or one when max_workers is 1
InitialThreads == IF MaxWorkers > 1 THEN 2 ELSE 1

Init ==
    /\ tasks = <<>>
    /\ closed_event = FALSE
    /\ shutdown_event = FALSE
    /\ futures = {}
    /\ future = [i \in Items |-> "none"]
    /\ ready = [l \in Loops |-> <<>>]
    /\ loop_closed = [l \in Loops |-> FALSE]
    /\ pc = [t \in Threads |-> IF t <= InitialThreads THEN "loop" ELSE "unborn"]
    /\ item = [t \in Threads |-> None]
    /\ ran = [i \in Items |-> "none"]
    /\ sd_pc = "idle"
    /\ sd_by = Nobody
    /\ sd_wait = FALSE
    /\ sd_future = None

-----------------------------------------------------------------------------
(***************************************************************************)
(* The event loops.                                                        *)
(***************************************************************************)

\* Fault: the pool grows one submit() too late
NeedsThreadsLate == PoolSize < MaxWorkers /\ Cardinality(futures) > PoolSize

NeedsThreads == PoolSize < MaxWorkers /\ Cardinality(futures) >= PoolSize

\* _adjust_thread_count: the pool doubles, up to max_workers
GrownSize == IF 2 * PoolSize < MaxWorkers THEN 2 * PoolSize ELSE MaxWorkers

\* submit(): under the write lock, so one step; other threads only ever
\* discard from __futures or take from the queue meanwhile
Submit(i) ==
    /\ future[i] = "none"
    /\ LoopRuns(LoopOf[i])
    /\ ~WriteLockHeld /\ ~shutdown_event /\ sd_by # Collector
    /\ pc' = [t \in Threads |-> IF pc[t] = "unborn" /\ NeedsThreads /\ t <= GrownSize
                                THEN "loop" ELSE pc[t]]
    /\ future' = [future EXCEPT ![i] = "pending"]
    /\ futures' = futures \cup {i}
    /\ tasks' = Append(tasks, i)
    /\ UNCHANGED <<closed_event, loopVars, item, ran, shutdownVars>>

\* future.cancel() by the code that awaits it; the discard is a callback
Cancel(i) ==
    /\ i \in Cancellable
    /\ LoopRuns(LoopOf[i])
    /\ future[i] = "pending"
    /\ future' = [future EXCEPT ![i] = "cancelled"]
    /\ ready' = [ready EXCEPT ![LoopOf[i]] = Append(@, Discard(i))]
    /\ UNCHANGED <<queueVars, futures, loop_closed, threadVars, ran, shutdownVars>>

\* if future.done(): return, else set the outcome.  Another thread may resolve
\* the future between the two; the second then raises and changes nothing
Resolved(i, state) ==
    IF future[i] = "pending" THEN [future EXCEPT ![i] = state] ELSE future

\* _set_workitem_result, which schedules the discard of a future it resolves
SetWorkitemResult(l, i, o) ==
    /\ future' = Resolved(i, o)
    /\ ready' = [ready EXCEPT ![l] = IF future[i] = "pending"
                                     THEN Append(Tail(@), Discard(i)) ELSE Tail(@)]
    /\ UNCHANGED futures

\* the done callback of submit(): self.__futures.discard
DiscardFuture(l, i) ==
    /\ futures' = futures \ {i}
    /\ ready' = [ready EXCEPT ![l] = Tail(@)]
    /\ UNCHANGED future

RunCallback(l) ==
    /\ LoopRuns(l)
    /\ ready[l] # <<>>
    /\ LET cb == Head(ready[l])
       IN  \/ cb.call = "set" /\ SetWorkitemResult(l, cb.item, cb.outcome)
           \/ cb.call = "discard" /\ DiscardFuture(l, cb.item)
    /\ UNCHANGED <<queueVars, loop_closed, threadVars, ran, shutdownVars>>

\* loop.close(): drops the callbacks that have not run and, when the pool is
\* its default executor, goes on to executor.shutdown(wait=False)
CloseLoop(l) ==
    /\ l \in Closing
    /\ LoopRuns(l)
    /\ loop_closed' = [loop_closed EXCEPT ![l] = TRUE]
    /\ ready' = [ready EXCEPT ![l] = <<>>]
    /\ IF l = Owner /\ sd_pc = "idle"
       THEN sd_pc' = "enter" /\ sd_by' = l /\ sd_wait' = FALSE
       ELSE UNCHANGED <<sd_pc, sd_by, sd_wait>>
    /\ UNCHANGED <<queueVars, futureVars, threadVars, ran,
                   shutdown_event, sd_future>>

-----------------------------------------------------------------------------
(***************************************************************************)
(* A worker thread: thread_pool_thread_loop, TaskChannel.get and           *)
(* WorkItem.__call__.                                                      *)
(***************************************************************************)
Goto(t, label) == pc' = [pc EXCEPT ![t] = label]

\* while not pool_shutdown_event.is_set()
LoopTest(t) ==
    /\ pc[t] = "loop"
    /\ Goto(t, IF shutdown_event THEN "dead" ELSE "get")
    /\ UNCHANGED <<tasks, item, workVars>>

\* TaskChannel.get: if self.closed_event.is_set(): raise
GetTest(t) ==
    /\ pc[t] = "get"
    /\ Goto(t, IF closed_event THEN "dead" ELSE "queue")
    /\ UNCHANGED <<tasks, item, workVars>>

AfterGet == Tail(tasks)

\* super().get() blocks until there is something to take
Take(t) ==
    /\ pc[t] = "queue"
    /\ tasks # <<>>
    /\ tasks' = AfterGet
    /\ IF Head(tasks) = None
       THEN Goto(t, "put") /\ UNCHANGED item
       ELSE Goto(t, "call") /\ item' = [item EXCEPT ![t] = Head(tasks)]
    /\ UNCHANGED workVars

\* Fault: the pill is not put back
NotPutBack == tasks

WithPill == Append(tasks, None)

\* self.put(None), then TaskChannelCloseException ends the thread
PutBack(t) ==
    /\ pc[t] = "put"
    /\ tasks' = WithPill
    /\ Goto(t, "dead")
    /\ UNCHANGED <<item, workVars>>

\* WorkItem.__call__: if self.future.done(): return
CallTest(t) ==
    /\ pc[t] = "call"
    /\ IF future[item[t]] # "pending"
       THEN Goto(t, "loop") /\ item' = [item EXCEPT ![t] = None]
       ELSE Goto(t, "closed1") /\ UNCHANGED item
    /\ UNCHANGED <<tasks, workVars>>

\* Fault: the test asks about any loop of the program
AnyLoopIsClosed(i) == \E l \in Loops : loop_closed[l]

LoopIsClosed(i) == loop_closed[LoopOf[i]]

OpenLabel(t) == IF pc[t] = "closed1" THEN "func" ELSE "post"

\* if self.loop.is_closed(): before the function, and again after it
ClosedTest(t) ==
    /\ pc[t] \in {"closed1", "closed2"}
    /\ Goto(t, IF LoopIsClosed(item[t]) THEN "reject" ELSE OpenLabel(t))
    /\ UNCHANGED <<tasks, item, workVars>>

\* the function returns or raises, and either is caught
Execute(t) ==
    /\ pc[t] = "func"
    /\ Goto(t, "closed2")
    /\ \E o \in Outcomes : ran' = [ran EXCEPT ![item[t]] = o]
    /\ UNCHANGED <<tasks, item, future, ready>>

\* Fault: the result is not handed to the loop
NotPosted(i) == ready

WithResult(i) == [ready EXCEPT ![LoopOf[i]] = Append(@, Callback(i, ran[i]))]

\* loop.call_soon_threadsafe; on a loop closed since ClosedTest it raises
\* RuntimeError, which the thread does not catch
Post(t) ==
    /\ pc[t] = "post"
    /\ IF loop_closed[LoopOf[item[t]]]
       THEN Goto(t, "dead") /\ UNCHANGED ready
       ELSE Goto(t, "loop") /\ ready' = WithResult(item[t])
    /\ item' = [item EXCEPT ![t] = None]
    /\ UNCHANGED <<tasks, future, ran>>

\* the loop is closed: set_exception(CancelledError()) unless done.  The
\* future is resolved, its callbacks cannot be scheduled on the closed loop, and
\* the thread ends whether it is the RuntimeError of call_soon, the
\* InvalidStateError of a future resolved meanwhile, or CancelledError
Reject(t) ==
    /\ pc[t] = "reject"
    /\ future' = Resolved(item[t], "loopclosed")
    /\ item' = [item EXCEPT ![t] = None]
    /\ Goto(t, "dead")
    /\ UNCHANGED <<tasks, ready, ran>>

ThreadFrame == UNCHANGED <<closed_event, futures, loop_closed, shutdownVars>>

Thread(t) ==
    /\ \/ LoopTest(t) \/ GetTest(t) \/ Take(t) \/ PutBack(t) \/ CallTest(t)
       \/ ClosedTest(t) \/ Execute(t) \/ Post(t) \/ Reject(t)
    /\ ThreadFrame

-----------------------------------------------------------------------------
(***************************************************************************)
(* shutdown() and __del__.                                                 *)
(***************************************************************************)

\* a loop's thread calls shutdown(wait), or loop.shutdown_default_executor()
\* starts the helper thread that calls shutdown(wait=True)
Shutdown(by, wait) ==
    /\ sd_pc = "idle"
    /\ by \in Loops => LoopRuns(by)
    /\ by = Helper => Owner # Nobody /\ wait /\ ~loop_closed[Owner]
    /\ sd_pc' = "enter"
    /\ sd_by' = by
    /\ sd_wait' = wait
    /\ UNCHANGED <<queueVars, futureVars, loopVars, threadVars, ran,
                   shutdown_event, sd_future>>

\* under the lock: the event is set and the pool's attributes are deleted
SetShutdownEvent ==
    /\ sd_pc = "enter"
    /\ shutdown_event' = TRUE
    /\ sd_pc' = "close"
    /\ UNCHANGED <<queueVars, futureVars, sd_future>>

\* TaskChannel.close: closed_event.set(), then put(None)
CloseChannel ==
    /\ sd_pc = "close"
    /\ closed_event' = TRUE
    /\ sd_pc' = "pill"
    /\ UNCHANGED <<tasks, futureVars, shutdown_event, sd_future>>

PutPill ==
    /\ sd_pc = "pill"
    /\ tasks' = Append(tasks, None)
    /\ sd_pc' = IF sd_by = Collector THEN "gone" ELSE "while"
    /\ UNCHANGED <<closed_event, futureVars, shutdown_event, sd_future>>

\* Fault: shutdown(wait=False) returns before it fails the futures
WhileLabelWait == IF ~sd_wait THEN "returned" ELSE IF futures # {} THEN "pop" ELSE "wait"

WhileLabel == IF futures # {} THEN "pop" ELSE IF sd_wait THEN "wait" ELSE "returned"

\* while futures:
WhileFutures ==
    /\ sd_pc = "while"
    /\ sd_pc' = WhileLabel
    /\ UNCHANGED <<queueVars, futureVars, shutdown_event, sd_future>>

\* futures.pop(): a KeyError when a loop has discarded the last one meanwhile
PopFuture ==
    /\ sd_pc = "pop"
    /\ \/ futures = {} /\ sd_pc' = "raised" /\ UNCHANGED <<futures, sd_future>>
       \/ \E i \in futures :
             futures' = futures \ {i} /\ sd_future' = i /\ sd_pc' = "done"
    /\ UNCHANGED <<queueVars, future, shutdown_event>>

\* if future.done(): continue
DoneTest ==
    /\ sd_pc = "done"
    /\ sd_pc' = IF future[sd_future] # "pending" THEN "while" ELSE "set"
    /\ UNCHANGED <<queueVars, futureVars, shutdown_event, sd_future>>

\* set_exception schedules the done callbacks with loop.call_soon, after the
\* future is resolved: this raises on a closed loop, and on a running loop of
\* another thread when asyncio's debug mode is on
CallSoonRaises(l) == loop_closed[l] \/ (Debug /\ sd_by # l)

\* future.set_exception(ThreadPoolException("Pool closed")): InvalidStateError
\* when the future was resolved since DoneTest.  The discard it schedules finds
\* nothing to discard, and is left out
SetPoolClosed ==
    /\ sd_pc = "set"
    /\ IF future[sd_future] = "pending"
       THEN /\ future' = [future EXCEPT ![sd_future] = "closed"]
            /\ sd_pc' = IF CallSoonRaises(LoopOf[sd_future]) THEN "raised" ELSE "while"
       ELSE sd_pc' = "raised" /\ UNCHANGED future
    /\ UNCHANGED <<queueVars, futures, shutdown_event, sd_future>>

\* while not all(e.is_set() ...): until every thread has ended, or the timeout
EndWait(threadsEnded) ==
    /\ sd_pc = "wait"
    /\ threadsEnded <=> \A t \in Pool : pc[t] = "dead"
    /\ sd_pc' = "returned"
    /\ UNCHANGED <<queueVars, futureVars, shutdown_event, sd_future>>

ShutdownFrame == UNCHANGED <<loopVars, threadVars, ran, sd_by, sd_wait>>

ShutdownStep ==
    /\ \/ SetShutdownEvent \/ CloseChannel \/ PutPill \/ WhileFutures \/ PopFuture
       \/ DoneTest \/ SetPoolClosed \/ EndWait(TRUE)
    /\ ShutdownFrame

\* SHUTDOWN_TIMEOUT has passed with a thread still alive
ShutdownTimeout == EndWait(FALSE) /\ ShutdownFrame

\* __del__: the last reference to the pool is gone (a loop holds one while the
\* pool is its default executor); its queue is closed, its futures are left
Del ==
    /\ Droppable
    /\ sd_pc \in {"idle", "returned", "raised"}
    /\ sd_by # Collector
    /\ Owner # Nobody => loop_closed[Owner]
    /\ sd_pc' = "close"
    /\ sd_by' = Collector
    /\ UNCHANGED <<queueVars, futureVars, loopVars, threadVars, ran,
                   shutdown_event, sd_wait, sd_future>>

-----------------------------------------------------------------------------
LoopStep ==
    \/ \E i \in Items : Submit(i) \/ Cancel(i)
    \/ \E l \in Loops : RunCallback(l) \/ CloseLoop(l)

Next ==
    \/ LoopStep
    \/ \E t \in Threads : Thread(t)
    \/ \E by \in Callers, wait \in BOOLEAN : Shutdown(by, wait)
    \/ ShutdownStep
    \/ ShutdownTimeout
    \/ Del

Spec == Init /\ [][Next]_vars

(***************************************************************************)
(* Fairness: the operating system runs every thread, a running loop runs   *)
(* its callbacks, and the functions submitted to the pool end.  Nobody is  *)
(* obliged to submit, cancel, close, shut down or drop the pool, and the   *)
(* shutdown timeout need not strike.                                       *)
(***************************************************************************)
Fairness ==
    /\ \A t \in Threads : WF_vars(Thread(t))
    /\ \A l \in Loops : WF_vars(RunCallback(l))
    /\ WF_vars(ShutdownStep)

FairSpec == Spec /\ Fairness

-----------------------------------------------------------------------------
TypeOK ==
    /\ tasks \in Seq(Items \cup {None})
    /\ closed_event \in BOOLEAN
    /\ shutdown_event \in BOOLEAN
    /\ futures \subseteq Items
    /\ future \in [Items -> FutureStates]
    /\ ready \in [Loops -> Seq(Callbacks)]
    /\ loop_closed \in [Loops -> BOOLEAN]
    /\ pc \in [Threads -> ThreadLabels]
    /\ item \in [Threads -> Items \cup {None}]
    /\ ran \in [Items -> Outcomes \cup {"none"}]
    /\ sd_pc \in ShutdownLabels
    /\ sd_by \in Loops \cup {Nobody, Helper, Collector}
    /\ sd_wait \in BOOLEAN
    /\ sd_future \in Items \cup {None}

Queued(i) == \E k \in 1 .. Len(tasks) : tasks[k] = i
Held(i) == \E t \in Threads : item[t] = i
Posted(i) == \E k \in 1 .. Len(ready[LoopOf[i]]) :
                 ready[LoopOf[i]][k] = Callback(i, ran[i])

\* The inductive invariant behind the safety properties, in four parts.
\* An item is in one place at a time: at most once in the channel, in the hands
\* of at most one thread, and never in both.
OnePlace ==
    /\ \A j, k \in 1 .. Len(tasks) : tasks[j] = tasks[k] /\ tasks[j] # None => j = k
    /\ \A s, t \in Threads : item[s] = item[t] /\ item[s] # None => s = t
    /\ \A k \in 1 .. Len(tasks), t \in Threads : tasks[k] # None => tasks[k] # item[t]

\* A queued item has not run; how far the item in a thread's hands has come
\* follows from where the thread is.
RunState ==
    /\ \A i \in Items : future[i] = "none" => ran[i] = "none"
    /\ \A k \in 1 .. Len(tasks) :
          tasks[k] # None => future[tasks[k]] # "none" /\ ran[tasks[k]] = "none"
    /\ \A t \in Threads :
          /\ item[t] # None <=> pc[t] \in Holding
          /\ item[t] # None => future[item[t]] # "none"
          /\ pc[t] \in {"call", "closed1", "func"} => ran[item[t]] = "none"
          /\ pc[t] \in {"closed2", "post"} => ran[item[t]] # "none"
          /\ pc[t] = "reject" => loop_closed[LoopOf[item[t]]]

\* A callback that carries an outcome is queued on its item's own loop and
\* carries the outcome of its item's own function.
CallbackState ==
    \A l \in Loops : \A k \in 1 .. Len(ready[l]) :
        ready[l][k].call = "set" =>
            /\ LoopOf[ready[l][k].item] = l
            /\ ran[ready[l][k].item] = ready[l][k].outcome

ShutdownState ==
    /\ sd_pc \in {"while", "pop", "done", "set", "wait"} => shutdown_event
    /\ sd_pc \in {"close", "pill"} /\ sd_by # Collector => shutdown_event
    /\ sd_pc \in {"done", "set"} => sd_future \in Items

\* Work is never lost between submit() and the future: while its loop is open, a
\* pending future's item is in the channel, in the hands of a thread, or its
\* result is among the callbacks of its own loop.
NoLostWork ==
    \A i \in Items :
        future[i] = "pending" /\ ~loop_closed[LoopOf[i]] => Queued(i) \/ Held(i) \/ Posted(i)

\* WorkItem.__call__ runs each submitted function at most once, however the
\* threads, shutdown() and the loops interleave.
RunsOnce == [][\A t \in Threads : Execute(t) => ran[item[t]] = "none"]_vars

\* A future that carries a result or an exception of a function carries that of
\* its own function.
OwnOutcome == \A i \in Items : future[i] \in Outcomes => future[i] = ran[i]

\* A resolved future keeps its outcome: _set_workitem_result, WorkItem.__call__
\* and shutdown() never overwrite what another of them has set.
FutureFinal ==
    [][\A i \in Items : future[i] \notin {"none", "pending"} => future'[i] = future[i]]_vars

\* _adjust_thread_count keeps up with submit(): every unresolved future has a
\* thread of its own, or the pool has max_workers threads.
GrowthKeepsUp ==
    ~shutdown_event => Cardinality(futures) <= PoolSize \/ PoolSize = MaxWorkers

\* Every future is resolved in the end, unless a loop was closed, the pool was
\* dropped without shutdown(), or shutdown() raised.
FuturesResolved ==
    \A i \in Items :
        future[i] = "pending" ~>
            \/ future[i] # "pending"
            \/ sd_by = Collector \/ sd_pc = "raised"
            \/ \E l \in Loops : loop_closed[l]

\* Closing the channel, by shutdown() or __del__, ends every worker thread.
CloseEndsThreads == sd_pc = "close" ~> \A t \in Pool : pc[t] = "dead"

-----------------------------------------------------------------------------
Promise == INSTANCE Executor WITH
    future <- future, ran <- ran, shutdown_event <- shutdown_event,
    loop_closed <- loop_closed

\* The pool keeps the promise of an executor: its threads, its channel and the
\* loops' callbacks only ever take steps that Executor allows.
KeepsPromise == Promise!Spec
=============================================================================
