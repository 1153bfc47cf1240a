----------------------------- MODULE WorkerPool -----------------------------
(***************************************************************************)
(* aiomisc/worker_pool.py with aiomisc_worker/: calls are put in a queue;  *)
(* a handler per connected worker process sends them over a socket, one at *)
(* a time; a supervisor process forks the workers and replaces those that  *)
(* fail; a cancelled call signals the process that was given it.           *)
(*                                                                         *)
(* Callers, handlers and close() are tasks of one event loop, a step is    *)
(* what one of them does between two awaits.  The supervisor and the       *)
(* workers are processes of their own.                                     *)
(***************************************************************************)
EXTENDS Naturals, Sequences, FiniteSets

CONSTANTS
    Calls,          \* calls of create_task(), each made at most once
    Processes,      \* the worker processes that may be forked
    WorkerCount,    \* workers
    MaxOverflow,    \* max_overflow: the size of the queue, 0 if unbounded
    Cancellable,    \* the calls whose caller may be cancelled
    Faulty,         \* the calls that may not be pickled, or end their process with status 0
    Deaths,         \* bound: how often a worker dies of its own
    Faults,         \* what may go wrong, see FaultNames
    Pending         \* a future that is not done; no call

FaultNames ==
    {"late_signal",     \* a signal meets a worker that has just sent its answer
     "initializer",     \* the initializer raises
     "close"}           \* close() is called

\* How a call may end without an answer.
Failures == {"cancelled", "died", "unpicklable", "initializer", "no_process"}

ASSUME PoolAssumption ==
    /\ WorkerCount \in Nat \ {0} /\ MaxOverflow \in Nat /\ Deaths \in Nat
    /\ IsFiniteSet(Calls) /\ IsFiniteSet(Processes)
    /\ Pending \notin Calls \cup Processes \cup Failures
    /\ Failures \cap (Calls \cup Processes) = {} /\ Cancellable \cup Faulty \subseteq Calls
    /\ Faults \subseteq FaultNames
    \* a call costs at most one process
    /\ Cardinality(Processes) >= WorkerCount + Deaths + Cardinality(Calls)

VARIABLES
    pc,                 \* where each caller is in create_task()
    process_future,     \* per call: the process, "cancelled", "initializer" or Pending
    result_future,      \* per call: the call answered for, a failure or Pending
    cancelling,         \* the callers that are to be thrown a CancelledError
    outcome,            \* how each call has ended
    tasks,              \* self.tasks
    handler,            \* per process: where its __handle_client() is
    job,                \* per process: the call its handler has sent
    closing,            \* how far close() has come
    supervisor,         \* "initializer", "wait" or "exit"
    worker,             \* per process: where the process is
    request,            \* per process: the requests in the socket
    running,            \* per process: the call whose function it runs
    replies,            \* per process: the answers in the socket
    signalled,          \* the processes with a pending SIGNAL
    reaped,             \* the processes os.wait() has returned
    ran,                \* history: how often the function of a call was started
    deaths              \* how many workers have died of their own

callers == <<pc, process_future, result_future, cancelling, outcome, tasks>>
pool == <<handler, job, closing>>
workers == <<worker, request, running, replies, signalled>>
spawn == <<supervisor, reaped>>
vars == <<callers, pool, workers, spawn, ran, deaths>>

Exited(p) == worker[p] \in {"zero", "failed"}
Alive == {p \in Processes : worker[p] \in {"connect", "auth", "receive", "run", "sent"}}

\* start() has bound the socket and started the supervisor.
Init ==
    /\ pc = [i \in Calls |-> "idle"]
    /\ process_future = [i \in Calls |-> Pending]
    /\ result_future = [i \in Calls |-> Pending]
    /\ cancelling = {} /\ outcome = [i \in Calls |-> Pending]
    /\ tasks = <<>>
    /\ handler = [p \in Processes |-> "none"]
    /\ job = [p \in Processes |-> Pending]
    /\ closing = "open" /\ supervisor = "initializer"
    /\ worker = [p \in Processes |-> "none"]
    /\ request = [p \in Processes |-> <<>>]
    /\ running = [p \in Processes |-> Pending]
    /\ replies = [p \in Processes |-> <<>>]
    /\ signalled = {} /\ reaped = {} /\ deaths = 0
    /\ ran = [i \in Calls |-> 0]

(***************************************************************************)
(* create_task()                                                           *)
(***************************************************************************)
Full == MaxOverflow > 0 /\ Len(tasks) >= MaxOverflow

\* tasks.put() at once, or a wait for room in the queue.
Put(i) ==
    /\ pc[i] \in {"idle", "put"} /\ i \notin cancelling
    /\ IF Full
       THEN pc[i] = "idle" /\ pc' = [pc EXCEPT ![i] = "put"] /\ UNCHANGED tasks
       ELSE pc' = [pc EXCEPT ![i] = "queued"] /\ tasks' = Append(tasks, i)
    /\ UNCHANGED <<process_future, result_future, cancelling, outcome, pool, workers, spawn, ran, deaths>>

Raise(i, error) ==
    /\ pc' = [pc EXCEPT ![i] = "done"]
    /\ outcome' = [outcome EXCEPT ![i] = error]

\* task.cancel(): the future that is awaited is cancelled, if it is not done.
Cancel(i) ==
    /\ i \in Cancellable \ cancelling /\ pc[i] \in {"put", "queued", "wait"}
    /\ cancelling' = cancelling \cup {i}
    /\ process_future' = IF pc[i] = "queued" /\ process_future[i] = Pending
                         THEN [process_future EXCEPT ![i] = "cancelled"] ELSE process_future
    /\ result_future' = IF pc[i] = "wait" /\ result_future[i] = Pending
                        THEN [result_future EXCEPT ![i] = "cancelled"] ELSE result_future
    /\ UNCHANGED <<pc, outcome, tasks, pool, workers, spawn, ran, deaths>>

PutCancelled(i) ==
    /\ pc[i] = "put" /\ i \in cancelling
    /\ Raise(i, "cancelled")
    /\ UNCHANGED <<process_future, result_future, cancelling, tasks, pool, workers, spawn, ran, deaths>>

\* pid = await process_future: whoever is cancelled here signals nobody.
Assigned(i) ==
    /\ pc[i] = "queued" /\ process_future[i] # Pending
    /\ IF i \in cancelling THEN Raise(i, "cancelled")
       ELSE IF process_future[i] \in Processes
       THEN pc' = [pc EXCEPT ![i] = "wait"] /\ UNCHANGED outcome
       ELSE Raise(i, process_future[i])
    /\ UNCHANGED <<process_future, result_future, cancelling, tasks, pool, workers, spawn, ran, deaths>>

Interrupted(i) == i \in cancelling \/ result_future[i] = "cancelled"

\* return await result_future
Return(i) ==
    /\ pc[i] = "wait" /\ result_future[i] # Pending /\ ~Interrupted(i)
    /\ Raise(i, result_future[i])
    /\ UNCHANGED <<process_future, result_future, cancelling, tasks, pool, workers, spawn, ran, deaths>>

\* except CancelledError: os.kill(pid, SIGNAL), also if it was the worker's answer.
\* os.kill() raises if the process is gone.
Kill(i) ==
    LET p == process_future[i] IN
    /\ pc[i] = "wait" /\ result_future[i] # Pending /\ Interrupted(i)
    /\ Raise(i, IF p \in reaped THEN "no_process" ELSE "cancelled")
    /\ signalled' = signalled \cup ({p} \cap Alive)
    /\ UNCHANGED <<process_future, result_future, cancelling, tasks, pool, worker, request, running,
                   replies, spawn, ran, deaths>>

(***************************************************************************)
(* __handle_client()                                                       *)
(***************************************************************************)
\* AUTH_OK, once close() does not hold the lock.
Authorize(p) ==
    /\ handler[p] = "auth" /\ closing = "open"
    /\ handler' = [handler EXCEPT ![p] = "get"]
    /\ worker' = [worker EXCEPT ![p] = IF @ = "auth" THEN "receive" ELSE @]
    /\ UNCHANGED <<callers, job, closing, request, running, replies, signalled, spawn, ran, deaths>>

\* The head of the loop: at_eof() is true once the end of the stream has been read.
Loop(p, left) ==
    \E next \in {"get"} \cup (IF Exited(p) /\ left = <<>> THEN {"none"} ELSE {}) :
        handler' = [handler EXCEPT ![p] = next]

\* tasks.get() returns a call that has been given up.
GetDone(p) ==
    /\ handler[p] = "get" /\ tasks # <<>>
    /\ process_future[Head(tasks)] # Pending \/ result_future[Head(tasks)] # Pending
    /\ tasks' = Tail(tasks)
    /\ Loop(p, replies[p])
    /\ UNCHANGED <<pc, process_future, result_future, cancelling, outcome, job, closing, workers, spawn, ran, deaths>>

\* tasks.get() returns a call for this process.
Take(p, i) ==
    /\ handler[p] = "get" /\ tasks # <<>> /\ i = Head(tasks)
    /\ process_future[i] = Pending /\ result_future[i] = Pending
    /\ tasks' = Tail(tasks)
    /\ process_future' = [process_future EXCEPT ![i] = p]

Send(p) ==
    /\ \E i \in Calls :
          /\ Take(p, i)
          /\ request' = [request EXCEPT ![p] = Append(@, i)]
          /\ job' = [job EXCEPT ![p] = i]
    /\ handler' = [handler EXCEPT ![p] = "reply"]
    /\ UNCHANGED <<pc, result_future, cancelling, outcome, closing, worker, running, replies, signalled, spawn, ran, deaths>>

\* proto.send() raises: the connection is closed.
SendFails(p) ==
    /\ \E i \in Faulty :
          /\ Take(p, i)
          /\ result_future' = [result_future EXCEPT ![i] = "unpicklable"]
    /\ handler' = [handler EXCEPT ![p] = "closed"]
    /\ UNCHANGED <<pc, cancelling, outcome, job, closing, workers, spawn, ran, deaths>>

Resolve(i, result) ==
    result_future' = IF result_future[i] = Pending
                     THEN [result_future EXCEPT ![i] = result] ELSE result_future

\* proto.receive() returns; the answer to a call that is done is dropped.
Receive(p) ==
    /\ handler[p] = "reply" /\ replies[p] # <<>>
    /\ replies' = [replies EXCEPT ![p] = Tail(@)]
    /\ Resolve(job[p], Head(replies[p]))
    /\ job' = [job EXCEPT ![p] = Pending]
    /\ Loop(p, replies'[p])
    /\ UNCHANGED <<pc, process_future, cancelling, outcome, tasks, closing, worker, request, running, signalled, spawn, ran, deaths>>

\* Fault: the call of a lost worker is given to the next one.
LostRetries(p) ==
    /\ handler[p] = "reply" /\ replies[p] = <<>> /\ Exited(p)
    /\ tasks' = Append(tasks, job[p])
    /\ process_future' = [process_future EXCEPT ![job[p]] = Pending]
    /\ job' = [job EXCEPT ![p] = Pending]
    /\ handler' = [handler EXCEPT ![p] = "none"]
    /\ UNCHANGED <<pc, result_future, cancelling, outcome, closing, workers, spawn, ran, deaths>>

\* Fault: the handler ends and leaves the call without a result.
LostSilently(p) ==
    /\ handler[p] = "reply" /\ replies[p] = <<>> /\ Exited(p)
    /\ job' = [job EXCEPT ![p] = Pending]
    /\ handler' = [handler EXCEPT ![p] = "none"]
    /\ UNCHANGED <<callers, closing, workers, spawn, ran, deaths>>

\* IncompleteReadError or ConnectionError
Lost(p) ==
    /\ handler[p] = "reply" /\ replies[p] = <<>> /\ Exited(p)
    /\ Resolve(job[p], "died")
    /\ job' = [job EXCEPT ![p] = Pending]
    /\ handler' = [handler EXCEPT ![p] = "none"]
    /\ UNCHANGED <<pc, process_future, cancelling, outcome, tasks, closing, workers, spawn, ran, deaths>>

(***************************************************************************)
(* close(), and a worker process that tells of a failed initializer        *)
(***************************************************************************)
Reject(future, error) ==
    [i \in Calls |-> IF future[i] = Pending /\ pc[i] # "idle" THEN error ELSE future[i]]

\* The supervisor is interrupted and the server closed.
Close ==
    /\ "close" \in Faults /\ closing = "open"
    /\ closing' = "server"
    /\ UNCHANGED <<callers, handler, job, workers, spawn, ran, deaths>>

BadInitializer ==
    /\ "initializer" \in Faults /\ supervisor = "initializer" /\ closing = "open"
    /\ process_future' = Reject(process_future, "initializer")
    /\ result_future' = Reject(result_future, "initializer")
    /\ closing' = "server" /\ supervisor' = "exit"
    /\ UNCHANGED <<pc, cancelling, outcome, tasks, handler, job, workers, reaped, ran, deaths>>

\* cancel_tasks(task_store)
CloseHandlers ==
    /\ closing = "server"
    /\ closing' = "handlers"
    /\ handler' = [p \in Processes |-> IF handler[p] = "closed" THEN "closed" ELSE "none"]
    /\ job' = [p \in Processes |-> Pending]
    /\ UNCHANGED <<callers, workers, spawn, ran, deaths>>

\* cancel_tasks(futures)
CloseFutures ==
    /\ closing = "handlers"
    /\ closing' = "closed"
    /\ process_future' = Reject(process_future, "cancelled")
    /\ result_future' = Reject(result_future, "cancelled")
    /\ UNCHANGED <<pc, cancelling, outcome, tasks, handler, job, workers, spawn, ran, deaths>>

(***************************************************************************)
(* aiomisc_worker.worker: a worker process                                 *)
(***************************************************************************)
Become(p, state) == worker' = [worker EXCEPT ![p] = state]

Connect(p) ==
    /\ worker[p] = "connect" /\ closing = "open"
    /\ Become(p, "auth")
    /\ handler' = [handler EXCEPT ![p] = "auth"]
    /\ UNCHANGED <<callers, job, closing, request, running, replies, signalled, spawn, ran, deaths>>

\* except ConnectionError: return.  The server or the connection is closed.
Disconnected(p) ==
    /\ \/ worker[p] = "connect" /\ closing # "open"
       \/ worker[p] = "receive" /\ handler[p] = "closed"
    /\ Become(p, "zero")
    /\ UNCHANGED <<callers, pool, request, running, replies, signalled, spawn, ran, deaths>>

\* execute(): a request is received and the function called.
Execute(p) ==
    /\ worker[p] = "receive" /\ request[p] # <<>>
    /\ Become(p, "run")
    /\ running' = [running EXCEPT ![p] = Head(request[p])]
    /\ request' = [request EXCEPT ![p] = Tail(@)]
    /\ ran' = [ran EXCEPT ![Head(request[p])] = @ + 1]
    /\ UNCHANGED <<callers, pool, replies, signalled, spawn, deaths>>

Reply(p, answer) ==
    /\ replies' = [replies EXCEPT ![p] = Append(@, answer)]
    /\ running' = [running EXCEPT ![p] = Pending]

\* The function returns or raises an Exception; the worker is still in the try.
Answer(p) ==
    /\ worker[p] = "run"
    /\ Become(p, "sent")
    /\ Reply(p, running[p])
    /\ UNCHANGED <<callers, pool, request, signalled, spawn, ran, deaths>>

Answered(p) ==
    /\ worker[p] = "sent"
    /\ Become(p, "receive")
    /\ UNCHANGED <<callers, pool, request, running, replies, signalled, spawn, ran, deaths>>

\* on_cancel_signal() raises CancelledError wherever the process is: CANCELLED is
\* sent from the try, and nothing catches it between two requests.
Signal(p) ==
    /\ p \in signalled \cap Alive
    /\ signalled' = signalled \ {p}
    /\ \/ /\ worker[p] = "run" \/ (worker[p] = "sent" /\ "late_signal" \in Faults)
          /\ Become(p, "receive") /\ Reply(p, "cancelled")
       \/ /\ worker[p] = "receive"
          /\ Become(p, "failed") /\ UNCHANGED <<running, replies>>
    /\ UNCHANGED <<callers, pool, request, spawn, ran, deaths>>

\* The process is killed, or its function exits with a status other than 0.
Die(p) ==
    /\ deaths < Deaths /\ p \in Alive
    /\ deaths' = deaths + 1
    /\ Become(p, "failed")
    /\ UNCHANGED <<callers, pool, request, running, replies, signalled, spawn, ran>>

\* The function raises SystemExit(0).
Exit(p) ==
    /\ worker[p] = "run" /\ running[p] \in Faulty
    /\ Become(p, "zero")
    /\ UNCHANGED <<callers, pool, request, running, replies, signalled, spawn, ran, deaths>>

(***************************************************************************)
(* aiomisc_worker.forking: the supervisor                                  *)
(***************************************************************************)
Unforked == {p \in Processes : worker[p] = "none"}

\* os.fork() makes processes that were not there.
Fork(P) == worker' = [p \in Processes |-> IF p \in P \cap Unforked THEN "connect" ELSE worker[p]]

\* main() forks the workers.
ForkAll ==
    /\ supervisor = "initializer" /\ closing = "open"
    /\ Fork(CHOOSE P \in SUBSET Unforked : Cardinality(P) = WorkerCount)
    /\ supervisor' = "wait"
    /\ UNCHANGED <<callers, pool, request, running, replies, signalled, reaped, ran, deaths>>

\* os.wait(): a process that has failed is replaced, one with status 0 is not.
Wait(p) ==
    /\ supervisor = "wait" /\ Exited(p) /\ p \notin reaped
    /\ reaped' = reaped \cup {p}
    /\ IF worker[p] = "zero" THEN UNCHANGED worker
       ELSE Fork({CHOOSE q \in Unforked : TRUE})
    /\ UNCHANGED <<callers, pool, request, running, replies, signalled, supervisor, ran, deaths>>

\* os.wait() raises ChildProcessError.
NoChildren ==
    /\ supervisor = "wait" /\ Processes = Unforked \cup reaped
    /\ supervisor' = "exit"
    /\ UNCHANGED <<callers, pool, workers, reaped, ran, deaths>>

\* Fault: the supervisor exits without its workers.
InterruptAlone ==
    /\ supervisor \in {"initializer", "wait"} /\ closing # "open"
    /\ supervisor' = "exit"
    /\ UNCHANGED <<callers, pool, workers, reaped, ran, deaths>>

\* KeyboardInterrupt: at_exit() terminates the workers.
Interrupt ==
    /\ supervisor \in {"initializer", "wait"} /\ closing # "open"
    /\ supervisor' = "exit"
    /\ worker' = [p \in Processes |-> IF p \in Alive THEN "failed" ELSE worker[p]]
    /\ UNCHANGED <<callers, pool, request, running, replies, signalled, reaped, ran, deaths>>

CallerStep(i) == Assigned(i) \/ Return(i) \/ Kill(i) \/ PutCancelled(i) \/ (pc[i] = "put" /\ Put(i))
HandlerStep(p) ==
    Authorize(p) \/ GetDone(p) \/ Send(p) \/ SendFails(p) \/ Receive(p) \/ Lost(p)
WorkerStep(p) == Connect(p) \/ Disconnected(p) \/ Execute(p) \/ Answer(p) \/ Answered(p) \/ Signal(p)
CloseStep == CloseHandlers \/ CloseFutures
SupervisorStep == ForkAll \/ (\E p \in Processes : Wait(p)) \/ NoChildren \/ Interrupt

Next ==
    \/ \E i \in Calls : Put(i) \/ Cancel(i) \/ CallerStep(i)
    \/ \E p \in Processes : HandlerStep(p) \/ WorkerStep(p) \/ Die(p) \/ Exit(p)
    \/ Close \/ BadInitializer \/ CloseStep \/ SupervisorStep

Spec == Init /\ [][Next]_vars

(***************************************************************************)
(* The event loop runs every task that can run, functions return, and the  *)
(* processes are scheduled.  Nobody has to call, cancel, close or fail.    *)
(***************************************************************************)
FairSpec ==
    /\ Spec
    /\ \A i \in Calls : WF_vars(CallerStep(i))
    /\ \A p \in Processes : WF_vars(HandlerStep(p)) /\ WF_vars(WorkerStep(p))
    /\ WF_vars(CloseStep) /\ WF_vars(SupervisorStep)
-----------------------------------------------------------------------------
\* The pool keeps the promise of RemoteCalls.
Promise == INSTANCE RemoteCalls WITH begun <- {i \in Calls : pc[i] # "idle"}

KeepsPromise == Promise!Spec

\* test_success: a call that returns, returns what its own function has returned.
OwnAnswer == \A i \in Calls : outcome[i] \in Calls => outcome[i] = i

\* Every process has ended with status 0: nobody serves the queue.
Abandoned == supervisor = "exit" /\ closing = "open"

\* A call that is in the queue of an open pool ends: with an answer, or because it
\* was cancelled, its process died or the pool was closed.
CallsEnd ==
    \A i \in Calls : pc[i] \in {"queued", "wait"} /\ closing = "open" ~> pc[i] = "done" \/ Abandoned

\* close() leaves no process behind, whatever the workers and the supervisor do.
CloseEndsProcesses ==
    closing # "open" ~> [](Alive = {})
=============================================================================
