----------------------------- MODULE Entrypoint -----------------------------
(***************************************************************************)
(* aiomisc/entrypoint.py: services are started in groups, a body runs, and *)
(* the services are stopped when the body ends or a signal arrives.        *)
(*                                                                         *)
(* Everything runs on one event loop, so a step is what happens between    *)
(* two awaits.  The program is                                             *)
(*                                                                         *)
(*     with entrypoint( *services ) as loop:                               *)
(*         loop.run_until_complete(main())    or    loop.run_forever()     *)
(*                                                                         *)
(* with a background task that may start and stop more services.           *)
(***************************************************************************)
EXTENDS Naturals, FiniteSets

CONSTANTS
    Initial,            \* the services given to the entrypoint
    Dynamic,            \* the services a background task starts and stops
    Interrupts,         \* the signals that may arrive
    Owner,              \* self._loop_owner
    BodyTask,           \* the body is run_until_complete(main()), not run_forever()
    BodyEnds,           \* main() may end by itself
    StartRaises,        \* services whose start() may raise
    StopRaises,         \* services whose stop() may raise
    StartCancelled,     \* groups whose start_services() may be cancelled
    ExitAfterFailure,   \* __aexit__() is called after a failed start, as the docs advise
    None

Services == Initial \cup Dynamic
Groups == {"initial", "dynamic"}
Group(g) == IF g = "initial" THEN Initial ELSE Dynamic

\* The coroutines that stop services: __aexit__(), the background task's
\* stop_services(), and one _stop() for each signal.
Stoppers == {"exit", "dynamic"} \cup Interrupts

ASSUME EntrypointAssumption ==
    /\ Initial # {} /\ Initial \cap Dynamic = {}
    /\ Interrupts \cap {"exit", "dynamic"} = {} /\ None \notin Stoppers
    /\ {Owner, BodyTask, BodyEnds, ExitAfterFailure} \subseteq BOOLEAN
    /\ StartCancelled \subseteq Groups

VARIABLES
    main,       \* where the `with` statement is
    group,      \* where start_services() is, for each group
    starter,    \* where _start_service() is, for each service
    task,       \* the service's start() task
    ready,      \* the service's start_event
    services,   \* self._services
    tasks,      \* self._tasks: the services whose start() goes on
    closing,    \* self._closing: None, or the coroutine that has set the event
    handlers,   \* the signal handlers are applied
    stopper,    \* where each stopping coroutine is
    mine,       \* what it has taken from self._tasks, then from self._services
    failed,     \* the exception on its way out of it: "no", "raised" or "cancelled"
    stop,       \* the stop() tasks it has created
    ctx,        \* self.ctx: "open" or "closed"
    executor,   \* the default executor: "up" or "down"
    loop_stop,  \* loop.stop() has been called
    struck,     \* history: the signals whose shutdown timeout has struck
    status      \* the exit status

startVars == <<group, starter, task, ready, services, tasks>>
stopVars == <<closing, handlers, stopper, mine, failed, stop, ctx, executor, loop_stop, struck, status>>
vars == <<main, startVars, stopVars>>

Over == {"returned", "raised", "cancelled"}

Init ==
    /\ main = "start"
    /\ group = [g \in Groups |-> "idle"]
    /\ starter = [s \in Services |-> "none"]
    /\ task = [s \in Services |-> "none"]
    /\ ready = [s \in Services |-> FALSE]
    /\ services = {} /\ tasks = {}
    /\ closing = None /\ handlers = FALSE
    /\ stopper = [k \in Stoppers |-> "idle"]
    /\ mine = [k \in Stoppers |-> {}]
    /\ failed = [k \in Stoppers |-> "no"]
    /\ stop = [k \in Stoppers |-> [s \in Services |-> "none"]]
    /\ ctx = "open" /\ executor = "up"
    /\ loop_stop = FALSE /\ struck = {} /\ status = 0

\* The loop runs.  After a failed __enter__() it does not, unless __aexit__() is awaited.
Running == main # "closed" /\ (main = "failed" => ExitAfterFailure)

\* task.cancel() for the start() tasks, or stop() tasks, of a set of services.
Cancel(f, S) == [s \in Services |-> IF s \in S /\ f[s] = "running" THEN "cancelling" ELSE f[s]]

\* task.cancel() for the _start_service() tasks: one that has not begun never will.
Hit(S) ==
    [s \in Services |->
        CASE s \in S /\ starter[s] = "new" -> "failed"
          [] s \in S /\ starter[s] \in {"wait", "event"} -> "hit"
          [] OTHER -> starter[s]]

(***************************************************************************)
(* start_services()                                                        *)
(***************************************************************************)
\* PRE_START is called.
StartGroup(g) ==
    /\ Running /\ group[g] = "idle" /\ Group(g) # {}
    /\ main \in IF g = "initial" THEN {"start"} ELSE {"body", "exit"}
    /\ group' = [group EXCEPT ![g] = "pre"]
    /\ UNCHANGED <<main, starter, task, ready, services, tasks, stopVars>>

CreateStarters(g) ==
    /\ Running /\ group[g] = "pre"
    /\ group' = [group EXCEPT ![g] = "gather"]
    /\ starter' = [s \in Services |-> IF s \in Group(g) THEN "new" ELSE starter[s]]
    /\ UNCHANGED <<main, task, ready, services, tasks, stopVars>>

\* gather() has all results.  POST_START is called.
GatherDone(g) ==
    /\ Running /\ group[g] = "gather"
    /\ \A s \in Group(g) : starter[s] = "ok"
    /\ group' = [group EXCEPT ![g] = "post"]
    /\ UNCHANGED <<main, starter, task, ready, services, tasks, stopVars>>

\* gather() raises: the other startups are cancelled.
GatherFails(g) ==
    /\ Running /\ group[g] = "gather"
    /\ \E s \in Group(g) : starter[s] = "failed"
    /\ group' = [group EXCEPT ![g] = "joining"]
    /\ starter' = Hit(Group(g))
    /\ UNCHANGED <<main, task, ready, services, tasks, stopVars>>

\* Fault: the cancelled startups are not awaited.
GroupOverAtOnce(g) == TRUE

GroupOver(g) == \A s \in Group(g) : starter[s] \in {"ok", "failed"}

\* The group is joined.  POST_START is called.
GroupJoined(g) ==
    /\ Running /\ group[g] = "joining" /\ GroupOver(g)
    /\ group' = [group EXCEPT ![g] = "undo"]
    /\ UNCHANGED <<main, starter, task, ready, services, tasks, stopVars>>

\* POST_START's receivers have returned.
GroupEnds(g) ==
    /\ Running /\ group[g] \in {"post", "undo"}
    /\ group' = [group EXCEPT ![g] = IF @ = "post" THEN "ok" ELSE "failed"]
    /\ UNCHANGED <<main, starter, task, ready, services, tasks, stopVars>>

\* What a cancellation of the task in start_services() leads to: gather() passes it
\* on to its children, and the loop that joins a group ignores it.
GroupAfterCancel(g) ==
    CASE group[g] \in {"pre", "post", "undo"} -> "failed"
      [] group[g] = "gather" /\ (\A s \in Group(g) : starter[s] = "ok") -> "joining"
      [] OTHER -> group[g]

CancelStart(g) ==
    /\ Running /\ g \in StartCancelled /\ group[g] \notin {"idle", "ok", "failed"}
    /\ group' = [group EXCEPT ![g] = GroupAfterCancel(g)]
    /\ starter' = IF group[g] = "gather" THEN Hit(Group(g)) ELSE starter
    /\ UNCHANGED <<main, task, ready, services, tasks, stopVars>>

(***************************************************************************)
(* _start_service()                                                        *)
(***************************************************************************)
Begin(s) ==
    /\ Running /\ starter[s] = "new"
    /\ services' = services \cup {s}
    /\ task' = [task EXCEPT ![s] = "running"]
    /\ starter' = [starter EXCEPT ![s] = "wait"]
    /\ UNCHANGED <<main, group, ready, tasks, stopVars>>

\* asyncio.wait() returns; the event is set for a start() that did not set it.
Wake(s) ==
    /\ Running /\ starter[s] = "wait" /\ (ready[s] \/ task[s] \in Over)
    /\ ready' = [ready EXCEPT ![s] = TRUE]
    /\ starter' = [starter EXCEPT ![s] = "event"]
    /\ UNCHANGED <<main, group, task, services, tasks, stopVars>>

Registered(s) == IF task[s] \in Over THEN tasks ELSE tasks \cup {s}

Settle(s) ==
    /\ Running /\ starter[s] = "event"
    /\ tasks' = Registered(s)
    /\ starter' = [starter EXCEPT ![s] = IF task[s] \in {"raised", "cancelled"} THEN "failed" ELSE "ok"]
    /\ UNCHANGED <<main, group, task, ready, services, stopVars>>

\* Fault: the start() task of a cancelled startup is left alone.
CleanupNoCancel(s) == task

CleanupCancel(s) == Cancel(task, {s})

\* The cancellation arrives: start() is cancelled in turn ...
Cleanup(s) ==
    /\ Running /\ starter[s] = "hit"
    /\ task' = CleanupCancel(s)
    /\ starter' = [starter EXCEPT ![s] = "cleanup"]
    /\ UNCHANGED <<main, group, ready, services, tasks, stopVars>>

MayRaise(s) == task[s] \in Over

\* ... and joined, however often the cancellation is repeated.
CleanedUp(s) ==
    /\ Running /\ starter[s] = "cleanup" /\ MayRaise(s)
    /\ starter' = [starter EXCEPT ![s] = "failed"]
    /\ UNCHANGED <<main, group, task, ready, services, tasks, stopVars>>

(***************************************************************************)
(* A service's start(): it may set start_event and go on, return or raise. *)
(* Once cancelled it ends.                                                 *)
(***************************************************************************)
SetReady(s) ==
    /\ Running /\ task[s] = "running" /\ ~ready[s]
    /\ ready' = [ready EXCEPT ![s] = TRUE]
    /\ UNCHANGED <<main, group, starter, task, services, tasks, stopVars>>

StartReturns(s) ==
    /\ Running /\ task[s] = "running"
    /\ task' = [task EXCEPT ![s] = "returned"]
    /\ UNCHANGED <<main, group, starter, ready, services, tasks, stopVars>>

StartFails(s) ==
    /\ Running /\ task[s] = "running" /\ s \in StartRaises
    /\ task' = [task EXCEPT ![s] = "raised"]
    /\ UNCHANGED <<main, group, starter, ready, services, tasks, stopVars>>

StartGivesUp(s) ==
    /\ Running /\ task[s] = "cancelling"
    /\ task' = [task EXCEPT ![s] = "cancelled"]
    /\ UNCHANGED <<main, group, starter, ready, services, tasks, stopVars>>

(***************************************************************************)
(* The `with` statement                                                    *)
(***************************************************************************)
\* _start() returns: the signal handlers are applied.
Entered ==
    /\ main = "start" /\ group["initial"] = "ok"
    /\ main' = "body" /\ handlers' = TRUE
    /\ UNCHANGED <<startVars, closing, stopper, mine, failed, stop, ctx, executor, loop_stop, struck, status>>

\* __enter__() raises, and the body and __exit__() are left out.
EnterFails ==
    /\ main = "start" /\ group["initial"] = "failed"
    /\ main' = "failed"
    /\ UNCHANGED <<startVars, stopVars>>

\* The body ends because main() does, or because the loop is stopped, and
\* __exit__() runs __aexit__().
ExitBody ==
    /\ \/ main = "body" /\ ((BodyTask /\ BodyEnds) \/ loop_stop)
       \/ main = "failed" /\ ExitAfterFailure
    /\ main' = "exit"
    /\ loop_stop' = FALSE
    /\ stopper' = [stopper EXCEPT !["exit"] = "run"]
    /\ UNCHANGED <<startVars, closing, handlers, mine, failed, stop, ctx, executor, struck, status>>

\* Runner.close(), from __exit__() or from __del__(): all tasks that are left are
\* cancelled, among them the _stop() of a signal, whose done callback then exits.
CloseLoop ==
    /\ \/ main = "exit" /\ (stopper["exit"] = "done" \/ loop_stop)
       \/ main = "failed" /\ ~ExitAfterFailure
    /\ main' = "closed"
    /\ task' = [s \in Services |-> IF task[s] \in {"running", "cancelling"} THEN "cancelled" ELSE task[s]]
    /\ stop' = [k \in Stoppers |-> [s \in Services |->
                    IF stop[k][s] \in {"running", "cancelling"} THEN "cancelled" ELSE stop[k][s]]]
    /\ stopper' = [k \in Stoppers |-> IF stopper[k] = "idle" THEN "idle" ELSE "done"]
    /\ status' = IF \E i \in Interrupts : stopper[i] \notin {"idle", "done"} THEN 70 ELSE status
    /\ executor' = "down"
    /\ UNCHANGED <<group, starter, ready, services, tasks, closing, handlers, mine, failed, ctx, loop_stop, struck>>

(***************************************************************************)
(* _stop(), graceful_shutdown() and stop_services()                        *)
(***************************************************************************)
\* _on_interrupt(): a task that runs _stop() is created.
Interrupt(i) ==
    /\ Running /\ handlers /\ stopper[i] = "idle"
    /\ stopper' = [stopper EXCEPT ![i] = "run"]
    /\ UNCHANGED <<main, startVars, closing, handlers, mine, failed, stop, ctx, executor, loop_stop, struck, status>>

\* Fault: graceful_shutdown() does not look whether it is closing already.
MustShutTwice(k) == TRUE

MustShut(k) == closing = None

\* _stop() restores the signal handlers.
RestoreHandlers == handlers' = FALSE

\* _stop() begins.  Only the first one shuts down; it cancels self._tasks.
Shut(k) ==
    /\ Running /\ stopper[k] = "run"
    /\ RestoreHandlers
    /\ IF MustShut(k)
       THEN /\ closing' = k
            /\ mine' = [mine EXCEPT ![k] = tasks]
            /\ task' = Cancel(task, tasks)
            /\ stopper' = [stopper EXCEPT ![k] = "cancel"]
       ELSE /\ stopper' = [stopper EXCEPT ![k] = "close"]
            /\ UNCHANGED <<closing, mine, task>>
    /\ UNCHANGED <<main, group, starter, ready, services, tasks, failed, stop, ctx, executor, loop_stop, struck, status>>

\* Fault: the cancelled start() tasks are not awaited.
TasksOverAtOnce(k) == TRUE

TasksOver(k) == \A s \in mine[k] : task[s] \in Over

\* They are joined.  stop_services( *self._services ) calls PRE_STOP, unless the
\* coroutine was cancelled meanwhile.
TasksJoined(k) ==
    /\ Running /\ stopper[k] = "cancel" /\ TasksOver(k)
    /\ stopper' = [stopper EXCEPT ![k] = IF failed[k] = "no" THEN "pre" ELSE "close"]
    /\ mine' = [mine EXCEPT ![k] = services]
    /\ UNCHANGED <<main, startVars, closing, handlers, failed, stop, ctx, executor, loop_stop, struck, status>>

\* The background task calls stop_services().
StopDynamic ==
    /\ Running /\ stopper["dynamic"] = "idle" /\ group["dynamic"] = "ok"
    /\ stopper' = [stopper EXCEPT !["dynamic"] = "pre"]
    /\ mine' = [mine EXCEPT !["dynamic"] = Dynamic]
    /\ UNCHANGED <<main, startVars, closing, handlers, failed, stop, ctx, executor, loop_stop, struck, status>>

CallStops(k) ==
    /\ Running /\ stopper[k] = "pre"
    /\ stop' = [stop EXCEPT ![k] = [s \in Services |-> IF s \in mine[k] THEN "running" ELSE "none"]]
    /\ stopper' = [stopper EXCEPT ![k] = IF mine[k] = {} THEN "post" ELSE "stopping"]
    /\ UNCHANGED <<main, startVars, closing, handlers, mine, failed, ctx, executor, loop_stop, struck, status>>

(***************************************************************************)
(* A service's stop(): it may return or raise, and ends once cancelled.    *)
(***************************************************************************)
StopBecomes(k, s, from, to) ==
    /\ Running /\ stop[k][s] = from
    /\ stop' = [stop EXCEPT ![k][s] = to]
    /\ UNCHANGED <<main, startVars, closing, handlers, stopper, mine, failed, ctx, executor, loop_stop, struck, status>>

StopReturns(k, s) == StopBecomes(k, s, "running", "returned")
StopFails(k, s) == s \in StopRaises /\ StopBecomes(k, s, "running", "raised")
StopGivesUp(k, s) == StopBecomes(k, s, "cancelling", "cancelled")

\* Fault: the first stop() that returns is enough.
AllStoppedOne(k) == \E s \in mine[k] : stop[k][s] = "returned"

AllStopped(k) == \A s \in mine[k] : stop[k][s] = "returned"

\* gather() returns, or raises with the first stop() that does; what is left is
\* cancelled in any case.
StopsGathered(k) ==
    /\ Running /\ stopper[k] = "stopping"
    /\ \/ AllStopped(k) /\ UNCHANGED failed
       \/ /\ \E s \in mine[k] : stop[k][s] \in {"raised", "cancelled"}
          /\ failed' = [failed EXCEPT ![k] = IF @ = "no" THEN "raised" ELSE @]
    /\ stop' = [stop EXCEPT ![k] = Cancel(@, mine[k])]
    /\ stopper' = [stopper EXCEPT ![k] = "join"]
    /\ UNCHANGED <<main, startVars, closing, handlers, mine, ctx, executor, loop_stop, struck, status>>

\* Fault: the cancelled stop() tasks are not awaited.
StopsOverAtOnce(k) == TRUE

StopsOver(k) == \A s \in mine[k] : stop[k][s] \in Over

\* POST_STOP is called.
StopsJoined(k) ==
    /\ Running /\ stopper[k] = "join" /\ StopsOver(k)
    /\ services' = services \ mine[k]
    /\ stopper' = [stopper EXCEPT ![k] = "post"]
    /\ UNCHANGED <<main, group, starter, task, ready, tasks, closing, handlers, mine, failed, stop, ctx, executor, loop_stop, struck, status>>

\* Where a coroutine goes from stop_services().
Left(k) == IF k = "dynamic" THEN "done" ELSE "close"

\* It was cancelled as it joined them: the services are kept, and POST_STOP is left out.
StopsAborted(k) ==
    /\ Running /\ stopper[k] = "abort" /\ StopsOver(k)
    /\ stopper' = [stopper EXCEPT ![k] = Left(k)]
    /\ UNCHANGED <<main, startVars, closing, handlers, mine, failed, stop, ctx, executor, loop_stop, struck, status>>

HasBackground(k) == k # "dynamic" /\ Owner /\ failed[k] = "no"

\* stop_services() ends, and graceful_shutdown() too if it fails or does not own the loop.
AfterStops(k) ==
    /\ Running /\ stopper[k] = "post" /\ ~HasBackground(k)
    /\ stopper' = [stopper EXCEPT ![k] = Left(k)]
    /\ UNCHANGED <<main, startVars, closing, handlers, mine, failed, stop, ctx, executor, loop_stop, struck, status>>

\* What task.cancel() does to a stopping coroutine.  The stop() calls it waits for are
\* cancelled with it; a coroutine that waits for cancelled tasks goes on waiting; from
\* anywhere else the exception leaves stop_services().
StopperAfterCancel(k) ==
    CASE stopper[k] \in {"idle", "done", "cancel", "abort", "gone"} -> stopper[k]
      [] stopper[k] \in {"run", "finish"} -> "done"
      [] stopper[k] = "stopping" -> "join"
      [] stopper[k] = "join" -> "abort"
      [] OTHER -> Left(k)

\* A coroutine that was cancelled and is over: a signal's done callback stops the loop
\* with SystemExit(70).
GivesUp(K) == {i \in K \cap Interrupts : stopper[i] \in {"run", "finish"}}

CancelStoppers(K, others) ==
    /\ stopper' = [k \in Stoppers |-> IF k \in K THEN StopperAfterCancel(k) ELSE others[k]]
    /\ stop' = [k \in Stoppers |->
            IF k \in K /\ stopper[k] = "stopping" THEN Cancel(stop[k], mine[k]) ELSE stop[k]]
    /\ failed' = [k \in Stoppers |->
            IF k \in K /\ stopper[k] \notin {"idle", "done"} THEN "cancelled" ELSE failed[k]]
    /\ status' = IF GivesUp(K) # {} THEN 70 ELSE status

\* The shutdown timeout of a signal strikes: the timer is set after the task, and fires
\* after the task's first step.
Timeout(i) ==
    /\ Running /\ stopper[i] \notin {"idle", "run", "done"} /\ i \notin struck
    /\ struck' = struck \cup {i}
    /\ CancelStoppers({i}, stopper)
    /\ loop_stop' = (loop_stop \/ GivesUp({i}) # {})
    /\ UNCHANGED <<main, startVars, closing, handlers, mine, ctx, executor>>

(***************************************************************************)
(* _cancel_background_tasks(): every other task of the loop is cancelled.  *)
(* With main() cancelled the body ends.                                    *)
(***************************************************************************)
CancelBackground(k) ==
    /\ Running /\ stopper[k] = "post" /\ HasBackground(k)
    /\ LET others == Stoppers \ {k}
       IN  /\ CancelStoppers(others, [stopper EXCEPT ![k] = "gone"])
           /\ loop_stop' = (loop_stop \/ GivesUp(others) # {} \/ (main = "body" /\ BodyTask))
    /\ task' = Cancel(task, Services)
    /\ starter' = Hit(Services)
    /\ group' = [group EXCEPT !["dynamic"] = IF @ \in {"idle", "ok"} THEN "failed" ELSE GroupAfterCancel("dynamic")]
    /\ UNCHANGED <<main, ready, services, tasks, closing, handlers, mine, ctx, executor, struck>>

Settled == {"none", "ok", "failed"}

\* They are joined.  The executor is shut down, unless the coroutine was cancelled.
BackgroundJoined(k) ==
    /\ Running /\ stopper[k] = "gone"
    /\ ~(main = "body" /\ BodyTask)
    /\ \A s \in Services : task[s] \in Over \cup {"none"} /\ starter[s] \in Settled
    /\ group["dynamic"] \in {"idle", "ok", "failed"}
    /\ \A j \in Stoppers \ {k} : failed[j] = "cancelled" => stopper[j] = "done"
    /\ stopper' = [stopper EXCEPT ![k] = IF failed[k] = "no" THEN "executor" ELSE "close"]
    /\ executor' = IF failed[k] = "no" THEN "down" ELSE executor
    /\ UNCHANGED <<main, startVars, closing, handlers, mine, failed, stop, ctx, loop_stop, struck, status>>

ExecutorDown(k) ==
    /\ Running /\ stopper[k] = "executor"
    /\ stopper' = [stopper EXCEPT ![k] = "close"]
    /\ UNCHANGED <<main, startVars, closing, handlers, mine, failed, stop, ctx, executor, loop_stop, struck, status>>

\* The `finally` of _stop(): the context is closed, and the entrypoint's own executor
\* shut down.
Close(k) ==
    /\ Running /\ stopper[k] = "close"
    /\ ctx' = "closed"
    /\ executor' = IF Owner THEN "down" ELSE executor
    /\ stopper' = [stopper EXCEPT ![k] = "finish"]
    /\ UNCHANGED <<main, startVars, closing, handlers, mine, failed, stop, loop_stop, struck, status>>

\* Fault: the loop is stopped only by a shutdown that fails.
StopsLoopFailed(k) == k \in Interrupts /\ failed[k] # "no"

StopsLoop(k) == k \in Interrupts

\* _stop() is over: on_shutdown_finish() stops the loop, and exits when it was cancelled.
Finish(k) ==
    /\ Running /\ stopper[k] = "finish"
    /\ stopper' = [stopper EXCEPT ![k] = "done"]
    /\ loop_stop' = (loop_stop \/ StopsLoop(k))
    /\ status' = IF k \in Interrupts /\ failed[k] = "cancelled" THEN 70 ELSE status
    /\ UNCHANGED <<main, startVars, closing, handlers, mine, failed, stop, ctx, executor, struck>>

Starting ==
    \/ \E g \in Groups :
        \/ StartGroup(g) \/ CreateStarters(g) \/ GatherDone(g) \/ GatherFails(g)
        \/ GroupJoined(g) \/ GroupEnds(g) \/ CancelStart(g)
    \/ \E s \in Services :
        \/ Begin(s) \/ Wake(s) \/ Settle(s) \/ Cleanup(s) \/ CleanedUp(s)
        \/ SetReady(s) \/ StartReturns(s) \/ StartFails(s) \/ StartGivesUp(s)

Stopping ==
    \/ \E i \in Interrupts : Interrupt(i) \/ Timeout(i)
    \/ \E k \in Stoppers :
        \/ Shut(k) \/ TasksJoined(k) \/ CallStops(k) \/ StopsGathered(k) \/ StopsJoined(k)
        \/ StopsAborted(k) \/ AfterStops(k) \/ CancelBackground(k) \/ BackgroundJoined(k) \/ ExecutorDown(k)
        \/ Close(k) \/ Finish(k)
        \/ \E s \in Services : StopReturns(k, s) \/ StopFails(k, s) \/ StopGivesUp(k, s)
    \/ StopDynamic

Next == Starting \/ Stopping \/ Entered \/ EnterFails \/ ExitBody \/ CloseLoop

Spec == Init /\ [][Next]_vars

(***************************************************************************)
(* The loop goes on with every coroutine that can, a cancelled start() or  *)
(* stop() ends, and the timer of a signal strikes.  Nothing makes a        *)
(* start() or a stop() end that is not cancelled.                          *)
(***************************************************************************)
Fairness ==
    /\ WF_vars(Entered) /\ WF_vars(ExitBody) /\ WF_vars(CloseLoop)
    /\ \A g \in Groups :
        WF_vars(CreateStarters(g) \/ GatherDone(g) \/ GatherFails(g) \/ GroupJoined(g) \/ GroupEnds(g))
    /\ \A s \in Services :
        WF_vars(Begin(s) \/ Wake(s) \/ Settle(s) \/ Cleanup(s) \/ CleanedUp(s) \/ StartGivesUp(s))
    /\ \A k \in Stoppers :
        /\ WF_vars(\/ Shut(k) \/ TasksJoined(k) \/ CallStops(k) \/ StopsGathered(k) \/ StopsJoined(k)
                   \/ StopsAborted(k) \/ AfterStops(k) \/ CancelBackground(k) \/ BackgroundJoined(k) \/ ExecutorDown(k)
                   \/ Close(k) \/ Finish(k))
        /\ \A s \in Services : WF_vars(StopGivesUp(k, s))
    /\ \A i \in Interrupts : WF_vars(Timeout(i))

FairSpec == Spec /\ Fairness
-----------------------------------------------------------------------------
TypeOK ==
    /\ main \in {"start", "failed", "body", "exit", "closed"}
    /\ group \in [Groups -> {"idle", "pre", "gather", "joining", "post", "undo", "ok", "failed"}]
    /\ starter \in [Services -> {"none", "new", "wait", "event", "hit", "cleanup", "ok", "failed"}]
    /\ task \in [Services -> {"none", "running", "cancelling"} \cup Over]
    /\ \A s \in Services : starter[s] \in {"wait", "event", "hit", "cleanup", "ok"} => task[s] # "none"
    /\ ready \in [Services -> BOOLEAN]
    /\ tasks \subseteq Services /\ services \subseteq Services
    /\ closing \in Stoppers \cup {None} /\ handlers \in BOOLEAN
    /\ stopper \in [Stoppers -> {"idle", "run", "cancel", "pre", "stopping", "join", "abort",
                                  "post", "gone", "executor", "close", "finish", "done"}]
    /\ mine \in [Stoppers -> SUBSET Services]
    /\ failed \in [Stoppers -> {"no", "raised", "cancelled"}]
    /\ stop \in [Stoppers -> [Services -> {"none", "running", "cancelling"} \cup Over]]
    /\ ctx \in {"open", "closed"} /\ executor \in {"up", "down"}
    /\ loop_stop \in BOOLEAN /\ struck \subseteq Interrupts /\ status \in {0, 70}

\* "pending starts from the same group and their readiness waiters are cancelled and
\* joined ... POST_START runs after this cleanup": when POST_START is called, a start()
\* of the group that is not over belongs to a service that is ready, and is known
\* to the shutdown.
JoinedBeforePostStart ==
    [][\A g \in Groups : group[g] \notin {"post", "undo"} /\ group'[g] \in {"post", "undo"} =>
        \A s \in Group(g) : task[s] \in {"running", "cancelling"} => ready[s] /\ s \in tasks]_vars

\* "During graceful shutdown, long-lived start() tasks are cancelled before the
\* services' stop() methods are called", for the services given to the entrypoint.
StartsCancelledFirst ==
    [][\A k \in Stoppers \ {"dynamic"}, s \in Initial :
        stop[k][s] = "none" /\ stop'[k][s] = "running" => task[s] \in Over]_vars

\* __aexit__() and the _stop() of each signal run side by side, and yet at most one of
\* them calls the stop() of a service: the test of _closing under _shutdown_lock.
StopOnce ==
    \A s \in Services : \A j, k \in Stoppers \ {"dynamic"} :
        stop[j][s] # "none" /\ stop[k][s] # "none" => j = k

\* "After exiting the entrypoint service instances will be gracefully shut down":
\* unless the shutdown timeout has struck or some stop() has raised, which cancels the
\* others, each stop() returned before the loop was closed.
GracefulStop ==
    /\ main = "closed" /\ struck = {} /\ group["initial"] = "ok"
    /\ \A k \in Stoppers, s \in Services : stop[k][s] # "raised"
    => \A s \in Initial : \E k \in Stoppers : stop[k][s] = "returned"

\* A stop() can use the context and the executor ("Finish executor work before
\* closing its loop"): they are there until the last stop() of the shutdown is over.
ResourcesOutliveStops ==
    (\E k \in Stoppers \ {"dynamic"}, s \in Services : stop[k][s] \in {"running", "cancelling"}) =>
        ctx = "open" /\ executor = "up"

\* AIOMISC_SHUTDOWN_TIMEOUT: "If, after receiving the signal, the program does not
\* terminate within this timeout, a force-exit occurs", and not otherwise.
ForceExitAfterTimeout == status = 70 => struck # {}

\* A failed start() makes start_services() raise, even if the other services would
\* start forever.
StartFailureEnds ==
    \A g \in Groups :
        (group[g] = "gather" /\ \E s \in Group(g) : starter[s] = "failed")
            ~> (group[g] = "failed" \/ main = "closed")

\* A signal ends the program, even if a stop() never returns by itself.
InterruptEnds == \A i \in Interrupts : stopper[i] = "run" ~> main = "closed"
=============================================================================
