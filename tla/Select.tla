------------------------------- MODULE Select -------------------------------
(***************************************************************************)
(* aiomisc/utils.py: select() awaits the first of several awaitables, and  *)
(* cancels the others through cancel_tasks() and set_exception().          *)
(***************************************************************************)
EXTENDS Naturals

CONSTANTS
    Awaitables,     \* the awaitables, each run by a task of its own
    Nobody          \* SelectResult.result_idx before there is a result

VARIABLES
    cancel, wait, return_exceptions, timeout,   \* the options of this select()
    task,           \* the tasks: "run", "cancelling", "returned", "raised" or "cancelled"
    result_idx,     \* self._result: which awaitable gave the value
    is_exception,
    stage           \* where SelectAwaitable.__run is

vars == <<cancel, wait, return_exceptions, timeout, task, result_idx, is_exception, stage>>

Config == <<cancel, wait, return_exceptions, timeout>>

TypeOK ==
    /\ {cancel, wait, return_exceptions, timeout, is_exception} \subseteq BOOLEAN
    /\ task \in [Awaitables -> {"run", "cancelling", "returned", "raised", "cancelled"}]
    /\ result_idx \in Awaitables \cup {Nobody}
    /\ stage \in {"wait", "cancelling", "unwinding", "returned", "raised", "cancelled"}

\* __init__() and __await__().
Init ==
    /\ cancel \in BOOLEAN /\ wait \in BOOLEAN
    /\ return_exceptions \in BOOLEAN /\ timeout \in BOOLEAN
    /\ task = [a \in Awaitables |-> "run"]
    /\ result_idx = Nobody /\ is_exception = FALSE
    /\ stage = "wait"

\* pending_futures()
PendingFutures(tasks) == {a \in Awaitables : tasks[a] \in {"run", "cancelling"}}

\* set_exception(): every pending task is cancelled.
SetException(tasks) ==
    [a \in Awaitables |-> IF a \in PendingFutures(tasks) THEN "cancelling" ELSE tasks[a]]

\* SelectResult.set_result(): the first result stays.
SetResult(a, failed) ==
    IF result_idx = Nobody THEN result_idx' = a /\ is_exception' = failed
    ELSE UNCHANGED <<result_idx, is_exception>>

\* __waiter(): the awaitable returns or raises, also after it was cancelled.
Waiter(a, end) ==
    /\ a \in PendingFutures(task)
    /\ task' = [task EXCEPT ![a] = end]
    /\ SetResult(a, end = "raised")
    /\ UNCHANGED <<Config, stage>>

\* __waiter(): CancelledError leaves no result.
WaiterCancelled(a) ==
    /\ a \in PendingFutures(task)
    /\ task' = [task EXCEPT ![a] = "cancelled"]
    /\ UNCHANGED <<Config, result_idx, is_exception, stage>>

\* SelectResult.result(): an exception is raised unless it is to be returned.
Result == IF is_exception /\ ~return_exceptions THEN "raised" ELSE "returned"

\* cancel_tasks() gives a future that is done when there is nothing to cancel.
CancelTasks == task' = SetException(task)

\* Fault: select() does not wait for the cancelled tasks.
CancelPendingNoWait ==
    IF cancel THEN CancelTasks /\ stage' = Result
    ELSE stage' = Result /\ UNCHANGED task

\* __run() after asyncio.wait().
CancelPending ==
    IF cancel /\ PendingFutures(task) # {}
    THEN CancelTasks /\ stage' = (IF wait THEN "cancelling" ELSE Result)
    ELSE stage' = Result /\ UNCHANGED task

\* asyncio.wait() returns with the first task that is done.
FirstCompleted ==
    /\ stage = "wait"
    /\ \E a \in Awaitables : a \notin PendingFutures(task)
    /\ CancelPending
    /\ UNCHANGED <<Config, result_idx, is_exception>>

\* asyncio.wait() returns at its timeout, without an exception.
Timeout ==
    /\ stage = "wait" /\ timeout
    /\ CancelPending
    /\ UNCHANGED <<Config, result_idx, is_exception>>

\* The cancelled tasks have ended.
Cancelled ==
    /\ stage = "cancelling" /\ PendingFutures(task) = {}
    /\ stage' = Result
    /\ UNCHANGED <<Config, task, result_idx, is_exception>>

\* The caller of select() is cancelled, once: `except CancelledError' cancels all tasks.
CancelCaller ==
    /\ stage \in {"wait", "cancelling"}
    /\ stage' = "unwinding"
    /\ CancelTasks
    /\ UNCHANGED <<Config, result_idx, is_exception>>

Unwound ==
    /\ stage = "unwinding" /\ PendingFutures(task) = {}
    /\ stage' = "cancelled"
    /\ UNCHANGED <<Config, task, result_idx, is_exception>>

Run == FirstCompleted \/ Timeout \/ Cancelled \/ Unwound

Next ==
    \/ Run \/ CancelCaller
    \/ \E a \in Awaitables :
          Waiter(a, "returned") \/ Waiter(a, "raised") \/ WaiterCancelled(a)

Spec == Init /\ [][Next]_vars

\* When select() is over it has left no task behind: not when it cancels and waits, and
\* not when its caller was cancelled, even with cancel=False (utils.py:258-272).
SelectLeavesNothing ==
    \/ stage = "cancelled"
    \/ stage \in {"returned", "raised"} /\ cancel /\ wait
    => PendingFutures(task) = {}
=============================================================================
