----------------------------- MODULE Transport -----------------------------
(***************************************************************************)
(* aiomisc/service/raven.py: QueuedAioHttpTransport sends events through a *)
(* bounded queue and its workers; a full queue drops its oldest event.     *)
(* AioHttpTransport sends each event in a task of its own.                 *)
(*                                                                         *)
(* async_send() is called by any thread; what it schedules runs in the     *)
(* event loop in the order of the calls.                                   *)
(***************************************************************************)
EXTENDS Naturals, Sequences, FiniteSets

CONSTANTS
    Events,         \* events, each sent once, by a thread of its own
    Workers,        \* the workers
    QSize,          \* qsize
    Pill, Idle      \* `...' in the queue; a worker that has no event

VARIABLES
    queued,         \* the transport has a queue
    event,          \* "new", "checked", "ready", "queued", "sending", "ok", "failed" or "lost"
    ready,          \* the callbacks of the event loop: events, and the close task as Pill
    queue,          \* self._queue
    worker,         \* what a worker sends: an event, Idle, or "done"
    closing,        \* self._closing
    closer,         \* close(): "open", "task", "gather", "closed" or "broken"
    gathered,       \* the events whose tasks close() waits for, without a queue
    late            \* history: an event was scheduled after close() was called

vars == <<queued, event, ready, queue, worker, closing, closer, gathered, late>>

TypeOK ==
    /\ event \in [Events -> {"new", "checked", "ready", "queued", "sending", "ok", "failed", "lost"}]
    /\ {ready, queue} \subseteq Seq(Events \cup {Pill})
    /\ worker \in [Workers -> Events \cup {Idle, "done"}]
    /\ gathered \subseteq Events
    /\ {queued, closing, late} \subseteq BOOLEAN /\ closer \in {"open", "task", "gather", "closed", "broken"}

Init ==
    /\ queued \in BOOLEAN
    /\ event = [e \in Events |-> "new"]
    /\ ready = <<>> /\ queue = <<>>
    /\ worker = [w \in Workers |-> Idle]
    /\ closing = FALSE /\ closer = "open" /\ gathered = {} /\ late = FALSE

\* async_send(): a closed transport fails the event.
AsyncSend(e) ==
    /\ event[e] = "new"
    /\ event' = [event EXCEPT ![e] = IF closing THEN "failed" ELSE "checked"]
    /\ UNCHANGED <<queued, ready, queue, worker, closing, closer, gathered, late>>

\* call_soon_threadsafe(): close() may have been called since the check.
Schedule(e) ==
    /\ event[e] = "checked"
    /\ event' = [event EXCEPT ![e] = "ready"]
    /\ ready' = Append(ready, e)
    /\ late' = (late \/ closing)
    /\ UNCHANGED <<queued, queue, worker, closing, closer, gathered>>

\* Fault: the dropped event gets no errorback.
DropOldestSilently(x) ==
    /\ queue' = Append(Tail(queue), x)
    /\ event' = [e \in Events |->
          IF e = queue[1] THEN "lost" ELSE IF e = x THEN "queued" ELSE event[e]]

\* QueueFull: errorback of the oldest entry.
DropOldest(x) ==
    /\ queue' = Append(Tail(queue), x)
    /\ event' = [e \in Events |->
          IF e = queue[1] THEN "failed" ELSE IF e = x THEN "queued" ELSE event[e]]

\* _async_send() of the next event; an entry that is the end mark of close() cannot be
\* unpacked: the mark and the event are gone.
Enqueue ==
    /\ queued
    /\ ready # <<>> /\ ready[1] # Pill
    /\ ready' = Tail(ready)
    /\ \/ /\ Len(queue) < QSize
          /\ queue' = Append(queue, ready[1])
          /\ event' = [event EXCEPT ![ready[1]] = "queued"]
       \/ /\ Len(queue) >= QSize /\ queue[1] # Pill
          /\ DropOldest(ready[1])
       \/ /\ Len(queue) >= QSize /\ queue[1] = Pill
          /\ queue' = Tail(queue)
          /\ event' = [event EXCEPT ![ready[1]] = "lost"]
    /\ UNCHANGED <<queued, worker, closing, closer, gathered, late>>

\* close(): once, and a task for _close_coro().
CloseCall ==
    /\ ~closing
    /\ closing' = TRUE /\ closer' = "task"
    /\ ready' = Append(ready, Pill)
    /\ UNCHANGED <<queued, event, queue, worker, gathered, late>>

\* _close(): the end mark goes into the queue.
ClosePut ==
    /\ queued
    /\ ready # <<>> /\ ready[1] = Pill
    /\ ready' = Tail(ready)
    /\ closer' = "gather"
    /\ IF Len(queue) < QSize THEN queue' = Append(queue, Pill) /\ UNCHANGED event
       ELSE DropOldest(Pill)
    /\ UNCHANGED <<queued, worker, closing, gathered, late>>

\* Fault: the worker that has taken the end mark does not put it back.
PillTaken == Tail(queue)

PillPutBack == Append(Tail(queue), Pill)

\* _worker(): the next event, or the end mark, which is put back for the others.
Take(w) ==
    /\ worker[w] = Idle /\ queue # <<>>
    /\ IF queue[1] = Pill
       THEN /\ worker' = [worker EXCEPT ![w] = "done"]
            /\ queue' = PillPutBack
            /\ UNCHANGED event
       ELSE /\ worker' = [worker EXCEPT ![w] = queue[1]]
            /\ queue' = Tail(queue)
            /\ event' = [event EXCEPT ![queue[1]] = "sending"]
    /\ UNCHANGED <<queued, ready, closing, closer, gathered, late>>

\* _do_send(): callback for 200, errorback for any other answer or exception.
DoSend(w) ==
    /\ worker[w] \in Events
    /\ \E end \in {"ok", "failed"} : event' = [event EXCEPT ![worker[w]] = end]
    /\ worker' = [worker EXCEPT ![w] = Idle]
    /\ UNCHANGED <<queued, ready, queue, closing, closer, gathered, late>>

\* _close() after gather(): nothing but the end mark may be left in the queue.
CloseReturns ==
    /\ queued
    /\ closer = "gather" /\ \A w \in Workers : worker[w] = "done"
    /\ closer' = IF queue = <<Pill>> THEN "closed" ELSE "broken"
    /\ UNCHANGED <<queued, event, ready, queue, worker, closing, gathered, late>>

-----------------------------------------------------------------------------
(* AioHttpTransport: no queue and no worker. *)

\* self._tasks: the tasks that are not done.
Tasks == {e \in Events : event[e] = "sending"}

\* _async_send(): a task for the event.
CreateTask ==
    /\ ~queued
    /\ ready # <<>> /\ ready[1] # Pill
    /\ ready' = Tail(ready)
    /\ event' = [event EXCEPT ![ready[1]] = "sending"]
    /\ UNCHANGED <<queued, queue, worker, closing, closer, gathered, late>>

\* _do_send() of the task.
TaskSends(e) ==
    /\ ~queued /\ e \in Tasks
    /\ \E end \in {"ok", "failed"} : event' = [event EXCEPT ![e] = end]
    /\ UNCHANGED <<queued, ready, queue, worker, closing, closer, gathered, late>>

\* _close(): gather() of the tasks there are.
GatherTasks ==
    /\ ~queued
    /\ ready # <<>> /\ ready[1] = Pill
    /\ ready' = Tail(ready)
    /\ closer' = "gather" /\ gathered' = Tasks
    /\ UNCHANGED <<queued, event, queue, worker, closing, late>>

\* _close() after gather(): "assert len(self._tasks) == 0".
TasksGathered ==
    /\ ~queued
    /\ closer = "gather" /\ gathered \cap Tasks = {}
    /\ closer' = IF Tasks = {} THEN "closed" ELSE "broken"
    /\ UNCHANGED <<queued, event, ready, queue, worker, closing, gathered, late>>

-----------------------------------------------------------------------------
Callback == Enqueue \/ ClosePut \/ CreateTask \/ GatherTasks

Loop ==
    \/ Callback \/ CloseReturns \/ TasksGathered
    \/ \E w \in Workers : Take(w) \/ DoSend(w)
    \/ \E e \in Events : TaskSends(e)

Next == Loop \/ CloseCall \/ \E e \in Events : AsyncSend(e) \/ Schedule(e)

Spec == Init /\ [][Next]_vars

\* The event was scheduled before close() has put its end mark.
InTime(e) == \E i \in 1..Len(ready) : ready[i] = e /\ \A j \in 1..i : ready[j] # Pill

\* An event that was scheduled before the transport was closed gets its callback or its
\* errorback: no way through the queue, or a task, drops it silently (raven.py:216-233, 266-303).
EventsAreAnswered ==
    \A e \in Events : InTime(e) /\ closer \in {"open", "task"} ~> event[e] \in {"ok", "failed"}

\* close() ends, and ends well, unless an event was scheduled after close() was
\* called, by a thread that had seen it open (raven.py:180-184, 230-233, 307-312).
CloseEndsWell == closer = "task" ~> closer = "closed" \/ late
=============================================================================
