----------------------------- MODULE LogHandler -----------------------------
(***************************************************************************)
(* aiomisc/log.py: ThreadedHandler takes log records from any thread into  *)
(* a queue, and a thread of its own gives them to the target handler.      *)
(*                                                                         *)
(* logging.Handler.handle() holds the lock of the handler around emit();   *)
(* the thread holds the same lock while it empties the queue.              *)
(***************************************************************************)
EXTENDS Naturals, Sequences

CONSTANTS
    Records,        \* the records, each logged by a thread of its own
    Sizes,          \* values of queue_size (0: unlimited)
    Pill            \* None in the queue

VARIABLES
    buffered, queue_size,   \* arguments of the handler
    queue,          \* self._queue
    lock,           \* who holds the lock of the handler: "free", "thread" or a record
    logger,         \* the thread that logs a record: "idle", "emit", "taken", "refused"
    thread,         \* _in_thread(): "head", "acquire", "get" or "exit"
    closer,         \* close(): "open", "put", "deleted" or "closed"
    close_event,    \* self._close_event
    handled         \* history: the records in the order the target got them

vars == <<buffered, queue_size, queue, lock, logger, thread, closer, close_event, handled>>

Config == <<buffered, queue_size>>

TypeOK ==
    /\ buffered \in BOOLEAN /\ queue_size \in Sizes /\ close_event \in BOOLEAN
    /\ queue \in Seq(Records \cup {Pill}) /\ handled \in Seq(Records)
    /\ lock \in {"free", "thread"} \cup Records
    /\ logger \in [Records -> {"idle", "emit", "taken", "refused"}]
    /\ thread \in {"head", "acquire", "get", "exit"}
    /\ closer \in {"open", "put", "deleted", "closed"}

\* __init__() and start().
Init ==
    /\ buffered \in BOOLEAN /\ queue_size \in Sizes
    /\ queue = <<>> /\ lock = "free" /\ close_event = FALSE
    /\ logger = [r \in Records |-> "idle"]
    /\ thread = "head" /\ closer = "open"
    /\ handled = <<>>

Full == queue_size > 0 /\ Len(queue) >= queue_size

\* logging.Handler.handle() enters the lock.
Handle(r) ==
    /\ logger[r] = "idle" /\ lock = "free"
    /\ lock' = r
    /\ logger' = [logger EXCEPT ![r] = "emit"]
    /\ UNCHANGED <<Config, queue, thread, closer, close_event, handled>>

Leave(r, state) ==
    /\ lock' = "free"
    /\ logger' = [logger EXCEPT ![r] = state]
    /\ UNCHANGED <<Config, thread, closer, close_event, handled>>

\* Fault: the oldest record of a full queue makes room.
EmitDroppingOldest(r) ==
    /\ logger[r] = "emit" /\ closer \in {"open", "put"}
    /\ queue' = Append(IF Full THEN Tail(queue) ELSE queue, r)
    /\ Leave(r, "taken")

\* emit() with room in the queue; an unbuffered handler waits for it, with the lock.
Emit(r) ==
    /\ logger[r] = "emit" /\ closer \in {"open", "put"}
    /\ ~Full
    /\ queue' = Append(queue, r)
    /\ Leave(r, "taken")

\* queue.Full of a buffered handler, or no queue any more after close().
EmitRaises(r) ==
    /\ logger[r] = "emit"
    /\ closer \in {"deleted", "closed"} \/ (buffered /\ Full)
    /\ Leave(r, "refused")
    /\ UNCHANGED queue

\* The head of the loop, and the wait for the flush event or the flush interval.
LoopHead ==
    /\ thread = "head"
    /\ thread' = IF close_event THEN "exit" ELSE "acquire"
    /\ UNCHANGED <<Config, queue, lock, logger, closer, close_event, handled>>

Acquire ==
    /\ thread = "acquire" /\ lock = "free"
    /\ lock' = "thread" /\ thread' = "get"
    /\ UNCHANGED <<Config, queue, logger, closer, close_event, handled>>

\* A record goes to the target, whose exceptions are suppressed; None ends the thread.
Get ==
    /\ thread = "get" /\ queue # <<>>
    /\ queue' = Tail(queue)
    /\ IF queue[1] = Pill
       THEN thread' = "exit" /\ lock' = "free" /\ UNCHANGED handled
       ELSE handled' = Append(handled, queue[1]) /\ UNCHANGED <<thread, lock>>
    /\ UNCHANGED <<Config, logger, closer, close_event>>

\* queue.Empty after the flush interval.
Empty ==
    /\ thread = "get" /\ queue = <<>>
    /\ thread' = "head" /\ lock' = "free"
    /\ UNCHANGED <<Config, queue, logger, closer, close_event, handled>>

\* close(): None is put, the queue is deleted, the events are set.
ClosePut ==
    /\ closer = "open" /\ ~Full
    /\ queue' = Append(queue, Pill) /\ closer' = "put"
    /\ UNCHANGED <<Config, lock, logger, thread, close_event, handled>>

CloseDelete ==
    /\ closer = "put" /\ closer' = "deleted"
    /\ UNCHANGED <<Config, queue, lock, logger, thread, close_event, handled>>

CloseSet ==
    /\ closer = "deleted"
    /\ closer' = "closed" /\ close_event' = TRUE
    /\ UNCHANGED <<Config, queue, lock, logger, thread, handled>>

InThread == LoopHead \/ Acquire \/ Get \/ Empty

Next ==
    \/ InThread
    \/ ClosePut \/ CloseDelete \/ CloseSet
    \/ \E r \in Records : Handle(r) \/ Emit(r) \/ EmitRaises(r)

Spec == Init /\ [][Next]_vars

\* A call of the logger ends, and a record it has left with an open handler reaches the
\* target; not so for an unbuffered handler with a bounded queue, whose emit() waits for
\* room with the lock that the thread needs (log.py:61, 69).
RecordsAreHandled ==
    \A r \in Records :
        (buffered \/ queue_size = 0) /\ logger[r] = "emit" ~>
            \/ logger[r] = "refused"
            \/ closer # "open"
            \/ \E i \in 1..Len(handled) : handled[i] = r
=============================================================================
