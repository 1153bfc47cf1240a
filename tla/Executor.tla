------------------------------ MODULE Executor ------------------------------
(***************************************************************************)
(* What an executor promises the code that awaits its futures, without     *)
(* threads, queues or callbacks: a function runs at most once, after it    *)
(* was submitted; a future is resolved at most once, with the outcome of   *)
(* its own function, by its caller's cancellation, because the executor    *)
(* was shut down, or because its event loop was closed.                    *)
(***************************************************************************)
CONSTANTS Items, Loops, LoopOf

VARIABLES future, ran, shutdown_event, loop_closed

vars == <<future, ran, shutdown_event, loop_closed>>

Init ==
    /\ future = [i \in Items |-> "none"]
    /\ ran = [i \in Items |-> "none"]
    /\ shutdown_event = FALSE
    /\ loop_closed = [l \in Loops |-> FALSE]

Resolve(i, state) ==
    /\ future[i] = "pending"
    /\ future' = [future EXCEPT ![i] = state]
    /\ UNCHANGED <<ran, shutdown_event, loop_closed>>

Submit(i) ==
    /\ future[i] = "none"
    /\ ~shutdown_event
    /\ ~loop_closed[LoopOf[i]]
    /\ future' = [future EXCEPT ![i] = "pending"]
    /\ UNCHANGED <<ran, shutdown_event, loop_closed>>

Run(i, outcome) ==
    /\ future[i] # "none"
    /\ ran[i] = "none"
    /\ ran' = [ran EXCEPT ![i] = outcome]
    /\ UNCHANGED <<future, shutdown_event, loop_closed>>

Deliver(i) == ran[i] # "none" /\ ~loop_closed[LoopOf[i]] /\ Resolve(i, ran[i])

Cancel(i) == ~loop_closed[LoopOf[i]] /\ Resolve(i, "cancelled")

FailClosed(i) == shutdown_event /\ Resolve(i, "closed")

FailLoopClosed(i) == loop_closed[LoopOf[i]] /\ Resolve(i, "loopclosed")

ShutDown ==
    /\ ~shutdown_event
    /\ shutdown_event' = TRUE
    /\ UNCHANGED <<future, ran, loop_closed>>

CloseLoop(l) ==
    /\ ~loop_closed[l]
    /\ loop_closed' = [loop_closed EXCEPT ![l] = TRUE]
    /\ UNCHANGED <<future, ran, shutdown_event>>

Next ==
    \/ \E i \in Items :
          \/ Submit(i) \/ Deliver(i) \/ Cancel(i) \/ FailClosed(i) \/ FailLoopClosed(i)
          \/ \E outcome \in {"result", "error"} : Run(i, outcome)
    \/ \E l \in Loops : CloseLoop(l)
    \/ ShutDown

Spec == Init /\ [][Next]_vars
=============================================================================
