----------------------------- MODULE LoopParts -----------------------------
(***************************************************************************)
(* What is done again and again: recurring callbacks, a call with backoff  *)
(* and a process that is respawned, as parts of a larger specification.    *)
(***************************************************************************)
EXTENDS Naturals

CONSTANTS
    Callbacks, Rounds,                              \* Recurring
    Limits, Pauses, Tries, Unlimited, BackoffTime,  \* Backoff
    Children                                        \* Processes

VARIABLES
    r_kind, shielded, r_owner, rounds, phase, asked, work, orphans,
    options, clock, b_stage, b_timer, total_tries, last_exception, outcome, reason, attempts, done,
    respawning, child, process, forked, p_owner, supervisor, stopping, orphaned

Callback == INSTANCE Recurring WITH kind <- r_kind, owner <- r_owner
Execution == INSTANCE Backoff WITH MaxTime <- BackoffTime, stage <- b_stage, timer <- b_timer
Forking == INSTANCE Processes WITH owner <- p_owner

\* Limits and tries are numbers unless they are unlimited; children are numbered from 1.
ASSUME LoopAssumption ==
    /\ (Limits \cup Tries) \ {Unlimited} \subseteq Nat
    /\ Pauses \subseteq Nat /\ BackoffTime \in Nat
    /\ Children \subseteq Nat \ {0}

recurringVars == <<r_kind, shielded, r_owner, rounds, phase, asked, work, orphans>>
backoffVars == <<options, clock, b_stage, b_timer, total_tries, last_exception, outcome, reason,
                 attempts, done>>
processVars == <<respawning, child, process, forked, p_owner, supervisor, stopping, orphaned>>

\* Recurring: no call is under way once stop() has returned (recurring.py).
StopLeavesNothing == Callback!StopLeavesNothing

\* Recurring: a function is called again, however a call has ended (recurring.py).
Recurs == Callback!Recurs

\* Backoff: a call ends for a reason its caller can tell (backoff.py).
EndsForAReason == Execution!EndsForAReason

\* Processes: one child at a time, and none after stop(), unless one was cut short
\* (service/process.py).
OneChild == Forking!OneChild
=============================================================================
