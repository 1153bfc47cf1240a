----------------------------- MODULE Recurring -----------------------------
(***************************************************************************)
(* aiomisc/recurring.py, periodic.py, cron.py and the services over them:  *)
(* a function is called again and again by a task of the event loop, until *)
(* its service is stopped.                                                 *)
(*                                                                         *)
(* One service (a CronService, several PeriodicServices stopped together,  *)
(* or code that uses RecurringCallback itself) owns the callbacks.  It     *)
(* awaits the stop before it starts again, as the services do.             *)
(***************************************************************************)
EXTENDS Naturals

CONSTANTS
    Callbacks,      \* the callbacks that the service starts and stops together
    Rounds          \* bound on the starts of the service

VARIABLES
    kind,           \* "periodic", "cron" or "recurring" (a strategy of the user)
    shielded,       \* start(shield=...)
    owner,          \* "stopped", "started" or "stopping"
    rounds,         \* how often the service was started
    phase,          \* where RecurringCallback._start of a callback is
    asked,          \* task.cancel() was called and is not delivered yet
    work,           \* the task that runs _exec: "idle", "run", "cancelling" or "ended"
    orphans         \* shielded executions that no task waits for

vars == <<kind, shielded, owner, rounds, phase, asked, work, orphans>>

Phases == {"none", "strategy", "skip", "sleep", "call", "gather", "done"}

TypeOK ==
    /\ kind \in {"periodic", "cron", "recurring"} /\ shielded \in BOOLEAN
    /\ owner \in {"stopped", "started", "stopping"} /\ rounds \in 0..Rounds
    /\ phase \in [Callbacks -> Phases] /\ asked \in [Callbacks -> BOOLEAN]
    /\ work \in [Callbacks -> {"idle", "run", "cancelling", "ended"}]
    /\ orphans \in [Callbacks -> 0..Rounds]

Init ==
    /\ kind \in {"periodic", "cron", "recurring"} /\ shielded \in BOOLEAN
    /\ owner = "stopped" /\ rounds = 0
    /\ phase = [c \in Callbacks |-> "none"]
    /\ asked = [c \in Callbacks |-> FALSE]
    /\ work = [c \in Callbacks |-> "idle"]
    /\ orphans = [c \in Callbacks |-> 0]

Config == <<kind, shielded>>

\* RecurringCallback.start() of every callback: a new task in its first step.
Launch ==
    /\ owner = "stopped" /\ rounds < Rounds
    /\ owner' = "started" /\ rounds' = rounds + 1
    /\ phase' = [c \in Callbacks |-> "strategy"]
    /\ UNCHANGED <<Config, asked, work, orphans>>

\* PeriodicCallback.start() refuses a callback whose task is not done.
PeriodicStart ==
    /\ kind = "periodic"
    /\ \A c \in Callbacks : phase[c] \in {"none", "done"}
    /\ Launch

CronStart ==
    /\ kind = "cron"
    /\ \A c \in Callbacks : phase[c] \in {"none", "done"}
    /\ Launch

RecurringStart == kind = "recurring" /\ Launch

\* task.cancel() for the tasks that are not done.
CancelTasks ==
    /\ owner = "started"
    /\ owner' = "stopping"
    /\ asked' = [c \in Callbacks |-> phase[c] # "done"]
    /\ UNCHANGED <<Config, rounds, phase, work, orphans>>

\* PeriodicCallback.stop(), awaited by PeriodicService.stop().
PeriodicStop == kind = "periodic" /\ CancelTasks

\* CronCallback.stop(), awaited by CronService.stop() for every callback.
CronStop == kind = "cron" /\ CancelTasks

RecurringStop == kind = "recurring" /\ CancelTasks

\* gather() of the stopped tasks is done, and stop() returns.
StopReturns ==
    /\ owner = "stopping"
    /\ \A c \in Callbacks : phase[c] = "done"
    /\ owner' = "stopped"
    /\ UNCHANGED <<Config, rounds, phase, asked, work, orphans>>

\* PeriodicCallback and CronCallback always return a delay; the strategy of a user
\* may also raise StrategySkip or StrategyStop.
Answers == IF kind = "recurring" THEN {"sleep", "skip", "done"} ELSE {"sleep"}

Strategy(c) ==
    /\ phase[c] = "strategy" /\ ~asked[c]
    /\ \E answer \in Answers : phase' = [phase EXCEPT ![c] = answer]
    /\ UNCHANGED <<Config, owner, rounds, asked, work, orphans>>

\* StrategySkip: the pause is over and the strategy is asked again.
Skip(c) ==
    /\ phase[c] = "skip" /\ ~asked[c]
    /\ phase' = [phase EXCEPT ![c] = "strategy"]
    /\ UNCHANGED <<Config, owner, rounds, asked, work, orphans>>

\* The delay is over: a task for _exec is created and awaited.
Call(c) ==
    /\ phase[c] = "sleep" /\ ~asked[c]
    /\ phase' = [phase EXCEPT ![c] = "call"]
    /\ work' = [work EXCEPT ![c] = "run"]
    /\ UNCHANGED <<Config, owner, rounds, asked, orphans>>

\* _exec(): the function returns, raises, or ends because it was cancelled.
Exec(c) ==
    /\ UNCHANGED <<Config, owner, rounds, phase, asked>>
    /\ \/ /\ work[c] \in {"run", "cancelling"}
          /\ work' = [work EXCEPT ![c] = "ended"]
          /\ UNCHANGED orphans
       \/ /\ orphans[c] > 0
          /\ orphans' = [orphans EXCEPT ![c] = @ - 1]
          /\ UNCHANGED work

\* Fault: an exception of the function ends the task.
AgainUnlessFailed(c) ==
    /\ phase[c] = "call" /\ work[c] = "ended" /\ ~asked[c]
    /\ phase' \in {[phase EXCEPT ![c] = p] : p \in {"strategy", "done"}}
    /\ work' = [work EXCEPT ![c] = "idle"]
    /\ UNCHANGED <<Config, owner, rounds, asked, orphans>>

\* on_done() has resolved the future: whatever _exec ended with, the next call follows.
Again(c) ==
    /\ phase[c] = "call" /\ work[c] = "ended" /\ ~asked[c]
    /\ phase' = [phase EXCEPT ![c] = "strategy"]
    /\ work' = [work EXCEPT ![c] = "idle"]
    /\ UNCHANGED <<Config, owner, rounds, asked, orphans>>

\* Fault: the cancelled execution is not waited for.
CancelledAtOnce(c) ==
    /\ asked[c]
    /\ asked' = [asked EXCEPT ![c] = FALSE]
    /\ phase' = [phase EXCEPT ![c] = "done"]
    /\ work' = [work EXCEPT ![c] = IF @ = "run" THEN "cancelling" ELSE "idle"]
    /\ UNCHANGED <<Config, owner, rounds, orphans>>

\* CancelledError in _start(): it cancels an execution that is under way and waits
\* for it; a shielded execution goes on, and only its awaiter is cancelled.
Cancelled(c) ==
    /\ asked[c]
    /\ asked' = [asked EXCEPT ![c] = FALSE]
    /\ UNCHANGED <<Config, owner, rounds>>
    /\ IF phase[c] = "call" /\ work[c] = "run"
       THEN /\ phase' = [phase EXCEPT ![c] = "gather"]
            /\ IF shielded
               THEN /\ work' = [work EXCEPT ![c] = "ended"]
                    /\ orphans' = [orphans EXCEPT ![c] = @ + 1]
               ELSE /\ work' = [work EXCEPT ![c] = "cancelling"]
                    /\ UNCHANGED orphans
       ELSE /\ phase' = [phase EXCEPT ![c] = "done"]
            /\ work' = [work EXCEPT ![c] = "idle"]
            /\ UNCHANGED orphans

\* gather(task) is done and CancelledError goes on.
Gathered(c) ==
    /\ phase[c] = "gather" /\ work[c] = "ended"
    /\ phase' = [phase EXCEPT ![c] = "done"]
    /\ work' = [work EXCEPT ![c] = "idle"]
    /\ UNCHANGED <<Config, owner, rounds, asked, orphans>>

Task(c) == Strategy(c) \/ Skip(c) \/ Call(c) \/ Again(c) \/ Cancelled(c) \/ Gathered(c)

Next ==
    \/ PeriodicStart \/ CronStart \/ RecurringStart
    \/ PeriodicStop \/ CronStop \/ RecurringStop \/ StopReturns
    \/ \E c \in Callbacks : Task(c) \/ Exec(c)

Spec == Init /\ [][Next]_vars

\* Once stop() has returned, no call of an unshielded function is under way, whatever
\* the task was doing when it was cancelled (recurring.py:141-147).
StopLeavesNothing ==
    owner = "stopped" /\ ~shielded =>
        \A c \in Callbacks : work[c] = "idle" /\ orphans[c] = 0

\* A periodic or cron function is called again and again until its service is stopped:
\* no outcome of a call ends the recurrence (recurring.py:64-85).
Recurs ==
    \A c \in Callbacks :
        owner = "started" /\ kind # "recurring" ~> work[c] = "run" \/ owner = "stopping"
=============================================================================
