------------------------------ MODULE Backoff ------------------------------
(***************************************************************************)
(* aiomisc/backoff.py: one decorated call is tried again until it returns, *)
(* fails in a way that is not retried, or runs out of attempts or of time. *)
(* Time is counted in whole units; an attempt may last any time.           *)
(***************************************************************************)
EXTENDS Naturals

CONSTANTS
    Limits,         \* attempt_timeout and deadline
    Pauses,         \* pause
    Tries,          \* max_tries
    Unlimited,      \* None as a limit
    MaxTime         \* bound on the time

VARIABLES
    options,        \* the decorator of this call
    clock,          \* loop.time(), from the beginning of the call
    stage,          \* "attempt", "pause" or "over"
    timer,          \* when the attempt or the pause began
    total_tries,    \* self.total_tries
    last_exception, \* self.last_exception: "none", "listed", "timeout" or "other"
    outcome,        \* what the caller gets: "none" until the call is over
    reason,         \* history: why there was no further attempt
    attempts, done  \* counters of the statistic

vars == <<options, clock, stage, timer, total_tries, last_exception, outcome, reason,
          attempts, done>>

\* The options that Backoff() accepts; it adds TimeoutError to the exceptions.
Options ==
    {o \in [attempt_timeout : Limits, deadline : Limits, pause : Pauses, max_tries : Tries] :
        o.max_tries = Unlimited \/ o.max_tries >= 1}

Outcomes == {"none", "returned", "listed", "timeout", "other", "cancelled"}

TypeOK ==
    /\ options \in Options /\ clock \in 0..MaxTime /\ timer \in 0..MaxTime
    /\ stage \in {"attempt", "pause", "over"}
    /\ {total_tries, attempts, done} \subseteq Nat
    /\ last_exception \in {"none", "listed", "timeout", "other"}
    /\ outcome \in Outcomes
    /\ reason \in {"none", "returned", "tries", "giveup", "unlisted", "deadline", "cancelled"}

\* BackoffExecution, at its first attempt.
Init ==
    /\ options \in Options
    /\ clock = 0 /\ timer = 0 /\ stage = "attempt"
    /\ total_tries = 1 /\ attempts = 1 /\ done = 0
    /\ last_exception = "none" /\ outcome = "none" /\ reason = "none"

Expired(limit, start) == limit # Unlimited /\ clock >= start + limit

\* The execution ends: `finally' counts the attempt, and an Exception is replaced by
\* the last one that an attempt has raised.
Over(why, raised, last) ==
    /\ stage' = "over" /\ reason' = why /\ done' = done + 1
    /\ last_exception' = last
    /\ outcome' = IF raised \in {"returned", "cancelled"} \/ last = "none" THEN raised ELSE last
    /\ UNCHANGED <<options, clock, timer, total_tries, attempts>>

Returns == stage = "attempt" /\ Over("returned", "returned", last_exception)

\* Fault: the attempts are compared with `>'.
FailsLate(e) ==
    /\ stage = "attempt"
    /\ IF options.max_tries # Unlimited /\ total_tries > options.max_tries
       THEN Over("tries", e, e)
       ELSE \/ Over("giveup", e, e)
            \/ /\ stage' = "pause" /\ timer' = clock /\ last_exception' = e
               /\ UNCHANGED <<options, clock, total_tries, outcome, reason, attempts, done>>

\* `except self.exceptions': the last try, giveup(e), or a pause.
Fails(e) ==
    /\ stage = "attempt"
    /\ IF options.max_tries # Unlimited /\ total_tries >= options.max_tries
       THEN Over("tries", e, e)
       ELSE \/ Over("giveup", e, e)
            \/ /\ stage' = "pause" /\ timer' = clock /\ last_exception' = e
               /\ UNCHANGED <<options, clock, total_tries, outcome, reason, attempts, done>>

\* wait_for(function(), attempt_timeout): the TimeoutError is one of the exceptions.
AttemptTimeout == Expired(options.attempt_timeout, timer) /\ Fails("timeout")

\* `except Exception': not retried.
Raises == stage = "attempt" /\ Over("unlisted", "other", "other")

\* wait_for(run(), deadline) cancels the attempt or the pause.
Deadline ==
    /\ stage # "over"
    /\ Expired(options.deadline, 0)
    /\ Over("deadline", "timeout", last_exception)

\* The caller is cancelled.
Cancel == stage # "over" /\ Over("cancelled", "cancelled", last_exception)

\* The pause is over: `finally' counts the failed attempt and the loop begins the next.
Retry ==
    /\ stage = "pause" /\ clock >= timer + options.pause
    /\ stage' = "attempt" /\ timer' = clock
    /\ total_tries' = total_tries + 1
    /\ attempts' = attempts + 1 /\ done' = done + 1
    /\ UNCHANGED <<options, clock, last_exception, outcome, reason>>

\* Time passes, but not past a timer of the event loop that is due.
Tick ==
    /\ stage # "over" /\ clock < MaxTime
    /\ ~Expired(options.deadline, 0)
    /\ stage = "attempt" => ~Expired(options.attempt_timeout, timer)
    /\ stage = "pause" => clock < timer + options.pause
    /\ clock' = clock + 1
    /\ UNCHANGED <<options, stage, timer, total_tries, last_exception, outcome, reason,
                   attempts, done>>

\* Without a deadline and with a pause of 0 the attempts are bounded by the time.
Bounded == total_tries <= MaxTime

Next ==
    \/ Returns \/ Fails("listed") \/ AttemptTimeout \/ Raises
    \/ Deadline \/ Cancel \/ (Bounded /\ Retry) \/ Tick

Spec == Init /\ [][Next]_vars

\* The call ends for a reason that the caller can tell: out of attempts means exactly
\* max_tries of them; the exception raised is that of the last attempt that failed, and
\* a bare TimeoutError means that no attempt had failed before.  On each way out of the
\* loop the attempts are counted, and each is counted as done once (backoff.py:149-194).
EndsForAReason ==
    /\ options.max_tries # Unlimited => total_tries <= options.max_tries
    /\ reason = "tries" => total_tries = options.max_tries
    /\ reason = "deadline" => clock >= options.deadline
    /\ outcome \notin {"none", "returned", "cancelled"} =>
          outcome = last_exception \/ (last_exception = "none" /\ reason = "deadline")
    /\ attempts = total_tries /\ attempts - done = (IF stage = "over" THEN 0 ELSE 1)
=============================================================================
