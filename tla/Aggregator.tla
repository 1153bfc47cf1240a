----------------------------- MODULE Aggregator -----------------------------
(***************************************************************************)
(* aiomisc/aggregate.py: calls of an aggregated function are collected     *)
(* into batches, and one of the callers of a batch executes the function   *)
(* for all of them.                                                        *)
(*                                                                         *)
(* All callers run on one event loop: a step is what one task does between *)
(* two awaits.  A batch is the object `self._args` together with the       *)
(* futures, the event and the lock created with it; it is named after the  *)
(* call that first joins it.                                               *)
(***************************************************************************)
EXTENDS Naturals, Sequences

CONSTANTS
    Calls,          \* the calls of aggregate()
    None,           \* no batch: self._args is empty
    MaxCount,       \* max_count; larger than any batch for max_count=None
    Async,          \* aggregate_async: the function itself sets the futures
    Cancellable     \* the calls whose task may be cancelled

ASSUME NoneAssumption == None \notin Calls
ASSUME MaxCountAssumption == MaxCount \in Nat \ {0}
ASSUME ModeAssumption == Async \in BOOLEAN /\ Cancellable \subseteq Calls

VARIABLES
    current,        \* self._args: the batch that new calls join
    members,        \* batch -> the calls in its args and futures, in order
    event,          \* the batches whose event is set
    expired,        \* the batches whose leeway has passed
    locked,         \* the batches whose lock is held
    pc,             \* where each call is
    batch,          \* the args, futures, event and lock each call has captured
    future,         \* each call's future
    given           \* args_: the arguments of the execution a call has started

vars == <<current, members, event, expired, locked, pc, batch, future, given>>

Labels == {"idle", "wait", "lock", "exec", "await", "returned", "cancelled"}
Outcomes == {"result", "error", "unset"}

Range(s) == {s[k] : k \in 1 .. Len(s)}
Pending(c) == future[c] = "pending"

Init ==
    /\ current = None
    /\ members = [b \in Calls |-> <<>>]
    /\ event = {} /\ expired = {} /\ locked = {}
    /\ pc = [c \in Calls |-> "idle"]
    /\ batch = [c \in Calls |-> None]
    /\ future = [c \in Calls |-> "none"]
    /\ given = [c \in Calls |-> <<>>]

(***************************************************************************)
(* `async with lock: if not future.done(): await self._execute(...)`.      *)
(* asyncio.Lock serves its waiters in order; nothing here depends on the   *)
(* order, so any waiter may be next.                                       *)
(***************************************************************************)
MustExecute(c) == future'[c] = "pending"

\* `await future` blocks unless the future is done.  NeverBlocks shows that it
\* always is, so no action leaves "await".
AwaitLabel(c) == IF future'[c] = "pending" THEN "await" ELSE "returned"

\* c has the lock of b: it executes with the arguments collected, or leaves.
Acquire(c, b) ==
    IF MustExecute(c)
    THEN /\ locked' = locked \cup {b}
         /\ pc' = [pc EXCEPT ![c] = "exec"]
         /\ given' = [given EXCEPT ![c] = members'[b]]
    ELSE /\ pc' = [pc EXCEPT ![c] = AwaitLabel(c)]
         /\ UNCHANGED <<locked, given>>

\* Fault: the holder of the lock is overlooked.
ContendedByQueue(b) == \E d \in Calls : batch[d] = b /\ pc[d] = "lock"

\* Somebody holds the lock of b or is in the queue for it.
Contended(b) == b \in locked \/ \E d \in Calls : batch[d] = b /\ pc[d] = "lock"

Enter(c, b) ==
    IF Contended(b)
    THEN pc' = [pc EXCEPT ![c] = "lock"] /\ UNCHANGED <<locked, given>>
    ELSE Acquire(c, b)

Acquired(c) ==
    /\ pc[c] = "lock" /\ batch[c] \notin locked
    /\ UNCHANGED <<current, members, event, expired, batch, future>>
    /\ Acquire(c, batch[c])

(***************************************************************************)
(* aggregate(arg), up to its first await.                                  *)
(***************************************************************************)
IsFull(b) == Len(members'[b]) = MaxCount

Call(c) ==
    LET b == IF current = None THEN c ELSE current IN
    /\ pc[c] = "idle"
    /\ members' = [members EXCEPT ![b] = Append(@, c)]
    /\ batch' = [batch EXCEPT ![c] = b]
    /\ future' = [future EXCEPT ![c] = "pending"]
    /\ IF IsFull(b)
       THEN event' = event \cup {b} /\ current' = None /\ Enter(c, b)
       ELSE /\ current' = b /\ pc' = [pc EXCEPT ![c] = "wait"]
            /\ UNCHANGED <<event, locked, given>>
    /\ UNCHANGED expired

\* The leeway counted from the first call of the batch is over.
Expire(b) ==
    /\ members[b] # <<>> /\ b \notin expired
    /\ expired' = expired \cup {b}
    /\ UNCHANGED <<current, members, event, locked, pc, batch, future, given>>

\* Fault: a batch that times out is not replaced.
AfterWakeKeeps(b) == current

\* `if args is self._args: self._clear()`
AfterWake(b) == IF current = b THEN None ELSE current

\* wait_for() ends: max_count was reached, or the time is up.
Wake(c) ==
    /\ pc[c] = "wait" /\ batch[c] \in event \cup expired
    /\ current' = AfterWake(batch[c])
    /\ UNCHANGED <<members, event, expired, batch, future>>
    /\ Enter(c, batch[c])

(***************************************************************************)
(* _execute(): what the awaited function does.                             *)
(***************************************************************************)
\* Every future of the batch that is still pending gets the outcome.
Fill(b, outcome) ==
    [d \in Calls |-> IF d \in Range(members[b]) /\ Pending(d) THEN outcome ELSE future[d]]

\* Fault: the futures the function has forgotten are not looked at.
NotValidated(c, n) ==
    [d \in Calls |-> IF d \in Range(SubSeq(given[c], 1, n)) /\ Pending(d) THEN "result"
                     ELSE future[d]]

\* `zip(results, args)` serves the first n arguments, ResultNotSetError the rest.
Answered(c, n) ==
    [d \in Calls |-> IF d \in Range(SubSeq(given[c], 1, n)) /\ Pending(d) THEN "result"
                     ELSE Fill(batch[c], "unset")[d]]

\* The end of the execution: the lock is released, then `await future`.
EndExecute(c) ==
    /\ pc' = [pc EXCEPT ![c] = AwaitLabel(c)]
    /\ locked' = locked \ {batch[c]}
    /\ UNCHANGED <<current, members, event, expired, batch, given>>

\* The function returns n results (aggregate_async: it has set the futures).
FuncReturns(c, n) ==
    /\ pc[c] = "exec" /\ (Async => n = 0)
    /\ future' = Answered(c, n)
    /\ EndExecute(c)

FuncRaises(c) ==
    /\ pc[c] = "exec"
    /\ future' = Fill(batch[c], "error")
    /\ EndExecute(c)

\* aggregate_async: the function sets one of the futures and goes on.
FuncSets(c, d) ==
    /\ Async /\ pc[c] = "exec" /\ d \in Range(given[c]) /\ Pending(d)
    /\ \E outcome \in {"result", "error"} : future' = [future EXCEPT ![d] = outcome]
    /\ UNCHANGED <<current, members, event, expired, locked, pc, batch, given>>

(***************************************************************************)
(* The caller's task is cancelled at an await, or the function raises      *)
(* CancelledError.  Argument and future stay in the batch; a lock that is  *)
(* held is released, so that another caller can execute the function.      *)
(***************************************************************************)
\* Fault: the lock is kept.
UnlockedNever(c) == locked

Unlocked(c) == IF pc[c] = "exec" THEN locked \ {batch[c]} ELSE locked

Cancel(c) ==
    /\ c \in Cancellable /\ pc[c] \in {"wait", "lock", "exec"}
    /\ pc' = [pc EXCEPT ![c] = "cancelled"]
    /\ locked' = Unlocked(c)
    /\ UNCHANGED <<current, members, event, expired, batch, future, given>>

FuncEnds(c) == FuncRaises(c) \/ \E n \in 0 .. Len(given[c]) : FuncReturns(c, n)

Next ==
    \E c \in Calls :
        \/ Call(c) \/ Wake(c) \/ Acquired(c) \/ Cancel(c)
        \/ FuncEnds(c) \/ Expire(c)
        \/ \E d \in Calls : FuncSets(c, d)

Spec == Init /\ [][Next]_vars

(***************************************************************************)
(* The event loop runs every task that can run and every timer that is     *)
(* due, and the aggregated function ends.  Nobody has to call or cancel.   *)
(***************************************************************************)
Fairness ==
    \A c \in Calls :
        /\ WF_vars(Wake(c)) /\ WF_vars(Acquired(c))
        /\ WF_vars(FuncEnds(c)) /\ WF_vars(Expire(c))

FairSpec == Spec /\ Fairness
-----------------------------------------------------------------------------
TypeOK ==
    /\ current \in Calls \cup {None}
    /\ members \in [Calls -> Seq(Calls)]
    /\ event \subseteq Calls /\ expired \subseteq Calls /\ locked \subseteq Calls
    /\ pc \in [Calls -> Labels]
    /\ batch \in [Calls -> Calls \cup {None}]
    /\ future \in [Calls -> Outcomes \cup {"none", "pending"}]
    /\ given \in [Calls -> Seq(Calls)]

\* "no more than max_count": the function is never given more arguments, also
\* when cancelled callers have left theirs behind.
AtMostMaxCount == \A c \in Calls : pc[c] = "exec" => Len(given[c]) <= MaxCount

\* The lock of the batch admits one execution at a time, whichever way an
\* earlier one has ended.
OneExecution ==
    \A c, d \in Calls : pc[c] = "exec" /\ pc[d] = "exec" /\ batch[c] = batch[d] => c = d

\* A batch that is executed takes no further calls: the function has been given
\* the argument of every future that it must answer.
ExecutesWholeBatch == \A c \in Calls : pc[c] = "exec" => given[c] = members[batch[c]]

\* A caller with the batch's lock behind it never blocks in `await future`:
\* every way _execute() ends leaves every future of the batch done.
NeverBlocks == \A c \in Calls : pc[c] # "await"

\* "if some unexpected error occurs, exception is propagated to each future":
\* without aggregate_async an execution fails for all of its callers or for none,
\* and what has been answered is not executed again.
SameFate ==
    ~Async => \A b \in Calls : \A c, d \in Range(members[b]) :
        /\ future[c] = "error" => future[d] = "error"
        /\ future[c] = "pending" => future[d] = "pending"

\* The function is not called again for answers it has given: without
\* aggregate_async nobody in a batch that is executed has an answer yet.
ExecutesUnanswered ==
    ~Async => \A c \in Calls : pc[c] = "exec" => \A d \in Range(members[batch[c]]) : Pending(d)

\* "another will try to execute the func": every call ends, whatever happens to
\* the callers that share its batch.
EveryCallEnds ==
    \A c \in Calls : pc[c] \in {"wait", "lock", "exec"} ~> pc[c] \in {"returned", "cancelled"}
=============================================================================
