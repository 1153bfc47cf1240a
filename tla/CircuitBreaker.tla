--------------------------- MODULE CircuitBreaker ---------------------------
(***************************************************************************)
(* aiomisc/circuit_breaker.py: calls of a function pass, are rejected, or  *)
(* are let through in part, depending on the failures of recent calls.     *)
(*                                                                         *)
(* Calls overlap: each takes its counter when it starts and writes to it   *)
(* when it ends, by when the counter may have left the statistic.  Time is *)
(* counted in whole units.                                                 *)
(***************************************************************************)
EXTENDS Naturals, Sequences, FiniteSets

CONSTANTS
    Calls,              \* calls that may be under way at the same time
    BucketCount,        \* BUCKET_COUNT
    ResponseTime, PassingTime, BrokenTime, RecoveryTime,
    RatioNum, RatioDen, \* error_ratio
    MaxTime,            \* bound on the time
    MaxTotal,           \* bound on the calls of one bucket
    None                \* a counter outside of the statistic

TimesAssumption ==
    /\ {BucketCount, ResponseTime, PassingTime, BrokenTime, RecoveryTime} \subseteq Nat \ {0}
    /\ RatioNum \in Nat \ {0} /\ RatioDen \in Nat \ {0}
    /\ MaxTime \in Nat /\ MaxTotal \in Nat /\ None \notin Nat

VARIABLES
    time,           \* self._get_time()
    state,          \* self._state
    stuck_until,    \* self._stuck_until
    recovery_at,    \* self._recovery_at
    statistic,      \* self._statistic: buckets with their counters
    pc,             \* "idle", or "run" while the function runs
    counter,        \* the bucket whose counter a running call holds, or None
    since,          \* history: when the current state was entered
    begun,          \* history: the bucket in which a running call has started
    failed          \* history: the latest bucket in which a failed call has started

vars == <<time, state, stuck_until, recovery_at, statistic, pc, counter, since, begun, failed>>

States == {"PASSING", "BROKEN", "RECOVERING"}

Init ==
    /\ time = 0 /\ state = "PASSING" /\ stuck_until = 0 /\ recovery_at = 0
    /\ statistic = <<>>
    /\ pc = [c \in Calls |-> "idle"]
    /\ counter = [c \in Calls |-> None]
    /\ since = 0
    /\ begun = [c \in Calls |-> None] /\ failed = None

\* bucket(): the beginning of the current bucket, in BUCKET_COUNT-ths of a unit.
Bucket == LET ts == time * BucketCount IN ts - (ts % ResponseTime)

\* Fault: the deque has no maxlen.
WithCounterUnbounded ==
    IF statistic # <<>> /\ statistic[Len(statistic)].bucket = Bucket THEN statistic
    ELSE Append(statistic, [bucket |-> Bucket, fail |-> 0, total |-> 0])

\* The statistic after counter(): a deque of at most BUCKET_COUNT buckets.
WithCounter ==
    IF statistic # <<>> /\ statistic[Len(statistic)].bucket = Bucket THEN statistic
    ELSE LET new == Append(statistic, [bucket |-> Bucket, fail |-> 0, total |-> 0])
         IN  IF Len(new) > BucketCount THEN Tail(new) ELSE new

\* __gen_statistic(): the buckets that began within the response time.
Recent(stat) ==
    {k \in 1 .. Len(stat) : stat[k].bucket + ResponseTime * BucketCount >= Bucket}

\* The recent buckets that have reached the error ratio.
Upper(stat) ==
    {k \in Recent(stat) : stat[k].total > 0 /\ stat[k].fail * RatioDen >= RatioNum * stat[k].total}

\* recovery_ratio >= PASSING_BROKEN_THRESHOLD, which is 1.
PassingBreaks(stat) == Recent(stat) # {} /\ Upper(stat) = Recent(stat)

\* recovery_ratio >= RECOVER_BROKEN_THRESHOLD * error_ratio, which is error_ratio / 2.
RecoveryBreaks(stat) ==
    /\ Recent(stat) # {}
    /\ 2 * RatioDen * Cardinality(Upper(stat)) >= RatioNum * Cardinality(Recent(stat))

(***************************************************************************)
(* _compute_state(), with the statistic that counter() has left.           *)
(***************************************************************************)
Stay(stat) ==
    /\ statistic' = stat
    /\ UNCHANGED <<state, stuck_until, recovery_at, since>>

BrokenUntil == time + BrokenTime

Break ==
    /\ state' = "BROKEN" /\ stuck_until' = BrokenUntil
    /\ statistic' = <<>>
    /\ since' = time
    /\ UNCHANGED recovery_at

Recover(stat) ==
    /\ state' = "RECOVERING" /\ recovery_at' = time
    /\ statistic' = stat
    /\ since' = time
    /\ UNCHANGED stuck_until

PassingUntil == time + PassingTime

Pass(stat) ==
    /\ state' = "PASSING" /\ stuck_until' = PassingUntil
    /\ statistic' = stat
    /\ since' = time
    /\ UNCHANGED recovery_at

EnoughStatistic(stat) == Len(stat) >= BucketCount

ComputeState(stat) ==
    IF time < stuck_until THEN Stay(stat)
    ELSE \/ state = "BROKEN" /\ Recover(stat)
         \/ /\ state = "PASSING"
            /\ IF EnoughStatistic(stat) /\ PassingBreaks(stat) THEN Break ELSE Stay(stat)
         \/ state = "RECOVERING" /\ RecoveryBreaks(stat) /\ Break
         \/ /\ state = "RECOVERING" /\ ~RecoveryBreaks(stat)
            /\ IF time - recovery_at >= RecoveryTime THEN Pass(stat) ELSE Stay(stat)

(***************************************************************************)
(* context(): a call that is let through holds the current counter.  In    *)
(* RECOVERING `random() + 1 < 2 ** (elapsed / recovery_time)` decides:     *)
(* never at first, always once the recovery time is over.                  *)
(***************************************************************************)
MayPass == state' = "PASSING" \/ (state' = "RECOVERING" /\ time > recovery_at')
MayReject == state' = "BROKEN" \/ (state' = "RECOVERING" /\ time - recovery_at' < RecoveryTime)

UnderWay == Cardinality({c \in Calls : counter[c] = Bucket})
Room == \A k \in 1 .. Len(statistic) :
            statistic[k].bucket = Bucket => statistic[k].total + UnderWay < MaxTotal

\* A counter that has left the statistic is written in vain by the call that holds it.
Attached(b) == IF \E k \in 1 .. Len(statistic') : statistic'[k].bucket = b THEN b ELSE None
StillHeld == [c \in Calls |-> Attached(counter[c])]

Passed(c) ==
    /\ pc[c] = "idle" /\ Room
    /\ ComputeState(WithCounter) /\ MayPass
    /\ pc' = [pc EXCEPT ![c] = "run"]
    /\ counter' = [StillHeld EXCEPT ![c] = Bucket]
    /\ begun' = [begun EXCEPT ![c] = Bucket]
    /\ UNCHANGED <<time, failed>>

\* CircuitBroken is raised.
Rejected(c) ==
    /\ pc[c] = "idle"
    /\ ComputeState(WithCounter) /\ MayReject
    /\ counter' = StillHeld
    /\ UNCHANGED <<time, pc, begun, failed>>

\* Fault: the end of a call is counted where the statistic is now.
CountedLate(c, failures) ==
    [k \in 1 .. Len(statistic) |->
        IF k = Len(statistic)
        THEN [statistic[k] EXCEPT !.fail = @ + failures, !.total = @ + 1] ELSE statistic[k]]

Counted(c, failures) ==
    [k \in 1 .. Len(statistic) |->
        IF statistic[k].bucket = counter[c]
        THEN [statistic[k] EXCEPT !.fail = @ + failures, !.total = @ + 1] ELSE statistic[k]]

\* _on_passing(): the function returns, or raises what the inspector or the list
\* of exceptions ignores (0 failures), or fails (1).
Ends(c) ==
    /\ pc[c] = "run"
    /\ \E failures \in {0, 1} :
        /\ statistic' = Counted(c, failures)
        /\ failed' = IF failures = 1 /\ (failed = None \/ begun[c] > failed) THEN begun[c] ELSE failed
    /\ pc' = [pc EXCEPT ![c] = "idle"]
    /\ counter' = [counter EXCEPT ![c] = None]
    /\ begun' = [begun EXCEPT ![c] = None]
    /\ UNCHANGED <<time, state, stuck_until, recovery_at, since>>

Tick ==
    /\ time < MaxTime
    /\ time' = time + 1
    /\ UNCHANGED <<state, stuck_until, recovery_at, statistic, pc, counter, since, begun, failed>>

Next == Tick \/ \E c \in Calls : Passed(c) \/ Rejected(c) \/ Ends(c)

Spec == Init /\ [][Next]_vars
-----------------------------------------------------------------------------
TypeOK ==
    /\ time \in 0 .. MaxTime /\ state \in States
    /\ {stuck_until, recovery_at, since} \subseteq Nat
    /\ Len(statistic) <= BucketCount
    /\ \A k \in 1 .. Len(statistic) :
        statistic[k] \in [bucket : Nat, fail : Nat, total : Nat]
    /\ pc \in [Calls -> {"idle", "run"}]
    /\ counter \in [Calls -> Nat \cup {None}] /\ begun \in [Calls -> Nat \cup {None}]
    /\ failed \in Nat \cup {None}

\* The circuit breaks because of calls that were made, and failed, within the response
\* time: neither old failures nor calls that end late can break it, and after a recovery
\* not before passing_time ("minimum time in passing state") is over.  It recovers from
\* nothing: "In broken mode ... Statistic doesn't collecting".
BreaksForAReason ==
    [][/\ state # "BROKEN" /\ state' = "BROKEN" =>
             /\ failed # None /\ failed + ResponseTime * BucketCount >= Bucket
             /\ state = "PASSING" /\ since > 0 => time >= since + PassingTime
       /\ state = "BROKEN" => \A k \in 1 .. Len(statistic) : statistic[k].total = 0]_vars
=============================================================================
