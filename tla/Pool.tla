-------------------------------- MODULE Pool --------------------------------
(***************************************************************************)
(* aiomisc/pool.py: PoolBase, a pool of instances (connections) that       *)
(* clients acquire and release, with a recycler task that destroys what is *)
(* broken or too old.                                                      *)
(*                                                                         *)
(* Everything runs on one event loop: a step is what one task does between *)
(* two awaits that suspend.  Instances are numbered in the order of their  *)
(* creation.                                                               *)
(***************************************************************************)
EXTENDS Integers, Sequences, FiniteSets

CONSTANTS
    Clients,        \* tasks that acquire and release, again and again
    MaxSize,        \* maxsize
    Instances,      \* bound: how many instances may be created
    Faults,         \* what may go wrong, see FaultNames
    Nothing         \* no instance

FaultNames ==
    {"check_false",     \* _check_instance() returns False
     "check_raises",    \* _check_instance() raises
     "create_fails",    \* _create_instance() raises, or its client is cancelled
     "cancel_get",      \* a client is cancelled while it waits for an instance
     "cancel_check",    \* a client is cancelled while it checks an instance
     "expire",          \* recycle is set and the time of an instance is over
     "close"}           \* close() is called

SizesAssumption == MaxSize \in Nat \ {0} /\ Instances \in Nat
FaultsAssumption == Faults \subseteq FaultNames /\ Nothing \notin Nat

VARIABLES
    semaphore,      \* self._semaphore: how many instances may still be created
    len,            \* self._len
    instances,      \* self._instances: the queue of idle instances
    used,           \* self._used
    recycle_bin,    \* self._recycle_bin
    recycler,       \* the instance the recycler destroys, or Nothing
    expired,        \* the instances whose _recycle_times is in the past
    destroyed,      \* the instances that _destroy_instance() has been given
    born,           \* how many instances have been created
    pc,             \* where each client is
    inst,           \* the instance a client checks or uses
    closing,        \* how far close() has come: "open", "closing" or "closed"
    doubtful        \* history: the instances whose check has raised

vars == <<semaphore, len, instances, used, recycle_bin, recycler, expired, destroyed,
          born, pc, inst, closing, doubtful>>

Labels == {"idle", "create", "get", "check", "use"}
Born == 1 .. born

Init ==
    /\ semaphore = MaxSize /\ len = 0
    /\ instances = <<>> /\ used = {}
    /\ recycle_bin = <<>> /\ recycler = Nothing
    /\ expired = {} /\ destroyed = {} /\ born = 0
    /\ pc = [c \in Clients |-> "idle"]
    /\ inst = [c \in Clients |-> Nothing]
    /\ closing = "open" /\ doubtful = {}

InQueue(i) == \E k \in 1 .. Len(instances) : instances[k] = i

(***************************************************************************)
(* __acquire(): a client creates an instance while the semaphore allows    *)
(* it, then takes the oldest idle one.  Semaphore.acquire() does not       *)
(* suspend when locked() has just been false, Queue.get() does not suspend *)
(* when the queue is not empty.                                            *)
(***************************************************************************)
Hold(c, label, i) ==
    /\ pc' = [pc EXCEPT ![c] = label]
    /\ inst' = [inst EXCEPT ![c] = i]

IdleAfterGet(queue) == Tail(queue)

\* Take the head of the queue, or wait in the queue's get().
GetFrom(c, queue) ==
    IF queue = <<>>
    THEN instances' = queue /\ Hold(c, "get", Nothing)
    ELSE instances' = IdleAfterGet(queue) /\ Hold(c, "check", Head(queue))

\* Fault: locked() is asked, but the slot is not taken.
SemaphoreNotTaken(value) == value

SemaphoreAfterAcquire(value) == value - 1

\* The beginning of __acquire(), with a semaphore of the given value.
Acquiring(c, value) ==
    IF value > 0
    THEN semaphore' = SemaphoreAfterAcquire(value) /\ Hold(c, "create", Nothing) /\ UNCHANGED instances
    ELSE semaphore' = value /\ GetFrom(c, instances)

Acquire(c) ==
    /\ pc[c] = "idle"
    /\ Acquiring(c, semaphore)
    /\ UNCHANGED <<doubtful, len, used, recycle_bin, recycler, expired, destroyed, born, closing>>

\* _create_instance() returns: put the instance, then get one.
Created(c) ==
    /\ pc[c] = "create" /\ born < Instances
    /\ born' = born + 1
    /\ len' = len + 1
    /\ GetFrom(c, Append(instances, born'))
    /\ UNCHANGED <<doubtful, semaphore, used, recycle_bin, recycler, expired, destroyed, closing>>

\* The queue has an instance for a client that waits in get().
Get(c) ==
    /\ pc[c] = "get" /\ instances # <<>>
    /\ GetFrom(c, instances)
    /\ UNCHANGED <<doubtful, semaphore, len, used, recycle_bin, recycler, expired, destroyed, born, closing>>

CountAfterRecycle == len - 1

\* __recycle_instance(), but for the semaphore and the set of used instances.
Recycle(i) ==
    /\ len' = CountAfterRecycle
    /\ expired' = expired \ {i}
    /\ recycle_bin' = Append(recycle_bin, i)

Creating == {c \in Clients : pc[c] = "create"}

\* How many instances may still be recycled, apart from those that will be when they
\* are released, within the bound on the instances that replace them.
Spare == Instances - MaxSize - (born - len) - Cardinality(expired)

Checked(c) ==
    /\ pc[c] = "check"
    /\ used' = used \cup {inst[c]}
    /\ Hold(c, "use", inst[c])
    /\ UNCHANGED <<doubtful, semaphore, len, instances, recycle_bin, recycler, expired, destroyed, born, closing>>

\* Fault: the slot of a recycled instance is taken a second time.
AfterRecycleDebt == semaphore - 1

AfterRecycle == semaphore + 1

\* _check_instance() returns False: recycle, and start __acquire() again.
CheckFalse(c) ==
    /\ "check_false" \in Faults /\ Spare > 0
    /\ pc[c] = "check"
    /\ Recycle(inst[c]) /\ used' = used \ {inst[c]}
    /\ Acquiring(c, AfterRecycle)
    /\ UNCHANGED <<doubtful, recycler, destroyed, born, closing>>

\* _check_instance() raises: recycle, and hand the instance out all the same.
CheckRaises(c) ==
    /\ "check_raises" \in Faults /\ Spare > 0
    /\ pc[c] = "check"
    /\ Recycle(inst[c]) /\ used' = used \cup {inst[c]}
    /\ semaphore' = AfterRecycle
    /\ Hold(c, "use", inst[c])
    /\ doubtful' = doubtful \cup {inst[c]}
    /\ UNCHANGED <<instances, recycler, destroyed, born, closing>>

(***************************************************************************)
(* __release()                                                             *)
(***************************************************************************)
\* Fault: the instance is put back before its age is looked at.
IdleAfterRecycleToo(i) == Append(instances, i)

IdleAfterRecycle(i) == instances

ReleaseExpired(c) ==
    /\ pc[c] = "use" /\ inst[c] \in expired
    /\ Recycle(inst[c]) /\ used' = used \ {inst[c]}
    /\ semaphore' = AfterRecycle
    /\ instances' = IdleAfterRecycle(inst[c])
    /\ Hold(c, "idle", Nothing)
    /\ UNCHANGED <<doubtful, recycler, destroyed, born, closing>>

\* Fault: the instance is not put back.
IdleAfterReleaseLost(i) == instances

IdleAfterRelease(i) == Append(instances, i)

Release(c) ==
    /\ pc[c] = "use" /\ inst[c] \notin expired
    /\ used' = used \ {inst[c]}
    /\ instances' = IdleAfterRelease(inst[c])
    /\ Hold(c, "idle", Nothing)
    /\ UNCHANGED <<doubtful, semaphore, len, recycle_bin, recycler, expired, destroyed, born, closing>>

(***************************************************************************)
(* What befalls a client in __acquire(): its slot in the semaphore, or the *)
(* instance it was checking, is not given back.                            *)
(***************************************************************************)
Abandon(c) ==
    /\ \/ "create_fails" \in Faults /\ pc[c] = "create"
       \/ "cancel_get" \in Faults /\ pc[c] = "get"
       \/ "cancel_check" \in Faults /\ pc[c] = "check"
    /\ Hold(c, "idle", Nothing)
    /\ UNCHANGED <<doubtful, semaphore, len, instances, used, recycle_bin, recycler, expired,
                   destroyed, born, closing>>

\* The deadline of an instance passes.
Expire(i) ==
    /\ "expire" \in Faults /\ Spare > 0
    /\ i \notin expired /\ (InQueue(i) \/ \E c \in Clients : inst[c] = i)
    /\ expired' = expired \cup {i}
    /\ UNCHANGED <<doubtful, semaphore, len, instances, used, recycle_bin, recycler, destroyed,
                   born, pc, inst, closing>>

(***************************************************************************)
(* __recycler() destroys one instance at a time, until close() cancels it. *)
(***************************************************************************)
RecyclerTake ==
    /\ closing # "closed" /\ recycler = Nothing /\ recycle_bin # <<>>
    /\ recycler' = Head(recycle_bin)
    /\ recycle_bin' = Tail(recycle_bin)
    /\ UNCHANGED <<doubtful, semaphore, len, instances, used, expired, destroyed, born, pc, inst, closing>>

\* _destroy_instance() returns or raises; either way the instance is gone.
RecyclerDone ==
    /\ closing # "closed" /\ recycler # Nothing
    /\ destroyed' = destroyed \cup {recycler}
    /\ recycler' = Nothing
    /\ UNCHANGED <<doubtful, semaphore, len, instances, used, recycle_bin, expired, born, pc, inst, closing>>

(***************************************************************************)
(* close(): destroy what is used or idle, wait for that, then cancel the   *)
(* recycler.                                                               *)
(***************************************************************************)
Close ==
    /\ "close" \in Faults /\ closing = "open"
    /\ closing' = "closing"
    /\ destroyed' = destroyed \cup used \cup {instances[k] : k \in 1 .. Len(instances)}
    /\ used' = {} /\ instances' = <<>>
    /\ UNCHANGED <<doubtful, semaphore, len, recycle_bin, recycler, expired, born, pc, inst>>

CloseEnds ==
    /\ closing = "closing"
    /\ closing' = "closed"
    /\ UNCHANGED <<doubtful, semaphore, len, instances, used, recycle_bin, recycler, expired,
                   destroyed, born, pc, inst>>

ClientStep(c) ==
    Created(c) \/ Get(c) \/ Checked(c) \/ CheckFalse(c) \/ ReleaseExpired(c) \/ Release(c)

Next ==
    \/ \E c \in Clients : Acquire(c) \/ ClientStep(c) \/ CheckRaises(c) \/ Abandon(c)
    \/ \E i \in Born : Expire(i)
    \/ RecyclerTake \/ RecyclerDone \/ Close \/ CloseEnds

Spec == Init /\ [][Next]_vars

(***************************************************************************)
(* Creating, checking and destroying an instance ends, clients release     *)
(* what they have acquired, and the event loop runs every task that can    *)
(* run.  Nobody has to acquire, and nothing has to go wrong.               *)
(***************************************************************************)
Fairness ==
    /\ \A c \in Clients : WF_vars(ClientStep(c))
    /\ WF_vars(RecyclerTake) /\ WF_vars(RecyclerDone)

FairSpec == Spec /\ Fairness
-----------------------------------------------------------------------------
TypeOK ==
    /\ semaphore \in Nat /\ len \in Int /\ born \in 0 .. Instances
    /\ instances \in Seq(Born) /\ recycle_bin \in Seq(Born)
    /\ used \subseteq Born /\ expired \subseteq Born /\ destroyed \subseteq Born /\ doubtful \subseteq Born
    /\ recycler \in Born \cup {Nothing}
    /\ pc \in [Clients -> Labels]
    /\ inst \in [Clients -> Born \cup {Nothing}]
    /\ closing \in {"open", "closing", "closed"}

InBin(i) == recycler = i \/ \E k \in 1 .. Len(recycle_bin) : recycle_bin[k] = i

\* An instance serves one client at a time: it is not with two clients, not with
\* a client and in the queue for the next one, and not in the queue twice, whatever
\* fails.  And ("assert not future.done()"), as long as nobody has closed the pool, a
\* client is never given an instance that is destroyed or on its way to the recycler,
\* and none such is waiting for a client: unless its check has raised, for then the
\* code recycles the instance and hands it out as well (pool.py:151-153).
AloneAndAlive ==
    /\ \A c, d \in Clients : inst[c] = inst[d] /\ inst[c] # Nothing => c = d
    /\ \A c \in Clients : ~InQueue(inst[c])
    /\ \A j, k \in 1 .. Len(instances) : instances[j] = instances[k] => j = k
    /\ closing = "open" =>
        \A i \in Born \ doubtful :
            InQueue(i) \/ (\E c \in Clients : pc[c] = "use" /\ inst[c] = i) =>
                ~InBin(i) /\ i \notin destroyed

\* The instances that have not been recycled, by the places where they can be.
Live == {i \in Born : ~InBin(i) /\ i \notin destroyed}

\* "maxsize": instances and creations under way never exceed it, and len(pool) counts
\* the instances that have not been recycled, wherever they are, without drifting;
\* also when an instance is found broken or too old, and when a client is cancelled or
\* its instance cannot be created.  Not so once a check has raised: its instance
\* returns to the queue and may be recycled again, which frees a second slot
\* (pool.py:151-153).
SizeIsBounded ==
    doubtful = {} =>
        /\ Cardinality(Live) + Cardinality(Creating) + semaphore <= MaxSize
        /\ closing = "open" => len = Cardinality(Live)

\* "await asyncio.gather(*tasks)": once the last client has asked, everyone who
\* waits for an instance gets one or is cancelled, however many instances are
\* replaced.  (While others keep asking, Queue.get() may serve them first.)
AcquireReturns ==
    <>[][\A c \in Clients : ~Acquire(c)]_vars =>
        \A c \in Clients : pc[c] \in {"create", "get", "check"} ~> pc[c] \in {"use", "idle"}
=============================================================================
