----------------------------- MODULE Processes -----------------------------
(***************************************************************************)
(* aiomisc/service/process.py: a service that runs a function in a child   *)
(* process, and the one that replaces a child that has exited.             *)
(***************************************************************************)
EXTENDS Naturals

CONSTANT Children   \* 1..n: the children that may be forked, in order

VARIABLES
    respawning,     \* RespawningProcessService, or ProcessService
    child,          \* "none", "starting", "running", "ending", "ended", or "failed"
                    \* when it has exited before it has set start_event
    process,        \* self.process: a child, or 0 when there is no attribute
    forked,         \* how many children were forked
    owner,          \* where start() and stop() of the service are; "failed": start() was cut short
    supervisor,     \* the supervisor: "off", "sleep", "check", "respawn" or "cancelled"
    stopping,       \* the child that stop() has taken from self.process, or 0
    orphaned        \* history: the children whose start() or stop() was cut short

vars == <<respawning, child, process, forked, owner, supervisor, stopping, orphaned>>

TypeOK ==
    /\ respawning \in BOOLEAN
    /\ child \in [Children -> {"none", "starting", "running", "ending", "ended", "failed"}]
    /\ {process, forked, stopping} \subseteq Children \cup {0}
    /\ owner \in {"new", "starting", "started", "failed", "stop", "wait", "join", "stopped"}
    /\ supervisor \in {"off", "sleep", "check", "respawn", "cancelled"}
    /\ orphaned \subseteq Children

Init ==
    /\ respawning \in BOOLEAN
    /\ child = [i \in Children |-> "none"] /\ process = 0 /\ forked = 0
    /\ owner = "new" /\ supervisor = "off" /\ stopping = 0 /\ orphaned = {}

\* ProcessService.start() up to its await: new events, and the child is forked.
Fork ==
    /\ forked + 1 \in Children
    /\ forked' = forked + 1
    /\ child' = [child EXCEPT ![forked + 1] = "starting"]

\* _process_inner(): start_event is set, and the function begins.
ChildStarts(i) ==
    /\ child[i] = "starting"
    /\ child' = [child EXCEPT ![i] = "running"]
    /\ UNCHANGED <<respawning, process, forked, owner, supervisor, stopping, orphaned>>

\* _process_inner(): the function ends and stop_event is set.
ChildStops(i) ==
    /\ child[i] = "running"
    /\ child' = [child EXCEPT ![i] = "ending"]
    /\ UNCHANGED <<respawning, process, forked, owner, supervisor, stopping, orphaned>>

\* The child exits; or it dies before it has set start_event.
ChildExits(i) ==
    /\ child[i] \in {"starting", "ending"}
    /\ child' = [child EXCEPT ![i] = IF @ = "starting" THEN "failed" ELSE "ended"]
    /\ UNCHANGED <<respawning, process, forked, owner, supervisor, stopping, orphaned>>

\* start_event is set: the wait of start() in the executor is over.
Started == child[forked] \in {"running", "ending", "ended"}

\* The child may fail to be forked.
Start ==
    /\ owner = "new"
    /\ \/ Fork /\ owner' = "starting"
       \/ UNCHANGED <<child, forked>> /\ owner' = "failed"
    /\ UNCHANGED <<respawning, process, supervisor, stopping, orphaned>>

\* RespawningProcessService.start() begins to supervise.
StartReturns ==
    /\ owner = "starting" /\ Started
    /\ process' = forked
    /\ owner' = "started"
    /\ supervisor' = IF respawning THEN "sleep" ELSE "off"
    /\ UNCHANGED <<respawning, child, forked, stopping, orphaned>>

\* The first start() is cancelled or raises in its await, because another service has
\* failed or the child never sets start_event: self.process is not assigned.
StartFails ==
    /\ owner = "starting"
    /\ owner' = "failed"
    /\ orphaned' = orphaned \cup {forked}
    /\ UNCHANGED <<respawning, child, process, forked, supervisor, stopping>>

\* __supervise(), called by the PeriodicCallback, asks in the executor.
Supervise ==
    /\ supervisor = "sleep" /\ process # 0
    /\ supervisor' = "check"
    /\ UNCHANGED <<respawning, child, process, forked, owner, stopping, orphaned>>

StillAlive ==
    /\ supervisor = "check" /\ child[process] # "ended"
    /\ supervisor' = "sleep"
    /\ UNCHANGED <<respawning, child, process, forked, owner, stopping, orphaned>>

\* Fault: a child that has set stop_event counts as dead.
RespawnTooEarly ==
    /\ supervisor = "check" /\ child[process] \in {"ending", "ended"}
    /\ Fork
    /\ supervisor' = "respawn"
    /\ UNCHANGED <<respawning, process, owner, stopping, orphaned>>

Respawn ==
    /\ supervisor = "check" /\ child[process] = "ended"
    /\ Fork
    /\ supervisor' = "respawn"
    /\ UNCHANGED <<respawning, process, owner, stopping, orphaned>>

Respawned ==
    /\ supervisor = "respawn" /\ Started
    /\ process' = forked
    /\ supervisor' = "sleep"
    /\ UNCHANGED <<respawning, child, forked, owner, stopping, orphaned>>

\* The executor or the start() of the replacement raises, before the fork or in its await:
\* the PeriodicCallback logs the error and will call __supervise() again.
RespawnFails ==
    /\ supervisor \in {"check", "respawn"}
    /\ supervisor' = "sleep"
    /\ orphaned' = IF supervisor = "respawn" THEN orphaned \cup {forked} ELSE orphaned
    /\ UNCHANGED <<respawning, child, process, forked, owner, stopping>>

\* RespawningProcessService.stop() cancels the supervisor and waits for it; a respawn
\* that waits for start_event is cancelled and forgets its child.
StopSupervisor ==
    /\ owner = "started" /\ supervisor \in {"sleep", "check", "respawn"}
    /\ supervisor' = "cancelled" /\ owner' = "stop"
    /\ orphaned' = IF supervisor = "respawn" THEN orphaned \cup {forked} ELSE orphaned
    /\ UNCHANGED <<respawning, child, process, forked, stopping>>

\* stop() of the service that does not respawn, also after a start() that has failed.
Stop ==
    /\ owner \in {"started", "failed"} /\ ~respawning
    /\ owner' = "stop"
    /\ UNCHANGED <<respawning, child, process, forked, supervisor, stopping, orphaned>>

\* The stop() of the respawning one raises when start() has failed: it has no _supervisor.
StopRaises ==
    /\ owner = "failed" /\ respawning
    /\ owner' = "stopped"
    /\ UNCHANGED <<respawning, child, process, forked, supervisor, stopping, orphaned>>

\* ProcessService.stop(): nothing to stop, or SIGINT for the child.
Interrupt ==
    /\ owner = "stop"
    /\ IF process = 0 \/ child[process] = "ended"
       THEN owner' = "stopped" /\ UNCHANGED <<process, stopping>>
       ELSE owner' = "wait" /\ stopping' = process /\ process' = 0
    /\ UNCHANGED <<respawning, child, forked, supervisor, orphaned>>

\* stop_event was set in time: join(), with the same timeout.
StopEvent ==
    /\ owner = "wait" /\ child[stopping] \in {"ending", "ended"}
    /\ owner' = "join"
    /\ UNCHANGED <<respawning, child, process, forked, supervisor, stopping, orphaned>>

\* join() returns, or is given up at its timeout.
Joined ==
    /\ owner = "join"
    /\ owner' = "stopped"
    /\ UNCHANGED <<respawning, child, process, forked, supervisor, stopping, orphaned>>

\* The timeout of the wait for stop_event: a child that is alive is killed.
Kill ==
    /\ owner = "wait"
    /\ child' = [child EXCEPT ![stopping] = "ended"]
    /\ owner' = "stopped"
    /\ UNCHANGED <<respawning, process, forked, supervisor, stopping, orphaned>>

\* stop() is cancelled while it waits for the supervisor, for stop_event or for join().
StopCancelled ==
    /\ (owner = "stop" /\ respawning) \/ owner \in {"wait", "join"}
    /\ orphaned' = orphaned \cup ({process, stopping} \ {0})
    /\ owner' = "stopped"
    /\ UNCHANGED <<respawning, child, process, forked, supervisor, stopping>>

Child(i) == ChildStarts(i) \/ ChildStops(i) \/ ChildExits(i)

Service ==
    \/ Start \/ StartReturns \/ StartFails
    \/ Supervise \/ StillAlive \/ Respawn \/ Respawned \/ RespawnFails
    \/ Stop \/ StopRaises \/ StopSupervisor \/ Interrupt \/ StopEvent \/ Joined \/ Kill \/ StopCancelled

Next == Service \/ \E i \in Children : Child(i)

Spec == Init /\ [][Next]_vars

Alive(i) == child[i] \in {"starting", "running", "ending"}

Working(i) == child[i] \in {"starting", "running"}

\* The service has one child at a time, also while it is replaced; and when stop() is over,
\* no child runs the function (process.py:101-160).  Not so for the children whose start()
\* was cancelled or raised, the first as well as a replacement, for self.process does not
\* name them yet; nor for the one whose stop() was cancelled.
OneChild ==
    /\ \A i, j \in Children \ orphaned : Alive(i) /\ Alive(j) => i = j
    /\ owner = "stopped" => \A i \in Children \ orphaned : ~Working(i)
=============================================================================
