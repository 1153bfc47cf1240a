------------------------------ MODULE MCSafety ------------------------------
(***************************************************************************)
(* Components that share no state, side by side: the connection pool, a    *)
(* file, the components of SafeParts and three more.  A behaviour is one   *)
(* of the component `which', and the variables of the others keep a fixed  *)
(* value.                                                                  *)
(***************************************************************************)
EXTENDS Pool, FilePart, SafeParts, TLC

CONSTANTS
    Components,                                                         \* the components of this run
    MaxCount, None,                                                     \* Aggregator
    BreakerCalls, BucketCount, ResponseTime, PassingTime, BrokenTime,   \* CircuitBreaker
    RecoveryTime, RatioNum, RatioDen, MaxTime, MaxTotal,
    Loop, MaxWorkers, Helper, Collector                                 \* ThreadPool

VARIABLES
    which,
    current, a_members, event, a_expired, locked, a_pc, batch, future, given,
    time, state, stuck_until, recovery_at, statistic, b_pc, counter, since, begun, failed,
    tasks, closed_event, shutdown_event, futures, t_future, ready, loop_closed, t_pc, item, ran,
    sd_pc, sd_by, sd_wait, sd_future

Aggregate == INSTANCE Aggregator WITH
    Async <- FALSE, Calls <- Tasks, Cancellable <- Tasks,
    members <- a_members, expired <- a_expired, pc <- a_pc
Breaker == INSTANCE CircuitBreaker WITH Calls <- BreakerCalls, pc <- b_pc
\* A pool of threads that one loop uses, and nobody shuts down.
Growing == INSTANCE ThreadPool WITH
    Items <- Tasks, Loops <- {Loop}, LoopOf <- [i \in Tasks |-> Loop], Owner <- Nobody,
    Debug <- FALSE, Callers <- {}, Cancellable <- {}, Closing <- {}, Droppable <- FALSE,
    future <- t_future, pc <- t_pc

ASSUME ConstantsAssumption ==
    /\ SizesAssumption /\ FaultsAssumption /\ Breaker!TimesAssumption
    /\ Clients = Tasks /\ Readers = Tasks
    /\ Components \subseteq {"pool", "aggregate", "breaker", "select", "threads", "dns", "file",
                             "proxy", "watchdog", "adapter"}

aggregateVars == <<current, a_members, event, a_expired, locked, a_pc, batch, future, given>>
breakerVars == <<time, state, stuck_until, recovery_at, statistic, b_pc, counter, since, begun, failed>>
threadsVars == <<tasks, closed_event, shutdown_event, futures, t_future, ready, loop_closed, t_pc,
                 item, ran, sd_pc, sd_by, sd_wait, sd_future>>
mcVars == <<which, vars, selectVars, dnsVars, fileVars, proxyVars, watchdogVars, adapterVars,
            aggregateVars, breakerVars, threadsVars>>

\* The options of a component vary where it runs.
MCInit ==
    /\ which \in Components
    /\ Init /\ Aggregate!Init /\ Breaker!Init /\ Growing!Init
    /\ Choice!Init /\ Zones!Init /\ Reading!Init /\ Relay!Init /\ Notify!Init /\ Adapter!Init
    /\ which # "select" => cancel /\ wait /\ return_exceptions /\ timeout
    /\ which # "file" => fp = 0
    /\ which # "watchdog" => socket_addr /\ interval = "none"
    /\ which # "adapter" => kind = "grpc"

\* A step of the component `name' is a step of no other.
Only(name) ==
    /\ which = name /\ UNCHANGED which
    /\ name # "pool" => UNCHANGED vars
    /\ name # "aggregate" => UNCHANGED aggregateVars
    /\ name # "breaker" => UNCHANGED breakerVars
    /\ name # "threads" => UNCHANGED threadsVars
    /\ name # "select" => UNCHANGED selectVars
    /\ name # "dns" => UNCHANGED dnsVars
    /\ name # "file" => UNCHANGED fileVars
    /\ name # "proxy" => UNCHANGED proxyVars
    /\ name # "watchdog" => UNCHANGED watchdogVars
    /\ name # "adapter" => UNCHANGED adapterVars

MCNext ==
    \/ which = "pool" /\ Next /\ Only("pool")
    \/ which = "aggregate" /\ Aggregate!Next /\ Only("aggregate")
    \/ which = "breaker" /\ Breaker!Next /\ Only("breaker")
    \/ which = "threads" /\ Growing!Next /\ Only("threads")
    \/ which = "select" /\ Choice!Next /\ Only("select")
    \/ which = "dns" /\ Zones!Next /\ Only("dns")
    \/ which = "file" /\ Reading!Next /\ Only("file")
    \/ which = "proxy" /\ Relay!Next /\ Only("proxy")
    \/ which = "watchdog" /\ Notify!Next /\ Only("watchdog")
    \/ which = "adapter" /\ Adapter!Next /\ Only("adapter")

MCSpec == MCInit /\ [][MCNext]_mcVars

Symmetry == Permutations(Tasks)

\* The type invariants of the components.
Types ==
    /\ which = "pool" => TypeOK
    /\ which = "aggregate" => Aggregate!TypeOK
    /\ which = "breaker" => Breaker!TypeOK
    /\ which = "select" => Choice!TypeOK
    /\ which = "threads" => Growing!TypeOK
    /\ which = "dns" => Zones!TypeOK
    /\ which = "file" => Reading!TypeOK
    /\ which = "proxy" => Relay!TypeOK
    /\ which = "watchdog" => Notify!TypeOK
    /\ which = "adapter" => Adapter!TypeOK

\* Aggregator, with aggregate: an execution fails for all of its callers or for none
\* (aggregate.py).
SameFate == Aggregate!SameFate

\* CircuitBreaker: it breaks because of recent failures only (circuit_breaker.py).
BreaksForAReason == Breaker!BreaksForAReason

\* ThreadPool: there are threads for the futures, up to max_workers (thread_pool.py).
GrowthKeepsUp == which = "threads" => Growing!GrowthKeepsUp
=============================================================================
