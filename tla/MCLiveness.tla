----------------------------- MODULE MCLiveness -----------------------------
(***************************************************************************)
(* Components that share no state, side by side as in MCSafety, and what   *)
(* has to happen in them: the event loop runs every task that can run, the *)
(* threads go on, and what is cancelled ends.                              *)
(***************************************************************************)
EXTENDS LoopParts, Sequences, FiniteSets

CONSTANTS
    Components,                                     \* the components of this run
    Clients, MaxSize, Instances, Faults, Nothing,   \* Pool
    Records, Sizes, Pill,                           \* LogHandler
    Events, Workers, QSize, Idle,                   \* Transport
    ConnectAttempts,                                \* TcpClient
    Peers                                           \* Server

VARIABLES
    which,
    semaphore, len, instances, used, recycle_bin, recycler, expired, destroyed, born, pc,
    inst, closing, doubtful,
    buffered, queue_size, queue, lock, logger, thread, closer, close_event, handled,
    queued, event, ready, t_queue, worker, t_closing, t_closer, gathered, late,
    robust, tls, peer, client, attempt, connected, start_event, stopped,
    proto, server, listening, handler, cancelled

Instance == INSTANCE Pool
Logging == INSTANCE LogHandler
Sentry == INSTANCE Transport WITH queue <- t_queue, closing <- t_closing, closer <- t_closer
Robust == INSTANCE TcpClient
Accepting == INSTANCE Server

ASSUME ConstantsAssumption ==
    /\ Instance!SizesAssumption /\ Instance!FaultsAssumption
    /\ Components \subseteq {"pool", "recurring", "backoff", "log", "transport", "client", "server",
                             "process"}

poolVars == <<semaphore, len, instances, used, recycle_bin, recycler, expired, destroyed, born, pc,
              inst, closing, doubtful>>
logVars == <<buffered, queue_size, queue, lock, logger, thread, closer, close_event, handled>>
transportVars == <<queued, event, ready, t_queue, worker, t_closing, t_closer, gathered, late>>
clientVars == <<robust, tls, peer, client, attempt, connected, start_event, stopped>>
serverVars == <<proto, server, listening, handler, cancelled>>
vars == <<which, poolVars, recurringVars, backoffVars, logVars, transportVars, clientVars,
          serverVars, processVars>>

\* The options of a component vary where it runs.
Init ==
    /\ which \in Components
    /\ Instance!Init /\ Callback!Init /\ Execution!Init /\ Logging!Init
    /\ Sentry!Init /\ Robust!Init /\ Accepting!Init /\ Forking!Init
    /\ which # "recurring" => r_kind = "periodic" /\ shielded
    /\ which # "backoff" => options = CHOOSE o \in Execution!Options : TRUE
    /\ which # "log" => buffered /\ queue_size = CHOOSE n \in Sizes : TRUE
    /\ which # "transport" => queued
    /\ which # "client" => robust /\ tls
    /\ which # "server" => proto = "tcp"
    /\ which # "process" => respawning

\* A step of the component `name' is a step of no other.
Only(name) ==
    /\ which = name /\ UNCHANGED which
    /\ name # "pool" => UNCHANGED poolVars
    /\ name # "recurring" => UNCHANGED recurringVars
    /\ name # "backoff" => UNCHANGED backoffVars
    /\ name # "log" => UNCHANGED logVars
    /\ name # "transport" => UNCHANGED transportVars
    /\ name # "client" => UNCHANGED clientVars
    /\ name # "server" => UNCHANGED serverVars
    /\ name # "process" => UNCHANGED processVars

Next ==
    \/ which = "pool" /\ Instance!Next /\ Only("pool")
    \/ which = "recurring" /\ Callback!Next /\ Only("recurring")
    \/ which = "backoff" /\ Execution!Next /\ Only("backoff")
    \/ which = "log" /\ Logging!Next /\ Only("log")
    \/ which = "transport" /\ Sentry!Next /\ Only("transport")
    \/ which = "client" /\ Robust!Next /\ Only("client")
    \/ which = "server" /\ Accepting!Next /\ Only("server")
    \/ which = "process" /\ Forking!Next /\ Only("process")

Spec == Init /\ [][Next]_vars

\* Creating, checking and destroying an instance ends, clients release what they have
\* acquired, and nobody has to acquire.
PoolFairness ==
    /\ \A c \in Clients : WF_vars(which = "pool" /\ Instance!ClientStep(c) /\ Only("pool"))
    /\ WF_vars(which = "pool" /\ Instance!RecyclerTake /\ Only("pool"))
    /\ WF_vars(which = "pool" /\ Instance!RecyclerDone /\ Only("pool"))

\* The task of a callback goes on; its function ends, by itself or once it is cancelled.
\* Nobody has to start or to stop the service.
RecurringFairness ==
    /\ \A c \in Callbacks :
          /\ WF_vars(which = "recurring" /\ Callback!Task(c) /\ Only("recurring"))
          /\ WF_vars(which = "recurring" /\ Callback!Exec(c) /\ Only("recurring"))
    /\ WF_vars(which = "recurring" /\ Callback!StopReturns /\ Only("recurring"))

\* The thread of the handler goes on, and so does a thread within emit().
LogFairness ==
    /\ WF_vars(which = "log" /\ Logging!InThread /\ Only("log"))
    /\ \A r \in Records :
          WF_vars(which = "log" /\ (Logging!Emit(r) \/ Logging!EmitRaises(r)) /\ Only("log"))

\* The event loop runs its callbacks and the tasks of the transport; a request ends.
TransportFairness ==
    /\ WF_vars(which = "transport" /\ Sentry!Callback /\ Only("transport"))
    /\ WF_vars(which = "transport" /\ (Sentry!CloseReturns \/ Sentry!TasksGathered) /\ Only("transport"))
    /\ \A w \in Workers :
          WF_vars(which = "transport" /\ (Sentry!Take(w) \/ Sentry!DoSend(w)) /\ Only("transport"))
    /\ WF_vars(which = "transport" /\ (\E e \in Events : Sentry!TaskSends(e)) /\ Only("transport"))

\* start() goes on; a server that is up again and again accepts at last, and the SSL
\* context can be built at last.
ClientFairness ==
    /\ WF_vars(which = "client" /\ Robust!Work /\ Only("client"))
    /\ SF_vars(which = "client" /\ Robust!Context /\ Only("client"))
    /\ SF_vars(which = "client" /\ Robust!Connected /\ Only("client"))

\* stop() goes on, and a handler ends once it is cancelled.
ServerFairness ==
    /\ WF_vars(which = "server" /\ (Accepting!Close \/ Accepting!WaitClosedTimeout) /\ Only("server"))
    /\ \A p \in Peers :
          WF_vars(which = "server" /\ handler[p] = "cancelling" /\ Accepting!HandlerEnds(p) /\ Only("server"))

FairSpec ==
    /\ Spec /\ PoolFairness /\ RecurringFairness /\ LogFairness
    /\ TransportFairness /\ ClientFairness /\ ServerFairness
-----------------------------------------------------------------------------
\* The type invariants of the components.
Types ==
    /\ Instance!TypeOK /\ Callback!TypeOK /\ Execution!TypeOK /\ Logging!TypeOK
    /\ Sentry!TypeOK /\ Robust!TypeOK /\ Accepting!TypeOK /\ Forking!TypeOK

\* Pool: once the last client has asked, everyone who waits gets an instance (pool.py).
AcquireReturns == Instance!AcquireReturns

\* LogHandler: a record that was taken reaches the target (log.py).
RecordsAreHandled == Logging!RecordsAreHandled

\* Transport: an event gets its callback or its errorback (service/raven.py).
EventsAreAnswered == Sentry!EventsAreAnswered

\* Transport: close() ends, and ends well (service/raven.py).
CloseEndsWell == Sentry!CloseEndsWell

\* TcpClient: a robust client is connected again (service/tcp.py).
Reconnects == which = "client" => Robust!Reconnects

\* Server: stop() of a server returns (service/tcp.py, udp.py).
ServerStops == Accepting!ServerStops
=============================================================================
