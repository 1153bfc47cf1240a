------------------------------ MODULE Adapters ------------------------------
(***************************************************************************)
(* start() and stop() of the services that run somebody else's server: the *)
(* aiohttp service (and the ASGI one over it), the uvicorn service, the    *)
(* gRPC service, the carbon sender and the profiler.                       *)
(*                                                                         *)
(* start() has several awaits, any of which may raise or be cancelled; the *)
(* entry point then joins it and calls stop() on the service all the same  *)
(* (entrypoint.py, _start_service).  stop() too may be cancelled, when the *)
(* stop() of another service raises (stop_services); one that is cancelled *)
(* before it begins does nothing at all.  The model keeps what the service *)
(* has assigned to itself, and what it has left running.                   *)
(***************************************************************************)
EXTENDS Naturals

VARIABLES
    kind,       \* which service this is
    step,       \* where its start() or stop() stands
    has,        \* the attributes that start() has assigned
    running,    \* what runs on behalf of the service
    cut         \* history: the awaits that raised or were cancelled, and "serve" for a serve task

vars == <<kind, step, has, running, cut>>

Kinds == {"aiohttp", "uvicorn", "grpc", "carbon", "profiler"}

\* What start() assigns and sets running: a site listens, a serve task and a
\* gRPC server answer, the periodic callback is called, the profiler profiles.  A
\* listener is a server of asyncio that the service has no name for.
Things == {"runner", "site", "serve_task", "listener", "server", "periodic", "profiler"}

StartAwaits == {"create_application", "make_runner", "setup", "create_site", "site_start",
                "server_start"}

StopAwaits == {"site_stop", "sleep", "cleanup", "serve_wait", "server_stop", "periodic_stop"}

TypeOK ==
    /\ kind \in Kinds
    /\ step \in {"new", "started", "failed", "stopped"} \union StartAwaits \union StopAwaits
    /\ has \subseteq Things
    /\ running \subseteq Things
    /\ cut \subseteq StartAwaits \union StopAwaits \union {"serve"}

Init ==
    /\ kind \in Kinds
    /\ step = "new"
    /\ has = {}
    /\ running = {}
    /\ cut = {}

-----------------------------------------------------------------------------
(* start(). *)

\* aiohttp: `Can not start twice', then the application is created.
StartAiohttp ==
    /\ kind = "aiohttp" /\ step = "new"
    /\ "runner" \notin has
    /\ step' = "create_application"
    /\ UNCHANGED <<kind, has, running, cut>>

\* The application of the service, or the one that carries an ASGI application.
ApplicationCreated ==
    /\ kind = "aiohttp" /\ step = "create_application"
    /\ step' = "make_runner"
    /\ UNCHANGED <<kind, has, running, cut>>

MakeRunner ==
    /\ step = "make_runner"
    /\ has' = has \union {"runner"}
    /\ step' = "setup"
    /\ UNCHANGED <<kind, running, cut>>

\* runner.setup() runs the hooks of the application.
RunnerSetup ==
    /\ step = "setup"
    /\ running' = running \union {"runner"}
    /\ step' = "create_site"
    /\ UNCHANGED <<kind, has, cut>>

\* The service with SSL creates its context in an executor before the site.
CreateSite ==
    /\ step = "create_site"
    /\ "runner" \in has
    /\ has' = has \union {"site"}
    /\ step' = "site_start"
    /\ UNCHANGED <<kind, running, cut>>

SiteStart ==
    /\ step = "site_start"
    /\ running' = running \union {"site"}
    /\ step' = "started"
    /\ UNCHANGED <<kind, has, cut>>

StartUvicorn ==
    /\ kind = "uvicorn" /\ step = "new"
    /\ step' = "create_application"
    /\ UNCHANGED <<kind, has, running, cut>>

\* Config and socket (either may raise), the server, and a task that serves.
CreateServeTask ==
    /\ kind = "uvicorn" /\ step = "create_application"
    /\ \/ /\ step' = "failed"
          /\ UNCHANGED <<has, running>>
       \/ /\ step' = "started"
          /\ has' = has \union {"server", "serve_task"}
          /\ running' = running \union {"serve_task"}
    /\ UNCHANGED <<kind, cut>>

\* The server, its ports (a port may fail to bind) and handlers, then server.start().
StartGrpc ==
    /\ kind = "grpc" /\ step = "new"
    /\ has' = has \union {"server"}
    /\ step' \in {"failed", "server_start"}
    /\ UNCHANGED <<kind, running, cut>>

GrpcStarted ==
    /\ step = "server_start"
    /\ running' = running \union {"server"}
    /\ step' = "started"
    /\ UNCHANGED <<kind, has, cut>>

\* The client that sends the counters, and the callback that makes it send.
StartCarbon ==
    /\ kind = "carbon" /\ step = "new"
    /\ has' = has \union {"periodic"}
    /\ running' = running \union {"periodic"}
    /\ step' = "started"
    /\ UNCHANGED <<kind, cut>>

StartProfiler ==
    /\ kind = "profiler" /\ step = "new"
    /\ has' = has \union {"profiler", "periodic"}
    /\ running' = running \union {"profiler", "periodic"}
    /\ step' = "started"
    /\ UNCHANGED <<kind, cut>>

\* What an await of start() leaves running when it is cut short: setup() a runner with
\* something to clean up, create_server() within site.start() a server that listens and
\* that the site does not know, server.start() a gRPC server.
LeftBehind ==
    [a \in StartAwaits |->
        CASE a = "setup" -> {"runner"} [] a = "site_start" -> {"listener"}
          [] a = "server_start" -> {"server"} [] OTHER -> {}]

\* What start() awaits raises, or start() is cancelled there.
StartFails ==
    /\ step \in StartAwaits
    /\ step' = "failed"
    /\ \E left \in {{}, LeftBehind[step]} : running' = running \union left
    /\ cut' = cut \union {step}
    /\ UNCHANGED <<kind, has>>

-----------------------------------------------------------------------------
(* What runs. *)

\* serve() has run the lifespan and listens.
Listens ==
    /\ step \in {"started", "serve_wait"}
    /\ "serve_task" \in running
    /\ running' = running \union {"listener"}
    /\ UNCHANGED <<kind, step, has, cut>>

\* serve() returns after its shutdown(), or before it listens, or it raises, which skips
\* shutdown() and leaves the servers listening.
ServeReturns == running' = running \ {"serve_task", "listener"} /\ UNCHANGED cut
ServeRaises == running' = running \ {"serve_task"} /\ cut' = cut \union {"serve"}

\* The serve task may end by itself: the lifespan failed, a signal came, a crash.
ServeEnds ==
    /\ step = "started"
    /\ "serve_task" \in running
    /\ ServeReturns \/ ServeRaises
    /\ UNCHANGED <<kind, step, has>>

\* The callback of the profiler: Stats() disables it and the last line enables it again.
SaveStats ==
    /\ kind = "profiler"
    /\ "periodic" \in running
    /\ running' = running \union {"profiler"}
    /\ UNCHANGED <<kind, step, has, cut>>

-----------------------------------------------------------------------------
(* stop(), once start() is over. *)

\* FAULT: the runner is cleaned up after the site was stopped, without `finally'.
StopAiohttpPlainly ==
    /\ kind = "aiohttp" /\ step \in {"started", "failed"}
    /\ step' = IF "site" \in has THEN "site_stop" ELSE "stopped"
    /\ running' = running \ {"site"}
    /\ UNCHANGED <<kind, has, cut>>

\* site.stop() closes the socket at once; without a site, `self.site' raises
\* and the `finally' goes on to the sleep(0).
StopAiohttp ==
    /\ kind = "aiohttp" /\ step \in {"started", "failed"}
    /\ step' = IF "site" \in has THEN "site_stop" ELSE "sleep"
    /\ running' = IF "site" \in has THEN running \ {"site"} ELSE running
    /\ UNCHANGED <<kind, has, cut>>

\* site.stop() returned, raised or was cancelled.
SiteStopped ==
    /\ step = "site_stop"
    /\ step' = "sleep"
    /\ cut' \in {cut, cut \union {"site_stop"}}
    /\ UNCHANGED <<kind, has, running>>

SleptOnce ==
    /\ step = "sleep"
    /\ step' = IF "runner" \in has THEN "cleanup" ELSE "stopped"
    /\ UNCHANGED <<kind, has, running, cut>>

CleanedUp ==
    /\ step = "cleanup"
    /\ running' = running \ {"runner", "site"}
    /\ step' = "stopped"
    /\ UNCHANGED <<kind, has, cut>>

\* should_exit = True, then the serve task is awaited; without a server the first line raises.
StopUvicorn ==
    /\ kind = "uvicorn" /\ step \in {"started", "failed"}
    /\ step' = IF "server" \in has THEN "serve_wait" ELSE "stopped"
    /\ UNCHANGED <<kind, has, running, cut>>

\* The serve task is over: it has seen should_exit, has raised, or has got the cancellation
\* of stop(), which is raised within serve().
Served ==
    /\ step = "serve_wait"
    /\ IF "serve_task" \in running THEN ServeReturns \/ ServeRaises ELSE UNCHANGED <<running, cut>>
    /\ step' = "stopped"
    /\ UNCHANGED <<kind, has>>

\* server.stop(GRACEFUL_STOP_TIME) refuses new calls at once and waits for the others.
StopGrpc ==
    /\ kind = "grpc" /\ step \in {"started", "failed"}
    /\ running' = running \ {"server"}
    /\ step' = "server_stop"
    /\ UNCHANGED <<kind, has, cut>>

\* The task of the periodic callback is cancelled, and awaited behind a shield.
StopPeriodic ==
    /\ kind \in {"carbon", "profiler"} /\ step = "started"
    /\ step' = "periodic_stop"
    /\ UNCHANGED <<kind, has, running, cut>>

\* The cancelled task ends, whether stop() still waits for it or not.
PeriodicEnds ==
    /\ step \in {"periodic_stop", "stopped"}
    /\ "periodic" \in running
    /\ running' = running \ {"periodic"}
    /\ UNCHANGED <<kind, step, has, cut>>

\* The profiler is disabled when the last call of the callback is over.
StopReturns ==
    /\ step \in {"server_stop", "periodic_stop"}
    /\ "periodic" \notin running
    /\ running' = running \ {"profiler"}
    /\ step' = "stopped"
    /\ UNCHANGED <<kind, has, cut>>

\* stop() is cancelled, or runner.cleanup() raises, after which there is nothing more to do.
StopCancelled ==
    /\ step \in {"sleep", "cleanup", "server_stop", "periodic_stop"}
    /\ cut' = cut \union {step}
    /\ step' = "stopped"
    /\ UNCHANGED <<kind, has, running>>

-----------------------------------------------------------------------------
Next ==
    \/ StartAiohttp \/ ApplicationCreated \/ MakeRunner \/ RunnerSetup \/ CreateSite \/ SiteStart
    \/ StartUvicorn \/ CreateServeTask
    \/ StartGrpc \/ GrpcStarted
    \/ StartCarbon \/ StartProfiler
    \/ StartFails
    \/ Listens \/ ServeEnds \/ SaveStats
    \/ StopAiohttp \/ SiteStopped \/ SleptOnce \/ CleanedUp
    \/ StopUvicorn \/ Served
    \/ StopGrpc \/ StopPeriodic \/ PeriodicEnds \/ StopReturns \/ StopCancelled

Spec == Init /\ [][Next]_vars

\* Wherever start() was cut short, once stop() is over no site, no gRPC server and no serve
\* task is left; the runner is cleaned up, also if site.stop() raised or there was no site;
\* the callback is over and the profiler off.  Each exception has a cause of its own: the
\* runner, if stop() was cancelled at its sleep(0) or the cleanup itself was cut short; the
\* callback and the profiler, if stop() was cancelled while it waited for them; a listener,
\* if site.start() or serve() was cut short while it listened (aiohttp.py:87-107,
\* uvicorn.py:118-129, grpc_server.py:78-106, profiler.py:25-54).
StopReleases ==
    step = "stopped" =>
        /\ running \intersect {"site", "serve_task", "server"} = {}
        /\ "runner" \in running => cut \intersect {"sleep", "cleanup"} # {}
        /\ running \intersect {"periodic", "profiler"} # {} => "periodic_stop" \in cut
        /\ "listener" \in running => cut \intersect {"site_start", "serve"} # {}
=============================================================================
