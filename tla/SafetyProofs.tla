---------------------------- MODULE SafetyProofs ----------------------------
(***************************************************************************)
(* Theorems about the components of SafeParts and LoopParts.  Each has an  *)
(* invariant of its own, which its steps keep, for every value of the      *)
(* constants.                                                              *)
(***************************************************************************)
EXTENDS SafeParts, LoopParts, WellFoundedInduction, TLAPS

-----------------------------------------------------------------------------
(* Select. *)

\* What select() leaves is decided by the tasks that are pending where it is.
SelectInv == Choice!TypeOK /\ SelectLeavesNothing

\* Every step of select() and of its tasks keeps the invariant (utils.py).
LEMMA SelectStep ==
    ASSUME SelectInv, [Choice!Next]_(Choice!vars)
    PROVE  SelectInv'
<1> USE DEF SelectInv, SelectLeavesNothing, Choice!SelectLeavesNothing, Choice!PendingFutures,
            Choice!Config, Choice!TypeOK
<1>1. ASSUME NEW a \in Tasks, NEW end \in {"returned", "raised"}, Choice!Waiter(a, end)
      PROVE  SelectInv'
  BY <1>1, Zenon DEF Choice!Waiter, Choice!SetResult
<1>2. ASSUME NEW a \in Tasks, Choice!WaiterCancelled(a)
      PROVE  SelectInv'
  BY <1>2 DEF Choice!WaiterCancelled
<1>3. CASE Choice!FirstCompleted \/ Choice!Timeout
  BY <1>3 DEF Choice!FirstCompleted, Choice!Timeout, Choice!CancelPending, Choice!CancelTasks,
              Choice!SetException, Choice!Result
<1>4. CASE Choice!Cancelled \/ Choice!Unwound
  BY <1>4 DEF Choice!Cancelled, Choice!Unwound, Choice!Result
<1>5. CASE Choice!CancelCaller
  BY <1>5 DEF Choice!CancelCaller, Choice!CancelTasks, Choice!SetException
<1>6. CASE UNCHANGED Choice!vars
  BY <1>6 DEF Choice!vars
<1> QED BY <1>1, <1>2, <1>3, <1>4, <1>5, <1>6 DEF Choice!Next, Choice!Run

\* When select() is over it has left no task behind, if it cancels and waits or if its caller was
\* cancelled, for any number of awaitables and all of its options (utils.py).
THEOREM NoTaskBehind == Choice!Spec => []SelectLeavesNothing
<1>1. Choice!Init => SelectInv
  BY Zenon DEF SelectInv, SelectLeavesNothing, Choice!SelectLeavesNothing, Choice!Init, Choice!TypeOK
<1>2. SelectInv /\ [Choice!Next]_(Choice!vars) => SelectInv'
  BY SelectStep
<1>3. SelectInv => SelectLeavesNothing
  BY DEF SelectInv
<1> QED BY <1>1, <1>2, <1>3, PTL DEF Choice!Spec

-----------------------------------------------------------------------------
(* Adapters. *)

\* What may run at each step of each kind of service: only what start() has assigned, so that
\* stop() finds it, and not after the step of stop() that ends it.
AdapterInv ==
    /\ Adapter!TypeOK /\ StopReleases
    /\ kind = "aiohttp" =>
        /\ step \in {"new", "create_application", "make_runner", "setup", "create_site", "site_start",
                     "started", "failed", "site_stop", "sleep", "cleanup", "stopped"}
        /\ running \subseteq {"runner", "site", "listener"} /\ running \subseteq has \cup {"listener"}
        /\ step = "setup" => "runner" \in has
        /\ step = "site_start" => "site" \in has
        /\ step \in {"site_stop", "sleep", "cleanup"} => "site" \notin running
        /\ "listener" \in running => "site_start" \in cut
    /\ kind = "uvicorn" =>
        /\ step \in {"new", "create_application", "started", "failed", "serve_wait", "stopped"}
        /\ running \subseteq {"serve_task", "listener"}
        /\ "serve_task" \in running => "server" \in has
        /\ "listener" \in running => "serve_task" \in running \/ "serve" \in cut
    /\ kind = "grpc" =>
        /\ step \in {"new", "server_start", "started", "failed", "server_stop", "stopped"}
        /\ running \subseteq {"server"}
        /\ step = "server_stop" => running = {}
    /\ kind \in {"carbon", "profiler"} =>
        /\ step \in {"new", "started", "periodic_stop", "stopped"}
        /\ running \subseteq {"periodic", "profiler"}

\* Every step of start() and stop(), and of what runs, keeps the invariant (the services of
\* aiomisc/service that run another server).
LEMMA AdapterStep ==
    ASSUME AdapterInv, [Adapter!Next]_(Adapter!vars)
    PROVE  AdapterInv'
<1> USE DEF AdapterInv, StopReleases, Adapter!StopReleases, Adapter!TypeOK, Adapter!Kinds,
            Adapter!Things, Adapter!StartAwaits, Adapter!StopAwaits
<1>1. CASE Adapter!StartAiohttp \/ Adapter!ApplicationCreated \/ Adapter!MakeRunner
  BY <1>1, Zenon DEF Adapter!StartAiohttp, Adapter!ApplicationCreated, Adapter!MakeRunner
<1>2. CASE Adapter!RunnerSetup \/ Adapter!CreateSite \/ Adapter!SiteStart
  BY <1>2, Zenon DEF Adapter!RunnerSetup, Adapter!CreateSite, Adapter!SiteStart
<1>3. CASE Adapter!StartUvicorn \/ Adapter!CreateServeTask
  BY <1>3, Zenon DEF Adapter!StartUvicorn, Adapter!CreateServeTask
<1>4. CASE Adapter!StartGrpc \/ Adapter!GrpcStarted
  BY <1>4, Zenon DEF Adapter!StartGrpc, Adapter!GrpcStarted
<1>5. CASE Adapter!StartCarbon \/ Adapter!StartProfiler
  BY <1>5, Zenon DEF Adapter!StartCarbon, Adapter!StartProfiler
<1>6. CASE Adapter!StartFails
  BY <1>6 DEF Adapter!StartFails, Adapter!LeftBehind
<1>7. CASE Adapter!Listens \/ Adapter!ServeEnds \/ Adapter!SaveStats
  BY <1>7 DEF Adapter!Listens, Adapter!ServeEnds, Adapter!ServeReturns, Adapter!ServeRaises,
              Adapter!SaveStats
<1>8. CASE Adapter!StopAiohttp \/ Adapter!SiteStopped \/ Adapter!SleptOnce \/ Adapter!CleanedUp
  BY <1>8, Zenon DEF Adapter!StopAiohttp, Adapter!SiteStopped, Adapter!SleptOnce, Adapter!CleanedUp
<1>9. CASE Adapter!StopUvicorn \/ Adapter!StopGrpc
  BY <1>9 DEF Adapter!StopUvicorn, Adapter!StopGrpc
<1>13. CASE Adapter!Served
  <2>1. kind = "uvicorn" /\ step' = "stopped" /\ UNCHANGED <<kind, has>>
    BY <1>13 DEF Adapter!Served
  <2>2. CASE "serve_task" \in running /\ Adapter!ServeReturns
    BY <2>1, <2>2 DEF Adapter!ServeReturns
  <2>3. CASE "serve_task" \in running /\ Adapter!ServeRaises
    BY <2>1, <2>3 DEF Adapter!ServeRaises
  <2>4. CASE "serve_task" \notin running /\ UNCHANGED <<running, cut>>
    BY <2>1, <2>4
  <2> QED BY <1>13, <2>2, <2>3, <2>4, Zenon DEF Adapter!Served
<1>10. CASE Adapter!StopPeriodic \/ Adapter!PeriodicEnds
  BY <1>10, Zenon DEF Adapter!StopPeriodic, Adapter!PeriodicEnds
<1>11. CASE Adapter!StopReturns \/ Adapter!StopCancelled
  BY <1>11, Zenon DEF Adapter!StopReturns, Adapter!StopCancelled
<1>12. CASE UNCHANGED Adapter!vars
  BY <1>12 DEF Adapter!vars
<1> QED BY <1>1, <1>2, <1>3, <1>4, <1>5, <1>6, <1>7, <1>8, <1>9, <1>10, <1>11, <1>12, <1>13, Zenon DEF Adapter!Next

\* Once stop() is over, no site, gRPC server or serve task is left, wherever start() was cut short;
\* and a runner, a callback, a profiler or a listener only if the await that takes care of it was
\* (service/aiohttp.py, service/uvicorn.py, service/grpc_server.py, service/carbon.py,
\* service/profiler.py).
THEOREM AllReleased == Adapter!Spec => []StopReleases
<1>1. Adapter!Init => AdapterInv
  BY Zenon DEF AdapterInv, StopReleases, Adapter!StopReleases, Adapter!Init, Adapter!TypeOK, Adapter!Kinds
<1>2. AdapterInv /\ [Adapter!Next]_(Adapter!vars) => AdapterInv'
  BY AdapterStep
<1>3. AdapterInv => StopReleases
  BY DEF AdapterInv
<1> QED BY <1>1, <1>2, <1>3, PTL DEF Adapter!Spec

-----------------------------------------------------------------------------
(* Proxy. *)

\* A client is put into the set before it connects, stays there until it has, and has no pipes
\* before.
ProxyInv ==
    /\ Relay!TypeOK /\ ClientsAreTracked
    /\ \A c \in ProxyClients :
        /\ client[c] = "connecting" => c \in members
        /\ client[c] # "open" => \A d \in Relay!Directions : pipe[c][d] = "none"

\* Every step of the proxy, of its clients and of their pipes keeps the invariant (pytest.py).
LEMMA ProxyStep ==
    ASSUME ProxyInv, [Relay!Next]_(Relay!vars)
    PROVE  ProxyInv'
<1> USE DEF ProxyInv, ClientsAreTracked, Relay!ClientsAreTracked, Relay!TypeOK, Relay!Directions,
            Relay!Running
<1>1. CASE Relay!Start \/ Relay!Closed
  <2>1. /\ UNCHANGED <<delayed, client, members, slow, pipe, p_closing, connecting>>
        /\ server' \in {"serving", "closed"} /\ listening' \in BOOLEAN
    BY <1>1, Zenon DEF Relay!Start, Relay!Closed
  <2>2. Relay!TypeOK'
    BY <2>1, Zenon
  <2>3. ClientsAreTracked'
    BY <2>1
  <2> QED BY <2>1, <2>2, <2>3
<1>2. CASE Relay!SetDelay
  <2>0. /\ delayed' \in SUBSET Relay!Directions
        /\ UNCHANGED <<server, listening, client, members, p_closing, connecting>>
        /\ slow' = [c \in ProxyClients |-> IF c \in members THEN delayed' ELSE slow[c]]
        /\ pipe' = [c \in ProxyClients |-> [d \in Relay!Directions |->
                        IF c \in members THEN Relay!SetTimeout(c, d) ELSE pipe[c][d]]]
    BY <1>2, Zenon DEF Relay!SetDelay
  <2> USE DEF Relay!SetTimeout
  <2>1. Relay!TypeOK'
    <3>1. slow' \in [ProxyClients -> SUBSET Relay!Directions]
      BY <2>0
    <3>2. pipe' \in [ProxyClients -> [Relay!Directions -> {"none", "read", "delay", "cancelled", "done"}]]
      BY <2>0
    <3> QED BY <2>0, <3>1, <3>2
  <2>2. ASSUME NEW c \in ProxyClients, NEW d \in Relay!Directions
        PROVE  /\ pipe[c][d] = "none" => pipe'[c][d] = "none"
               /\ c \in members => pipe'[c][d] # "delay" /\ slow'[c] = delayed'
    BY <2>0
  <2>3. ClientsAreTracked'
    BY <2>0, <2>2
  <2> QED BY <2>0, <2>1, <2>2, <2>3
<1>3. CASE Relay!DisconnectAll \/ Relay!CloseProxy
  <2> USE DEF Relay!CloseClients
  <2>1. Relay!CloseClients /\ UNCHANGED <<client, members, slow, delayed, listening>>
        /\ server' \in {"serving", "disconnecting"}
    BY <1>3 DEF Relay!DisconnectAll, Relay!CloseProxy
  <2>2. Relay!TypeOK'
    BY <2>1
  <2>3. ClientsAreTracked'
    BY <2>1
  <2>4. ASSUME NEW c \in ProxyClients
        PROVE  /\ client'[c] = "connecting" => c \in members'
               /\ client'[c] # "open" => \A d \in Relay!Directions : pipe'[c][d] = "none"
    BY <2>1
  <2> QED BY <2>2, <2>3, <2>4
<1>4. CASE Relay!CloseTimeout
  BY <1>4 DEF Relay!CloseTimeout
<1>5. ASSUME NEW c \in ProxyClients, Relay!HandleClient(c) PROVE ProxyInv'
  BY <1>5 DEF Relay!HandleClient, Relay!NewClient
<1>6. ASSUME NEW c \in ProxyClients, Relay!Connect(c) PROVE ProxyInv'
  BY <1>6 DEF Relay!Connect
<1>7. ASSUME NEW c \in ProxyClients, Relay!ConnectFails(c) PROVE ProxyInv'
  BY <1>7 DEF Relay!ConnectFails
<1>8. ASSUME NEW c \in ProxyClients, Relay!ClientClosed(c) PROVE ProxyInv'
  BY <1>8 DEF Relay!ClientClosed
<1>9. ASSUME NEW c \in ProxyClients, NEW d \in Relay!Directions,
             Relay!Read(c, d) \/ Relay!DelayEnds(c, d) \/ Relay!PipeEnds(c, d)
      PROVE  ProxyInv'
  <2>1. /\ UNCHANGED <<server, listening, delayed, client, members, slow, p_closing, connecting>>
        /\ pipe[c][d] # "none"
        /\ \E s \in {"read", "delay", "done"} :
              pipe' = [pipe EXCEPT ![c][d] = s] /\ (s = "delay" => d \in slow[c])
    BY <1>9 DEF Relay!Read, Relay!DelayEnds, Relay!PipeEnds, Relay!SetPipe
  <2>2. PICK s \in {"read", "delay", "done"} :
              pipe' = [pipe EXCEPT ![c][d] = s] /\ (s = "delay" => d \in slow[c])
    BY <2>1
  <2>3. Relay!TypeOK'
    BY <2>1, <2>2
  <2>4. ASSUME NEW b \in ProxyClients, NEW e \in Relay!Directions
        PROVE  pipe'[b][e] = IF b = c /\ e = d THEN s ELSE pipe[b][e]
    BY <2>2
  <2>5. ClientsAreTracked'
    BY <2>1, <2>2, <2>4
  <2>6. ASSUME NEW b \in ProxyClients, client[b] # "open"
        PROVE  \A e \in Relay!Directions : pipe'[b][e] = "none"
    BY <2>1, <2>4, <2>6
  <2>7. client' = client /\ members' = members
    BY <2>1
  <2>8. \A b \in ProxyClients :
            /\ client'[b] = "connecting" => b \in members'
            /\ client'[b] # "open" => \A e \in Relay!Directions : pipe'[b][e] = "none"
    <3> HIDE DEF ClientsAreTracked, Relay!TypeOK, Relay!Directions
    <3> QED BY <2>6, <2>7
  <2> QED BY <2>3, <2>5, <2>8, Zenon
<1>10. CASE UNCHANGED Relay!vars
  BY <1>10 DEF Relay!vars
<1> HIDE DEF ProxyInv, Relay!Directions
<1> QED BY <1>1, <1>2, <1>3, <1>4, <1>5, <1>6, <1>7, <1>8, <1>9, <1>10, Zenon DEF Relay!Next

\* self.clients holds a connected client exactly until it is closed, and set_delay() has reached
\* every client in it and every chunk that its pipes hold back, however many clients there are
\* and in whichever order they connect, fail and are closed (pytest.py).
THEOREM EveryClientTracked == Relay!Spec => []ClientsAreTracked
<1>1. Relay!Init => ProxyInv
  <2> SUFFICES ASSUME Relay!Init PROVE ProxyInv
    OBVIOUS
  <2>1. Relay!TypeOK
    BY Zenon DEF Relay!Init, Relay!TypeOK, Relay!Directions
  <2> QED BY <2>1 DEF ProxyInv, ClientsAreTracked, Relay!ClientsAreTracked, Relay!Init
<1>2. ProxyInv /\ [Relay!Next]_(Relay!vars) => ProxyInv'
  BY ProxyStep
<1>3. ProxyInv => ClientsAreTracked
  BY DEF ProxyInv
<1> QED BY <1>1, <1>2, <1>3, PTL DEF Relay!Spec

-----------------------------------------------------------------------------
(* Watchdog. *)

Notifications == {"STARTING", "USEC", "STARTED", "READY", "WATCHDOG", "HALTING", "STOPPING"}

Told(message) == \E k \in 1 .. Len(sent) : sent[k] = message

\* The announcements of the end come from the last stages, and STOPPING=1 after the timer unless
\* stop() was skipped.
WatchdogInv ==
    /\ Notify!TypeOK /\ NothingAfterStopping
    /\ w_stage \in {"stopping", "post_stop", "disconnect"} => skipped \/ timer \in {"none", "over"}
    /\ Told("STOPPING") =>
        (skipped \/ timer \in {"none", "over"}) /\ w_stage \in {"disconnect", "over"}
    /\ Told("HALTING") => w_stage \in {"stop", "stopping", "post_stop", "disconnect", "over"}

\* A notification is put behind the others (send(), service/sdwatchdog.py).
LEMMA TellFacts ==
    ASSUME sent \in Seq(Notifications), NEW m \in Notifications, NothingAfterStopping,
           sent' = Append(sent, m), skipped' = skipped,
           Told("STOPPING") => skipped /\ m = "WATCHDOG", Told("HALTING") => m # "READY"
    PROVE  /\ sent' \in Seq(Notifications) /\ NothingAfterStopping'
           /\ Told("STOPPING")' => Told("STOPPING") \/ m = "STOPPING"
           /\ Told("HALTING")' => Told("HALTING") \/ m = "HALTING"
<1>1. /\ sent' \in Seq(Notifications) /\ Len(sent') = Len(sent) + 1 /\ sent'[Len(sent) + 1] = m
      /\ \A k \in 1 .. Len(sent) : sent'[k] = sent[k]
  OBVIOUS
<1>2. Len(sent) \in Nat
  OBVIOUS
<1>3. NothingAfterStopping'
  BY <1>1, <1>2 DEF NothingAfterStopping, Notify!NothingAfterStopping, Told
<1>4. /\ Told("STOPPING")' => Told("STOPPING") \/ m = "STOPPING"
      /\ Told("HALTING")' => Told("HALTING") \/ m = "HALTING"
  BY <1>1, <1>2 DEF Told
<1> QED BY <1>1, <1>3, <1>4

\* Every stage of the entrypoint and every tick of the timer keeps the invariant
\* (service/sdwatchdog.py).
LEMMA WatchdogStep ==
    ASSUME WatchdogInv, [Notify!Next]_(Notify!vars)
    PROVE  WatchdogInv'
<1> USE DEF WatchdogInv, Notify!TypeOK, Notify!Goto, Notifications
<1>0. CASE UNCHANGED sent
  <2>1. Told("STOPPING")' = Told("STOPPING") /\ Told("HALTING")' = Told("HALTING")
    BY <1>0 DEF Told
  <2>0. skipped => skipped'
    BY DEF Notify!Next, Notify!vars, Notify!Connect, Notify!Skip, Notify!PreStart, Notify!Start,
           Notify!CancelStart, Notify!StartTimer, Notify!PostStart, Notify!Ready, Notify!Leave,
           Notify!PreStop, Notify!Stop, Notify!Stopped, Notify!PostStop, Notify!Disconnect,
           Notify!Abort, Notify!AbortStop, Notify!Timer, Notify!TimerSends
  <2>2. NothingAfterStopping' /\ sent' \in Seq(Notifications)
    BY <1>0, <2>0 DEF NothingAfterStopping, Notify!NothingAfterStopping
  <2>3. CASE UNCHANGED Notify!vars
    BY <2>1, <2>2, <2>3 DEF Notify!vars
  <2>4. CASE Notify!Connect \/ Notify!Skip \/ Notify!PreStart \/ Notify!Start \/ Notify!CancelStart
    BY <2>1, <2>2, <2>4, Zenon DEF Notify!Connect, Notify!Skip, Notify!PreStart, Notify!Start, Notify!CancelStart
  <2>5. CASE Notify!StartTimer \/ Notify!PostStart \/ Notify!Ready \/ Notify!Leave
    BY <2>1, <2>2, <2>5 DEF Notify!StartTimer, Notify!PostStart, Notify!Ready, Notify!Leave
  <2>6. CASE Notify!PreStop \/ Notify!Stop \/ Notify!Stopped \/ Notify!PostStop
    BY <2>1, <2>2, <2>6 DEF Notify!PreStop, Notify!Stop, Notify!Stopped, Notify!PostStop
  <2>7. CASE Notify!Disconnect \/ Notify!Abort \/ Notify!AbortStop
    BY <2>1, <2>2, <2>7, Zenon DEF Notify!Disconnect, Notify!Abort, Notify!AbortStop
  <2>8. CASE Notify!Timer \/ Notify!TimerSends
    BY <2>1, <2>2, <2>8 DEF Notify!Timer, Notify!TimerSends
  <2> QED BY <2>3, <2>4, <2>5, <2>6, <2>7, <2>8 DEF Notify!Next
<1>1. CASE sent' # sent
  <2>1. CASE Notify!PreStart
    <3>1. sent' = Append(sent, "STARTING") /\ ~Told("STOPPING") /\ ~Told("HALTING")
      BY <1>1, <2>1 DEF Notify!PreStart, Notify!Send
    <3> QED BY <2>1, <3>1, TellFacts DEF Notify!PreStart
  <2>2. CASE Notify!StartTimer
    <3>1. sent' = Append(sent, "USEC") /\ ~Told("STOPPING") /\ ~Told("HALTING")
      BY <1>1, <2>2 DEF Notify!StartTimer, Notify!Send
    <3> QED BY <2>2, <3>1, TellFacts DEF Notify!StartTimer
  <2>3. CASE Notify!PostStart
    <3>1. sent' = Append(sent, "STARTED") /\ ~Told("STOPPING") /\ ~Told("HALTING")
      BY <1>1, <2>3 DEF Notify!PostStart, Notify!Send
    <3> QED BY <2>3, <3>1, TellFacts DEF Notify!PostStart
  <2>4. CASE Notify!Ready
    <3>1. sent' = Append(sent, "READY") /\ ~Told("STOPPING") /\ ~Told("HALTING")
      BY <1>1, <2>4 DEF Notify!Ready, Notify!Send
    <3> QED BY <2>4, <3>1, TellFacts DEF Notify!Ready
  <2>5. CASE Notify!PreStop
    <3>1. sent' = Append(sent, "HALTING") /\ ~Told("STOPPING") /\ ~Told("HALTING")
      BY <1>1, <2>5 DEF Notify!PreStop, Notify!Send
    <3> QED BY <2>5, <3>1, TellFacts DEF Notify!PreStop
  <2>6. CASE Notify!PostStop
    <3>1. sent' = Append(sent, "STOPPING") /\ ~Told("STOPPING")
      BY <1>1, <2>6 DEF Notify!PostStop, Notify!Send
    <3> QED BY <2>6, <3>1, TellFacts DEF Notify!PostStop
  <2>7. CASE Notify!TimerSends
    <3>1. sent' = Append(sent, "WATCHDOG") /\ (Told("STOPPING") => skipped)
      BY <1>1, <2>7 DEF Notify!TimerSends, Notify!Send
    <3> QED BY <2>7, <3>1, TellFacts DEF Notify!TimerSends
  <2> QED
    BY <1>1, <2>1, <2>2, <2>3, <2>4, <2>5, <2>6, <2>7, Zenon
       DEF Notify!Next, Notify!Connect, Notify!Skip, Notify!Start, Notify!CancelStart, Notify!Leave,
           Notify!Stop, Notify!Stopped, Notify!Disconnect, Notify!Abort, Notify!AbortStop, Notify!Timer,
           Notify!vars
<1> QED BY <1>0, <1>1

\* systemd hears nothing after STOPPING=1 but, if stop() was cancelled before it began, WATCHDOG=1;
\* and no READY=1 once the services stop, whatever the timer was doing and whichever start or stop
\* failed or was cancelled (service/sdwatchdog.py).
THEOREM Silent == Notify!Spec => []NothingAfterStopping
<1>1. Notify!Init => WatchdogInv
  <2> SUFFICES ASSUME Notify!Init PROVE WatchdogInv
    OBVIOUS
  <2>2. sent = <<>> /\ Len(sent) = 0
    BY DEF Notify!Init
  <2>3. NothingAfterStopping /\ ~Told("STOPPING") /\ ~Told("HALTING")
    BY <2>2 DEF NothingAfterStopping, Notify!NothingAfterStopping, Told
  <2>4. sent \in Seq(Notifications)
    BY <2>2
  <2>5. Notify!TypeOK
    BY <2>4, Zenon DEF Notify!Init, Notify!TypeOK, Notifications
  <2> QED BY <2>3, <2>5 DEF WatchdogInv, Notify!Init
<1>2. WatchdogInv /\ [Notify!Next]_(Notify!vars) => WatchdogInv'
  BY WatchdogStep
<1>3. WatchdogInv => NothingAfterStopping
  BY DEF WatchdogInv
<1> QED BY <1>1, <1>2, <1>3, PTL DEF Notify!Spec

-----------------------------------------------------------------------------
(* Dns. *)

\* A zone is found under its path in the tree; a path without a zone may be left.
DnsInv ==
    /\ nodes \subseteq Names /\ DOMAIN zone = Names
    /\ \A z \in Names : zone[z] # NoZone => z \in nodes

\* A bounded set of numbers has a greatest one.
LEMMA Greatest ==
    ASSUME NEW n \in Nat, NEW L, L \subseteq 1 .. n, L # {}
    PROVE  \E k \in L : \A j \in L : j <= k
<1> DEFINE T == {m \in Nat : \E k \in L : m + k = n}
           Less == OpToRel(<, Nat)
<1>0. \A k \in L : k \in Nat /\ k <= n
  OBVIOUS
<1>1. T \subseteq Nat /\ \A k \in L : n - k \in T
  BY <1>0
<1>2. PICK x \in T : \A y \in T : <<y, x>> \notin Less
  <2>1. T # {}
    BY <1>1, Zenon
  <2> HIDE DEF T
  <2> QED BY <1>1, <2>1, NatLessThanWellFounded, WFMin, Zenon
<1>3. \A y \in T : ~(y < x)
  BY <1>1, <1>2, Zenon DEF OpToRel
<1>4. PICK k \in L : x + k = n
  OBVIOUS
<1>5. ASSUME NEW j \in L PROVE j <= k
  <2>1. ~(n - j < x)
    BY <1>1, <1>3
  <2> QED BY <2>1, <1>0, <1>4
<1> QED BY <1>5

\* The prefixes of a name are as many as its labels, and each has a length of its own.
LEMMA PrefixFacts ==
    ASSUME NEW name \in Names
    PROVE  /\ Len(name) \in Nat /\ name \in Zones!Prefixes(name)
           /\ \A p \in Zones!Prefixes(name) :
                p \in Names /\ Len(p) \in 1 .. Len(name) /\ p = SubSeq(name, 1, Len(p))
<1>1. name \in Seq(STRING) /\ name # <<>> /\ Zones!Prefixes(name) \subseteq Names
  BY PartsAssumption
<1>2. Len(name) \in Nat /\ Len(name) >= 1
  BY <1>1
<1>3. SubSeq(name, 1, Len(name)) = name
  BY <1>1
<1>4. \A k \in 1 .. Len(name) : Len(SubSeq(name, 1, k)) = k
  BY <1>1, <1>2
<1>5. ASSUME NEW p \in Zones!Prefixes(name)
      PROVE  p \in Names /\ Len(p) \in 1 .. Len(name) /\ p = SubSeq(name, 1, Len(p))
  <2>1. PICK k \in 1 .. Len(name) : p = SubSeq(name, 1, k)
    BY DEF Zones!Prefixes
  <2> QED BY <1>1, <1>4, <2>1
<1>6. name \in Zones!Prefixes(name)
  <2>1. Len(name) \in 1 .. Len(name)
    BY <1>2
  <2>2. SubSeq(name, 1, Len(name)) \in Zones!Prefixes(name)
    BY <2>1, Zenon DEF Zones!Prefixes
  <2> QED BY <1>3, <2>2, Zenon
<1> QED BY <1>2, <1>5, <1>6

\* Among prefixes of one name there is a longest, and only one.
LEMMA LongestFacts ==
    ASSUME NEW name \in Names, NEW P, P \subseteq Zones!Prefixes(name), P # {}
    PROVE  /\ Zones!Longest(P) \in P
           /\ \A q \in P : Len(q) <= Len(Zones!Longest(P))
           /\ \A p \in P : (\A q \in P : Len(q) <= Len(p)) => p = Zones!Longest(P)
<1> DEFINE L == {k \in 1 .. Len(name) : SubSeq(name, 1, k) \in P}
<1>1. \A p \in P : Len(p) \in L /\ p = SubSeq(name, 1, Len(p))
  BY PrefixFacts, Zenon
<1>2. PICK k \in L : \A j \in L : j <= k
  <2>1. Len(name) \in Nat /\ L \subseteq 1 .. Len(name) /\ L # {}
    BY <1>1, PrefixFacts
  <2> HIDE DEF L
  <2> QED BY <2>1, Greatest, Zenon
<1>3. \E p \in P : \A q \in P : Len(q) <= Len(p)
  <2>1. SubSeq(name, 1, k) \in P /\ Len(SubSeq(name, 1, k)) = k
    BY <1>2, PrefixFacts, PartsAssumption
  <2> QED BY <2>1, <1>1, <1>2, Zenon
<1>4. /\ Zones!Longest(P) \in P
      /\ \A q \in P : Len(q) <= Len(Zones!Longest(P))
  BY <1>3 DEF Zones!Longest
<1>5. ASSUME NEW p \in P, \A q \in P : Len(q) <= Len(p)
      PROVE  p = Zones!Longest(P)
  <2>1. Len(p) = Len(Zones!Longest(P))
    BY <1>1, <1>4, <1>5
  <2> QED BY <2>1, <1>1, <1>4, Zenon
<1> QED BY <1>4, <1>5

\* Adding and removing zones and records keeps the invariant (service/dns/store.py).
LEMMA DnsStep ==
    ASSUME DnsInv, [Zones!Next]_(Zones!vars)
    PROVE  DnsInv'
<1> USE DEF DnsInv
<1>1. ASSUME NEW z \in Names, NEW value, Zones!Insert(z, value)
      PROVE  DnsInv'
  BY <1>1, PrefixFacts DEF Zones!Insert
<1>2. ASSUME NEW z \in Names, NEW value, UNCHANGED nodes, Zones!Search(z) # NoZone,
             zone' = [zone EXCEPT ![z] = value]
      PROVE  DnsInv'
  BY <1>2 DEF Zones!Search
<1>3. ASSUME NEW Z \in SUBSET Names, Zones!ReplaceStore([z \in Z |-> {z}])
      PROVE  DnsInv'
  BY <1>3, PrefixFacts DEF Zones!ReplaceStore
<1>4. CASE UNCHANGED <<nodes, zone>>
  BY <1>4
<1>5. ASSUME NEW z \in Names, NEW records \in Zones!Small,
             Zones!AddZone(z, records) \/ Zones!ReplaceZone(z, records)
      PROVE  DnsInv'
  BY <1>1, <1>2, <1>5 DEF Zones!AddZone, Zones!ReplaceZone
<1>6. ASSUME NEW z \in Names, NEW r \in Names, Zones!AddRecord(z, r) \/ Zones!RemoveRecord(z, r)
      PROVE  DnsInv'
  BY <1>2, <1>6 DEF Zones!AddRecord, Zones!RemoveRecord
<1>7. ASSUME NEW z \in Names, Zones!RemoveZone(z)
      PROVE  DnsInv'
  BY <1>1, <1>7 DEF Zones!RemoveZone
<1> QED BY <1>3, <1>4, <1>5, <1>6, <1>7, Zenon DEF Zones!Next, Zones!HandleRequest, Zones!vars

\* The tree gives the path of the last node on the way: if that node has a zone, it is the closest.
LEMMA ClosestZone ==
    ASSUME DnsInv
    PROVE  Zones!OnlyTheClosestZone
<1> SUFFICES ASSUME NEW name \in Names, Zones!Query(name) # {}
             PROVE  Zones!Query(name) = Zones!Reference(name)
  BY DEF Zones!OnlyTheClosestZone
<1> DEFINE path == Zones!Prefixes(name) \cap nodes
           z == Zones!FindPrefix(name)
<1>1. z # <<>> /\ Zones!Search(z) # NoZone /\ Zones!Query(name) = zone[z] \cap {name}
  BY DEF Zones!Query
<1>2. path # {} /\ z = Zones!Longest(path)
  BY <1>1 DEF Zones!FindPrefix
<1>3. z \in path /\ \A q \in path : Len(q) <= Len(z)
  BY <1>2, LongestFacts
<1>4. Zones!Enclosing(name) \subseteq path /\ z \in Zones!Enclosing(name)
  BY <1>1, <1>3 DEF Zones!Enclosing, Zones!Search, DnsInv
<1>5. z = Zones!Longest(Zones!Enclosing(name))
  <2>1. Zones!Enclosing(name) \subseteq Zones!Prefixes(name) /\ Zones!Enclosing(name) # {}
    BY <1>4
  <2> QED BY <2>1, <1>3, <1>4, LongestFacts
<1> QED BY <1>1, <1>4, <1>5 DEF Zones!Reference

\* An answer of the server comes from the closest zone of the store that encloses the name and
\* from no other, after any additions, removals and replacements (service/dns).
THEOREM FromTheClosestZone == Zones!Spec => []OnlyTheClosestZone
<1>1. Zones!Init => DnsInv
  BY DEF DnsInv, Zones!Init
<1>2. DnsInv /\ [Zones!Next]_(Zones!vars) => DnsInv'
  BY DnsStep
<1>3. DnsInv => OnlyTheClosestZone
  BY ClosestZone DEF OnlyTheClosestZone
<1> QED BY <1>1, <1>2, <1>3, PTL DEF Zones!Spec

-----------------------------------------------------------------------------
(* Recurring. *)

\* A call is under way only while the task of its callback waits for it, no task goes on once
\* stop() has returned, and only a shielded call is ever left to itself.
RecurringInv ==
    /\ phase \in [Callbacks -> Callback!Phases]
    /\ work \in [Callbacks -> {"idle", "run", "cancelling", "ended"}]
    /\ orphans \in [Callbacks -> Nat]
    /\ \A c \in Callbacks :
        /\ phase[c] \notin {"call", "gather"} => work[c] = "idle"
        /\ r_owner = "stopped" => phase[c] \in {"none", "done"}
        /\ ~shielded => orphans[c] = 0

\* Every step of a service, of a task and of an execution keeps the invariant (recurring.py).
LEMMA RecurringStep ==
    ASSUME RecurringInv, [Callback!Next]_(Callback!vars)
    PROVE  RecurringInv'
<1> USE DEF RecurringInv, Callback!Phases, Callback!Config
<1>1. CASE Callback!PeriodicStart \/ Callback!CronStart \/ Callback!RecurringStart
  <2>1. Callback!Launch /\ \A c \in Callbacks : work[c] = "idle"
    BY <1>1 DEF Callback!PeriodicStart, Callback!CronStart, Callback!RecurringStart, Callback!Launch
  <2> QED BY <2>1 DEF Callback!Launch
<1>2. CASE Callback!PeriodicStop \/ Callback!CronStop \/ Callback!RecurringStop
  BY <1>2 DEF Callback!PeriodicStop, Callback!CronStop, Callback!RecurringStop, Callback!CancelTasks
<1>3. CASE Callback!StopReturns
  BY <1>3 DEF Callback!StopReturns
<1>4. ASSUME NEW c \in Callbacks, Callback!Strategy(c) \/ Callback!Skip(c) \/ Callback!Call(c)
      PROVE  RecurringInv'
  BY <1>4 DEF Callback!Strategy, Callback!Skip, Callback!Call, Callback!Answers
<1>5. ASSUME NEW c \in Callbacks, Callback!Again(c) \/ Callback!Gathered(c)
      PROVE  RecurringInv'
  BY <1>5 DEF Callback!Again, Callback!Gathered
<1>6. ASSUME NEW c \in Callbacks, Callback!Cancelled(c)
      PROVE  RecurringInv'
  BY <1>6 DEF Callback!Cancelled
<1>7. ASSUME NEW c \in Callbacks, Callback!Exec(c)
      PROVE  RecurringInv'
  BY <1>7 DEF Callback!Exec
<1>8. CASE UNCHANGED Callback!vars
  BY <1>8 DEF Callback!vars
<1> QED BY <1>1, <1>2, <1>3, <1>4, <1>5, <1>6, <1>7, <1>8, Zenon DEF Callback!Next, Callback!Task

\* Once stop() has returned no call of an unshielded function is under way, for any number of
\* callbacks and of rounds and wherever the tasks were cancelled (recurring.py:141-147).
THEOREM StoppedIsIdle == Callback!Spec => []StopLeavesNothing
<1>1. Callback!Init => RecurringInv
  BY DEF Callback!Init, RecurringInv, Callback!Phases
<1>2. RecurringInv /\ [Callback!Next]_(Callback!vars) => RecurringInv'
  BY RecurringStep
<1>3. RecurringInv => StopLeavesNothing
  BY DEF RecurringInv, StopLeavesNothing, Callback!StopLeavesNothing
<1> QED BY <1>1, <1>2, <1>3, PTL DEF Callback!Spec

-----------------------------------------------------------------------------
(* Backoff. *)

\* A call goes on with no outcome, tries less than it may before each attempt, and has failed
\* before each pause.
BackoffInv ==
    /\ Execution!TypeOK /\ EndsForAReason
    /\ b_stage # "over" => outcome = "none" /\ reason = "none"
    /\ b_stage = "pause" /\ options.max_tries # Unlimited => total_tries < options.max_tries

\* Every attempt, pause and way out of the loop keeps the invariant (backoff.py).
LEMMA BackoffStep ==
    ASSUME BackoffInv, [Execution!Next]_(Execution!vars)
    PROVE  BackoffInv'
<1>0. /\ options.max_tries # Unlimited => options.max_tries \in Nat
      /\ options.deadline # Unlimited => options.deadline \in Nat
      /\ BackoffTime \in Nat
  BY LoopAssumption DEF BackoffInv, Execution!TypeOK, Execution!Options
<1> USE DEF BackoffInv, EndsForAReason, Execution!EndsForAReason, Execution!TypeOK, Execution!Outcomes,
            Execution!Over, Execution!Expired
<1>1. CASE Execution!Returns \/ Execution!Raises
  BY <1>0, <1>1 DEF Execution!Returns, Execution!Raises
<1>2. ASSUME NEW e \in {"listed", "timeout"}, Execution!Fails(e) PROVE BackoffInv'
  BY <1>0, <1>2 DEF Execution!Fails
<1>3. CASE Execution!AttemptTimeout
  BY <1>2, <1>3 DEF Execution!AttemptTimeout
<1>4. CASE Execution!Deadline
  BY <1>0, <1>4 DEF Execution!Deadline
<1>5. CASE Execution!Cancel
  BY <1>0, <1>5 DEF Execution!Cancel
<1>6. CASE Execution!Retry
  BY <1>0, <1>6 DEF Execution!Retry
<1>7. CASE Execution!Tick
  BY <1>0, <1>7 DEF Execution!Tick
<1>8. CASE UNCHANGED Execution!vars
  BY <1>8 DEF Execution!vars
<1> QED BY <1>1, <1>2, <1>3, <1>4, <1>5, <1>6, <1>7, <1>8, Zenon DEF Execution!Next

\* However a call with backoff ends, its caller can tell why, and its attempts are counted right,
\* for all limits, pauses and numbers of tries (backoff.py:149-194).
THEOREM ReasonIsKnown == Execution!Spec => []EndsForAReason
<1>1. Execution!Init => BackoffInv
  <2> SUFFICES ASSUME Execution!Init PROVE BackoffInv
    OBVIOUS
  <2>1. options.max_tries # Unlimited => options.max_tries \in Nat /\ options.max_tries >= 1
    BY LoopAssumption DEF Execution!Init, Execution!Options
  <2> QED BY <2>1, LoopAssumption DEF Execution!Init, BackoffInv, EndsForAReason, Execution!EndsForAReason,
          Execution!TypeOK, Execution!Outcomes
<1>2. BackoffInv /\ [Execution!Next]_(Execution!vars) => BackoffInv'
  BY BackoffStep
<1>3. BackoffInv => EndsForAReason
  BY DEF BackoffInv
<1> QED BY <1>1, <1>2, <1>3, PTL DEF Execution!Spec

-----------------------------------------------------------------------------
(* Processes. *)

\* Of the children that were not orphaned, only this one may be alive.
OnlyAlive(i) == \A j \in Children \ orphaned : Forking!Alive(j) => j = i

\* That is the last one while it is being started, then self.process, and in the end the child
\* that stop() has taken.
ProcessInv ==
    /\ Forking!TypeOK /\ OneChild
    /\ p_owner \in {"new", "starting", "failed"} => supervisor = "off" /\ process = 0
    /\ p_owner \in {"new", "failed", "stop"} => OnlyAlive(process)
    /\ p_owner = "starting" => forked \in Children /\ OnlyAlive(forked)
    /\ p_owner = "started" => process \in Children /\ OnlyAlive(IF supervisor = "respawn" THEN forked ELSE process)
    /\ supervisor # "off" => respawning
    /\ supervisor \in {"sleep", "check", "respawn"} => p_owner = "started"
    /\ supervisor = "respawn" => forked \in Children
    /\ p_owner \in {"wait", "join"} => stopping \in Children /\ OnlyAlive(stopping)
    /\ p_owner = "join" => child[stopping] \in {"ending", "ended"}

\* Every step of the service, of its supervisor and of a child keeps the invariant (service/process.py).
LEMMA ProcessStep ==
    ASSUME ProcessInv, [Forking!Next]_(Forking!vars)
    PROVE  ProcessInv'
<1>0. 0 \notin Children
  BY LoopAssumption
<1> USE DEF ProcessInv, OneChild, Forking!OneChild, OnlyAlive, Forking!TypeOK, Forking!Alive,
            Forking!Working
\* A child that is forked while no other is alive is the only one.
<1>F. ASSUME Forking!Fork, UNCHANGED orphaned, \A i \in Children \ orphaned : ~Forking!Alive(i)
      PROVE  /\ forked' = forked + 1 /\ forked' \in Children /\ OnlyAlive(forked)'
             /\ child' \in [Children -> {"none", "starting", "running", "ending", "ended", "failed"}]
  BY <1>F DEF Forking!Fork
<1>1. CASE Forking!Start
  <2>1. (\A i \in Children \ orphaned : ~Forking!Alive(i)) /\ supervisor = "off" /\ process = 0
    BY <1>0, <1>1 DEF Forking!Start
  <2>2. CASE Forking!Fork /\ p_owner' = "starting"
    BY <1>1, <1>F, <2>1, <2>2 DEF Forking!Start
  <2>3. CASE UNCHANGED <<child, forked>> /\ p_owner' = "failed"
    BY <1>1, <2>1, <2>3 DEF Forking!Start
  <2> QED BY <1>1, <2>2, <2>3 DEF Forking!Start
<1>2. CASE Forking!StartReturns
  BY <1>2 DEF Forking!StartReturns
<1>3. CASE Forking!StartFails
  BY <1>3 DEF Forking!StartFails
<1>4. CASE Forking!Supervise \/ Forking!StillAlive
  BY <1>4 DEF Forking!Supervise, Forking!StillAlive
<1>5. CASE Forking!Respawn
  <2>1. Forking!Fork /\ UNCHANGED orphaned /\ \A i \in Children \ orphaned : ~Forking!Alive(i)
    BY <1>5 DEF Forking!Respawn
  <2> QED BY <1>5, <1>F, <2>1 DEF Forking!Respawn
<1>6. CASE Forking!Respawned
  BY <1>6 DEF Forking!Respawned
<1>7. CASE Forking!RespawnFails
  BY <1>7 DEF Forking!RespawnFails
<1>8. CASE Forking!Stop \/ Forking!StopRaises
  BY <1>0, <1>8 DEF Forking!Stop, Forking!StopRaises
<1>9. CASE Forking!StopSupervisor
  BY <1>9 DEF Forking!StopSupervisor
<1>10. CASE Forking!Interrupt
  BY <1>0, <1>10 DEF Forking!Interrupt
<1>11. CASE Forking!StopEvent \/ Forking!Joined
  BY <1>11 DEF Forking!StopEvent, Forking!Joined
<1>12. CASE Forking!Kill
  BY <1>12 DEF Forking!Kill
<1>13. CASE Forking!StopCancelled
  BY <1>0, <1>13 DEF Forking!StopCancelled
<1>14. ASSUME NEW i \in Children, Forking!Child(i) PROVE ProcessInv'
  <2>1. UNCHANGED <<respawning, process, forked, p_owner, supervisor, stopping, orphaned>>
    BY <1>14 DEF Forking!Child, Forking!ChildStarts, Forking!ChildStops, Forking!ChildExits
  <2>2. child' \in [Children -> {"none", "starting", "running", "ending", "ended", "failed"}]
    BY <1>14 DEF Forking!Child, Forking!ChildStarts, Forking!ChildStops, Forking!ChildExits
  \* A child's own step makes no dead child alive and no ended function run.
  <2>3. \A j \in Children : /\ Forking!Alive(j)' => Forking!Alive(j)
                            /\ child[j] \in {"ending", "ended"} => child'[j] \in {"ending", "ended"}
    BY <1>14 DEF Forking!Child, Forking!ChildStarts, Forking!ChildStops, Forking!ChildExits
  <2>4. \A j \in Children : Forking!Working(j)' => Forking!Working(j)
    BY <1>14 DEF Forking!Child, Forking!ChildStarts, Forking!ChildStops, Forking!ChildExits
  <2> QED BY <2>1, <2>2, <2>3, <2>4
<1>15. CASE UNCHANGED Forking!vars
  BY <1>15 DEF Forking!vars
<1> QED BY <1>1, <1>2, <1>3, <1>4, <1>5, <1>6, <1>7, <1>8, <1>9, <1>10, <1>11, <1>12, <1>13, <1>14, <1>15, Zenon
        DEF Forking!Next, Forking!Service

\* A service has one child at a time, however often it is replaced, and when stop() has returned no
\* child runs the function, but for children whose start() or stop() was cut short
\* (process.py:101-160).
THEOREM OneChildAtATime == Forking!Spec => []OneChild
<1>1. Forking!Init => ProcessInv
  BY DEF Forking!Init, ProcessInv, OneChild, Forking!OneChild, OnlyAlive, Forking!TypeOK,
         Forking!Alive, Forking!Working
<1>2. ProcessInv /\ [Forking!Next]_(Forking!vars) => ProcessInv'
  BY ProcessStep
<1>3. ProcessInv => OneChild
  BY DEF ProcessInv
<1> QED BY <1>1, <1>2, <1>3, PTL DEF Forking!Spec
=============================================================================
