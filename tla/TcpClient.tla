----------------------------- MODULE TcpClient -----------------------------
(***************************************************************************)
(* aiomisc/service/tcp.py and tls.py: the client services.  TCPClient and  *)
(* TLSClient connect once; RobustTCPClient and RobustTLSClient connect     *)
(* again when the connection has ended.                                    *)
(***************************************************************************)
EXTENDS Naturals

CONSTANT ConnectAttempts    \* connect_attempts

VARIABLES
    robust,         \* RobustTCPClient or RobustTLSClient
    tls,            \* TLSClient or RobustTLSClient
    peer,           \* the server at the address: "up" or "down"
    client,         \* where start() is
    attempt,        \* attempts of this connect() so far
    connected,      \* self.connected
    start_event,    \* self.start_event
    stopped         \* the entrypoint has cancelled start(), or stop() was called

vars == <<robust, tls, peer, client, attempt, connected, start_event, stopped>>

Config == <<robust, tls>>

TypeOK ==
    /\ {robust, tls, connected, start_event, stopped} \subseteq BOOLEAN
    /\ peer \in {"up", "down"} /\ attempt \in 0..ConnectAttempts
    /\ client \in {"context", "connect", "retry", "handle", "pause", "last_pause",
                   "ended", "failed", "cancelled"}

\* connect() begins with the SSL context, built in the executor, when there is one.
Begin == IF tls THEN "context" ELSE "connect"

Init ==
    /\ robust \in BOOLEAN /\ tls \in BOOLEAN
    /\ peer = "down" /\ client = Begin /\ attempt = 0
    /\ connected = FALSE /\ start_event = FALSE /\ stopped = FALSE

\* The server comes and goes.
Peer ==
    /\ peer' = IF peer = "up" THEN "down" ELSE "up"
    /\ UNCHANGED <<Config, client, attempt, connected, start_event, stopped>>

Context ==
    /\ client = "context"
    /\ client' = "connect"
    /\ UNCHANGED <<Config, peer, attempt, connected, start_event, stopped>>

\* open_connection() succeeds; a robust client sets its events.
Connected ==
    /\ client = "connect" /\ peer = "up"
    /\ client' = "handle" /\ start_event' = TRUE
    /\ connected' = robust
    /\ UNCHANGED <<Config, peer, attempt, stopped>>

\* ConnectionError: also the last attempt is followed by a pause.
Refused ==
    /\ client = "connect" /\ peer = "down"
    /\ client' = "retry" /\ attempt' = attempt + 1
    /\ UNCHANGED <<Config, peer, connected, start_event, stopped>>

\* Fault: the exception of connect() ends a robust client that was never connected.
FailedForGood ==
    /\ client' = IF robust /\ connected THEN "pause" ELSE "failed"
    /\ attempt' = 0

\* connect() raises: start() fails, or begins again, with a pause if the connected event
\* is still set from the connection before.
Failed ==
    /\ client' = IF ~robust THEN "failed" ELSE IF connected THEN "pause" ELSE Begin
    /\ attempt' = 0

Retry ==
    /\ client = "retry"
    /\ IF attempt < ConnectAttempts THEN client' = Begin /\ UNCHANGED attempt ELSE Failed
    /\ UNCHANGED <<Config, peer, connected, start_event, stopped>>

\* Any other exception of open_connection() or of the SSL context.
Broken ==
    /\ client \in {"context", "connect"}
    /\ Failed
    /\ UNCHANGED <<Config, peer, connected, start_event, stopped>>

\* handle_connection() returns: a robust client connects again at once.
HandleReturns ==
    /\ client = "handle"
    /\ client' = IF robust THEN Begin ELSE "ended"
    /\ connected' = FALSE /\ attempt' = 0
    /\ UNCHANGED <<Config, peer, start_event, stopped>>

\* handle_connection() raises: the connected event stays set, and a pause follows.
HandleRaises ==
    /\ client = "handle"
    /\ client' = IF robust THEN "pause" ELSE "ended"
    /\ attempt' = 0
    /\ UNCHANGED <<Config, peer, connected, start_event, stopped>>

PauseEnds ==
    /\ client = "pause"
    /\ client' = Begin
    /\ UNCHANGED <<Config, peer, attempt, connected, start_event, stopped>>

\* CancelledError in start(): `finally' pauses once more if the connected event is set.
CancelStart ==
    /\ stopped' = TRUE
    /\ client' = IF robust /\ connected /\ client # "pause" THEN "last_pause" ELSE "cancelled"
    /\ UNCHANGED <<Config, peer, attempt, connected, start_event>>

\* The entrypoint cancels start() while it runs.
Cancel ==
    /\ client \in {"context", "connect", "retry", "handle", "pause"}
    /\ CancelStart

\* TaskStoreBase.stop() cancels the tasks of the client: a connection that is made by a
\* task (not so with TLS) or is handled.  A client that only waits is not stopped.
Stop ==
    /\ client = "handle" \/ (client = "connect" /\ ~tls)
    /\ CancelStart

LastPauseEnds ==
    /\ client = "last_pause"
    /\ client' = "cancelled"
    /\ UNCHANGED <<Config, peer, attempt, connected, start_event, stopped>>

Work == Context \/ Connected \/ Refused \/ Retry \/ PauseEnds \/ LastPauseEnds

Next == Peer \/ Work \/ Broken \/ HandleReturns \/ HandleRaises \/ Cancel \/ Stop

Spec == Init /\ [][Next]_vars

\* "TCP clients with auto-reconnection when connection lost"
\* (docs/source/services/network.rst:211): when the server stays up, a robust client is
\* connected again, whatever has ended its connections and attempts (tcp.py:161-184).
Reconnects ==
    <>[](peer = "up") => [](robust => <>(client = "handle" \/ stopped))
=============================================================================
