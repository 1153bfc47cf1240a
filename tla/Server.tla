------------------------------- MODULE Server -------------------------------
(***************************************************************************)
(* aiomisc/service/base.py, tcp.py, tls.py and udp.py: the servers, which  *)
(* handle every connection or datagram in a task of their own.  Closing a  *)
(* server is asyncio's: wait_closed() waits for the open connections; a    *)
(* handler closes its own when it ends.                                    *)
(***************************************************************************)
EXTENDS FiniteSets

CONSTANT Peers      \* the connections, or datagrams, that may arrive

VARIABLES
    proto,          \* "tcp", "tls" or "udp"
    server,         \* "new", "context", "failed", "serving", "cancelling", "closing" or "stopped"
    listening,      \* the socket accepts
    handler,        \* the task of a peer: "none", "run", "cancelling" or "done"
    cancelled       \* the tasks that stop() has cancelled and waits for

vars == <<proto, server, listening, handler, cancelled>>

TypeOK ==
    /\ proto \in {"tcp", "tls", "udp"} /\ listening \in BOOLEAN /\ cancelled \subseteq Peers
    /\ server \in {"new", "context", "failed", "serving", "cancelling", "closing", "stopped"}
    /\ handler \in [Peers -> {"none", "run", "cancelling", "done"}]

\* __init__(): no task, no server.
Init ==
    /\ proto \in {"tcp", "tls", "udp"} /\ server = "new" /\ listening = FALSE
    /\ handler = [p \in Peers |-> "none"] /\ cancelled = {}

\* self.tasks: the tasks that are not done.
Tasks == {p \in Peers : handler[p] \in {"run", "cancelling"}}

\* make_socket() and start_server().
Listen ==
    /\ server' = "serving" /\ listening' = TRUE
    /\ UNCHANGED <<proto, handler, cancelled>>

StartTCP == proto = "tcp" /\ server = "new" /\ Listen

\* create_datagram_endpoint()
StartUDP == proto = "udp" /\ server = "new" /\ Listen

\* TLSServer.start() builds its SSL context in the executor first.
StartTLS ==
    /\ proto = "tls"
    /\ \/ /\ server = "new"
          /\ server' = "context"
          /\ UNCHANGED <<proto, listening, handler, cancelled>>
       \/ server = "context" /\ Listen

\* start() raises where it builds the context, binds or listens, or is cancelled there.
StartFails ==
    /\ server \in {"new", "context"}
    /\ server' = "failed"
    /\ UNCHANGED <<proto, listening, handler, cancelled>>

\* create_task(), also during stop().
CreateTask(p) ==
    /\ listening /\ handler[p] = "none"
    /\ handler' = [handler EXCEPT ![p] = "run"]
    /\ UNCHANGED <<proto, server, listening, cancelled>>

\* make_client_handler(), of a connection.
Accept(p) == proto # "udp" /\ CreateTask(p)

\* datagram_received()
DatagramReceived(p) == proto = "udp" /\ CreateTask(p)

\* A handler ends, by itself or after it was cancelled; tasks.discard() follows.
HandlerEnds(p) ==
    /\ p \in Tasks
    /\ handler' = [handler EXCEPT ![p] = "done"]
    /\ UNCHANGED <<proto, server, listening, cancelled>>

\* TaskStoreBase.stop(): cancel_tasks(self.tasks).
Stop ==
    /\ server = "serving"
    /\ server' = "cancelling"
    /\ cancelled' = Tasks
    /\ handler' = [p \in Peers |-> IF p \in Tasks THEN "cancelling" ELSE handler[p]]
    /\ UNCHANGED <<proto, listening>>

\* stop() after a start() that failed: no task to cancel, and no server to close.
StopFailed ==
    /\ server = "failed"
    /\ server' = "stopped"
    /\ UNCHANGED <<proto, listening, handler, cancelled>>

\* SimpleServer.stop(): server.close() (or transport.close()) once those tasks are done.
Close ==
    /\ server = "cancelling" /\ cancelled \cap Tasks = {}
    /\ listening' = FALSE
    /\ server' = IF proto = "udp" THEN "stopped" ELSE "closing"
    /\ UNCHANGED <<proto, handler, cancelled>>

\* TLSServer.stop(): wait_closed().
WaitClosed ==
    /\ server = "closing" /\ Tasks = {}
    /\ server' = "stopped"
    /\ UNCHANGED <<proto, listening, handler, cancelled>>

\* Fault: TCPServer waits without a timeout.
WaitClosedForever == WaitClosed

\* TCPServer.stop(): wait_closed() for at most 5 seconds.
WaitClosedTimeout ==
    /\ server = "closing" /\ proto = "tcp"
    /\ server' = "stopped"
    /\ UNCHANGED <<proto, listening, handler, cancelled>>

Next ==
    \/ StartTCP \/ StartTLS \/ StartUDP \/ StartFails \/ StopFailed \/ Stop \/ Close \/ WaitClosed \/ WaitClosedTimeout
    \/ \E p \in Peers : Accept(p) \/ DatagramReceived(p) \/ HandlerEnds(p)

Spec == Init /\ [][Next]_vars

\* stop() of a TCP or UDP server returns, if handlers end once they are cancelled, even
\* when a connection was accepted in the meantime (tcp.py:72-77); stop() of a TLS server
\* waits for such a connection (tls.py:190).
ServerStops == server = "cancelling" /\ proto # "tls" ~> server = "stopped"
=============================================================================
