------------------------------- MODULE Proxy -------------------------------
(***************************************************************************)
(* aiomisc/pytest.py: TCPProxy, which passes the bytes of its clients to a *)
(* target and back through two pipes per client, with delays, and can      *)
(* disconnect its clients.                                                 *)
(***************************************************************************)
EXTENDS Naturals

CONSTANT Clients    \* the connections to the proxy

Directions == {"read", "write"}

VARIABLES
    server,         \* the proxy: "new", "serving", "disconnecting", "closed"
    listening,      \* its socket accepts
    delayed,        \* the directions whose delay, read_delay or write_delay, is not 0
    client,         \* a TCPProxyClient: "none", "connecting", "open" or "failed"
    members,        \* self.clients
    slow,           \* the same for each client: its two Delay objects
    pipe,           \* "none", "read", "delay", "cancelled" or "done", for each direction
    closing,        \* TCPProxyClient.closing: "pending", "waiting" or "done"
    connecting      \* the clients whose close() found no pipes, for they were connecting

vars == <<server, listening, delayed, client, members, slow, pipe, closing, connecting>>

TypeOK ==
    /\ server \in {"new", "serving", "disconnecting", "closed"}
    /\ listening \in BOOLEAN /\ delayed \subseteq Directions /\ slow \in [Clients -> SUBSET Directions]
    /\ client \in [Clients -> {"none", "connecting", "open", "failed"}]
    /\ {members, connecting} \subseteq SUBSET Clients
    /\ pipe \in [Clients -> [Directions -> {"none", "read", "delay", "cancelled", "done"}]]
    /\ closing \in [Clients -> {"pending", "waiting", "done"}]

Init ==
    /\ server = "new" /\ listening = FALSE /\ delayed = {}
    /\ client = [c \in Clients |-> "none"] /\ members = {} /\ slow = [c \in Clients |-> {}]
    /\ pipe = [c \in Clients |-> [d \in Directions |-> "none"]]
    /\ closing = [c \in Clients |-> "pending"] /\ connecting = {}

Start ==
    /\ server = "new"
    /\ server' = "serving" /\ listening' = TRUE
    /\ UNCHANGED <<delayed, client, members, slow, pipe, closing, connecting>>

\* TCPProxyClient(): no connection, no tasks, and `closing' is pending.
NewClient(c) ==
    /\ client' = [client EXCEPT ![c] = "connecting"]
    /\ UNCHANGED <<pipe, closing>>

\* _handle_client() up to the connection to the target.
HandleClient(c) ==
    /\ listening /\ client[c] = "none"
    /\ NewClient(c)
    /\ members' = members \cup {c}
    /\ slow' = [slow EXCEPT ![c] = delayed]
    /\ UNCHANGED <<server, listening, delayed, connecting>>

\* Fault: a client that was closed while it was connecting is not removed.
ConnectForgets(c) ==
    /\ client[c] = "connecting"
    /\ client' = [client EXCEPT ![c] = "open"]
    /\ pipe' = [pipe EXCEPT ![c] = [d \in Directions |-> "read"]]
    /\ UNCHANGED <<server, listening, delayed, members, slow, closing, connecting>>

\* connect(): two tasks; clients.remove() follows when `closing' is done.
Connect(c) ==
    /\ client[c] = "connecting"
    /\ client' = [client EXCEPT ![c] = "open"]
    /\ pipe' = [pipe EXCEPT ![c] = [d \in Directions |-> "read"]]
    /\ members' = IF closing[c] = "done" THEN members \ {c} ELSE members
    /\ UNCHANGED <<server, listening, delayed, slow, closing, connecting>>

\* The target refuses: the client stays in the set.
ConnectFails(c) ==
    /\ client[c] = "connecting"
    /\ client' = [client EXCEPT ![c] = "failed"]
    /\ UNCHANGED <<server, listening, delayed, members, slow, pipe, closing, connecting>>

SetPipe(c, d, state) ==
    /\ pipe' = [pipe EXCEPT ![c][d] = state]
    /\ UNCHANGED <<server, listening, delayed, client, members, slow, closing, connecting>>

\* pipe(): a chunk waits for the delay of its direction; then it is written.
Read(c, d) == pipe[c][d] = "read" /\ d \in slow[c] /\ SetPipe(c, d, "delay")

\* Delay.wait() returns after its time.
DelayEnds(c, d) == pipe[c][d] = "delay" /\ SetPipe(c, d, "read")

\* pipe() ends: end of file, a broken connection, or CancelledError; the writer is closed.
PipeEnds(c, d) == pipe[c][d] \in {"read", "cancelled"} /\ SetPipe(c, d, "done")

\* Delay.timeout: the pipe that waits for this delay goes on at once.
SetTimeout(c, d) == IF pipe[c][d] = "delay" THEN "read" ELSE pipe[c][d]

\* set_delay(), also by slowdown(): for both directions of all clients.
SetDelay ==
    /\ delayed' \in SUBSET Directions
    /\ slow' = [c \in Clients |-> IF c \in members THEN delayed' ELSE slow[c]]
    /\ pipe' = [c \in Clients |-> [d \in Directions |->
                  IF c \in members THEN SetTimeout(c, d) ELSE pipe[c][d]]]
    /\ UNCHANGED <<server, listening, client, members, closing, connecting>>

Running(c) == {d \in Directions : pipe[c][d] \in {"read", "delay", "cancelled"}}

\* TCPProxyClient.close() of every client that is not closed: cancel_tasks() and the
\* wait for them.
CloseClients ==
    LET open == {c \in members : closing[c] # "done"}
    IN /\ closing' = [c \in Clients |-> IF c \in open THEN "waiting" ELSE closing[c]]
       /\ connecting' = connecting \cup {c \in open : client[c] = "connecting"}
       /\ pipe' = [c \in Clients |-> [d \in Directions |->
              IF c \in open /\ d \in Running(c) THEN "cancelled" ELSE pipe[c][d]]]

\* disconnect_all()
DisconnectAll ==
    /\ server = "serving"
    /\ CloseClients
    /\ UNCHANGED <<server, listening, delayed, client, members, slow>>

\* close() begins with disconnect_all().
CloseProxy ==
    /\ server = "serving"
    /\ CloseClients
    /\ server' = "disconnecting"
    /\ UNCHANGED <<listening, delayed, client, members, slow>>

\* The cancelled pipes are done, or there were none: `closing' is resolved, and its callback
\* removes the client that has connected.
ClientClosed(c) ==
    /\ closing[c] = "waiting" /\ (c \in connecting \/ Running(c) = {})
    /\ closing' = [closing EXCEPT ![c] = "done"]
    /\ members' = IF client[c] = "open" THEN members \ {c} ELSE members
    /\ UNCHANGED <<server, listening, delayed, client, slow, pipe, connecting>>

\* close() times out: the clients it waits for, and no disconnect_all() does, are not
\* marked as closed, and the server goes on.
CloseTimeout ==
    /\ server = "disconnecting"
    /\ server' = "serving"
    /\ \E C \in SUBSET {c \in Clients : closing[c] = "waiting"} :
          /\ closing' = [c \in Clients |-> IF c \in C THEN "pending" ELSE closing[c]]
          /\ connecting' = connecting \ C
    /\ UNCHANGED <<listening, delayed, client, members, slow, pipe>>

\* server.close(), after the clients.
Closed ==
    /\ server = "disconnecting" /\ \A c \in Clients : closing[c] # "waiting"
    /\ server' = "closed" /\ listening' = FALSE
    /\ UNCHANGED <<delayed, client, members, slow, pipe, closing, connecting>>

Next ==
    \/ Start \/ SetDelay \/ DisconnectAll \/ CloseProxy \/ CloseTimeout \/ Closed
    \/ \E c \in Clients :
          \/ HandleClient(c) \/ Connect(c) \/ ConnectFails(c) \/ ClientClosed(c)
          \/ \E d \in Directions : Read(c, d) \/ DelayEnds(c, d) \/ PipeEnds(c, d)

Spec == Init /\ [][Next]_vars

\* self.clients is right about every connection, though clients come, fail to connect and
\* are closed at any time: a connected client is in it exactly until it is closed, also if
\* close() was faster than its connection or was given up at its timeout.  So set_delay()
\* and disconnect_all() reach every client that is not closed: none of them has another
\* delay than the proxy, and none of their pipes holds a chunk back for a delay that was
\* taken away (pytest.py:193-245, 387-427).
ClientsAreTracked ==
    \A c \in Clients :
        /\ client[c] = "open" => (c \in members <=> closing[c] # "done")
        /\ c \in members =>
              slow[c] = delayed /\ \A d \in Directions \ delayed : pipe[c][d] # "delay"
=============================================================================
