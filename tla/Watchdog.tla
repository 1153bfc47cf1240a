------------------------------ MODULE Watchdog ------------------------------
(***************************************************************************)
(* aiomisc/service/sdwatchdog.py: what systemd is told, by the receivers   *)
(* of the signals of the entrypoint and by the timer of the service.       *)
(*                                                                         *)
(* The entrypoint awaits PRE_START, the start of the services and          *)
(* POST_START, and in the end PRE_STOP, the stop of the services and       *)
(* POST_STOP.  Each await is a stage.                                      *)
(***************************************************************************)
EXTENDS Naturals, Sequences

CONSTANT MaxSent    \* bound on the notifications

VARIABLES
    socket_addr,    \* self.socket_addr is set
    interval,       \* self.watchdog_interval: "none", "default" or "custom"
    is_connected,   \* self.socket exists
    stage,          \* what the entrypoint does next
    timer,          \* the PeriodicCallback: "none", "sleep", "send" or "over"
    sent,           \* the notifications, as systemd gets them
    skipped         \* history: stop() was cancelled before it began

vars == <<socket_addr, interval, is_connected, stage, timer, sent, skipped>>

TypeOK ==
    /\ {socket_addr, is_connected, skipped} \subseteq BOOLEAN
    /\ interval \in {"none", "default", "custom"} /\ timer \in {"none", "sleep", "send", "over"}
    /\ stage \in {"pre_start", "status", "start", "usec", "post_start", "ready", "up",
                  "pre_stop", "stop", "stopping", "post_stop", "disconnect", "over"}
    /\ sent \in Seq({"STARTING", "USEC", "STARTED", "READY", "WATCHDOG", "HALTING", "STOPPING"})

\* _get_watchdog_interval(), _get_socket_addr() and __init__(): the environment decides.
Init ==
    /\ socket_addr \in BOOLEAN /\ interval \in {"none", "default", "custom"}
    /\ is_connected = FALSE /\ stage = "pre_start" /\ timer = "none" /\ sent = <<>>
    /\ skipped = FALSE

\* send(): nothing without a socket; a failing socket loses the message.
Send(message) ==
    \/ UNCHANGED sent
    \/ is_connected /\ Len(sent) < MaxSent /\ sent' = Append(sent, message)

Goto(next) == stage' = next /\ UNCHANGED <<socket_addr, interval, skipped>>

\* _pre_start(): connect() makes the socket and may then fail, which ends the start.
Connect ==
    /\ stage = "pre_start" /\ socket_addr
    /\ is_connected' = TRUE
    /\ Goto("status") \/ Goto("over")
    /\ UNCHANGED <<timer, sent>>

\* NOTIFY_SOCKET is not exported.
Skip == stage = "pre_start" /\ ~socket_addr /\ Goto("start") /\ UNCHANGED <<is_connected, timer, sent>>

PreStart == stage = "status" /\ Send("STARTING") /\ Goto("start") /\ UNCHANGED <<is_connected, timer>>

\* start(), unless the startup of another service fails before.
Start ==
    /\ stage = "start"
    /\ \/ is_connected /\ interval # "none" /\ Goto("usec")
       \/ Goto("post_start")
    /\ UNCHANGED <<is_connected, timer, sent>>

\* Another interval than the one of systemd is announced first.
StartTimer ==
    /\ stage = "usec"
    /\ IF interval = "custom" THEN Send("USEC") ELSE UNCHANGED sent
    /\ timer' = "sleep"
    /\ Goto("post_start") /\ UNCHANGED is_connected

\* _post_start(), also after a failed start: start_services() calls it in any case.
PostStart == stage = "post_start" /\ Send("STARTED") /\ Goto("ready") /\ UNCHANGED <<is_connected, timer>>

Ready == stage = "ready" /\ Send("READY") /\ Goto("up") /\ UNCHANGED <<is_connected, timer>>

\* The start is cancelled in one of its awaits; start_services() calls POST_START if it
\* has got as far as the services.
CancelStart ==
    /\ \/ stage \in {"start", "usec"} /\ Goto("post_start")
       \/ stage \in {"post_start", "ready"} /\ Goto("up")
    /\ UNCHANGED <<is_connected, timer, sent>>

\* graceful_shutdown(), when the program ends or is told to.
Leave == stage = "up" /\ Goto("pre_stop") /\ UNCHANGED <<is_connected, timer, sent>>

\* _pre_stop()
PreStop == stage = "pre_stop" /\ Send("HALTING") /\ Goto("stop") /\ UNCHANGED <<is_connected, timer>>

\* Fault: the timer is not cancelled.
StopWithoutTimer == stage = "stop" /\ Goto("stopping") /\ UNCHANGED <<is_connected, timer, sent>>

\* stop() cancels the timer: what it has not sent it never will.
Stop ==
    /\ stage = "stop"
    /\ timer' = IF timer = "none" THEN "none" ELSE "over"
    /\ Goto("stopping") /\ UNCHANGED <<is_connected, sent>>

\* stop() returns or, when the stop of another service fails, is cancelled.
Stopped == stage = "stopping" /\ Goto("post_stop") /\ UNCHANGED <<is_connected, timer, sent>>

\* _post_stop() sends STOPPING=1 and calls disconnect().
PostStop == stage = "post_stop" /\ Send("STOPPING") /\ Goto("disconnect") /\ UNCHANGED <<is_connected, timer>>

Disconnect ==
    /\ stage = "disconnect"
    /\ is_connected' = FALSE
    /\ socket_addr' = (socket_addr /\ ~is_connected)
    /\ stage' = "over"
    /\ UNCHANGED <<interval, timer, sent, skipped>>

\* The shutdown timeout cancels what is going on.
Abort ==
    /\ stage \in {"pre_stop", "stopping", "post_stop", "disconnect"}
    /\ Goto("over") /\ UNCHANGED <<is_connected, timer, sent>>

\* It strikes in the turn of the loop in which stop_services() has made the task of
\* stop(): the task never begins, and POST_STOP is called with the timer running.
AbortStop ==
    /\ stage = "stop"
    /\ stage' = "post_stop" /\ skipped' = TRUE
    /\ UNCHANGED <<socket_addr, interval, is_connected, timer, sent>>

\* The PeriodicCallback calls send("WATCHDOG=1"), and the notification leaves.
Timer == timer = "sleep" /\ timer' = "send" /\ UNCHANGED <<socket_addr, interval, is_connected, stage, sent, skipped>>

TimerSends ==
    /\ timer = "send" /\ timer' = "sleep" /\ Send("WATCHDOG")
    /\ UNCHANGED <<socket_addr, interval, is_connected, stage, skipped>>

Next ==
    \/ Connect \/ Skip \/ PreStart \/ Start \/ StartTimer \/ PostStart \/ Ready \/ CancelStart
    \/ Leave \/ PreStop \/ Stop \/ Stopped \/ PostStop \/ Disconnect \/ Abort \/ AbortStop
    \/ Timer \/ TimerSends

Spec == Init /\ [][Next]_vars

\* systemd hears nothing after STOPPING=1, whatever the timer was doing and wherever the
\* start or a stop() that had begun was cut short; READY=1 never follows the announcement
\* that the services stop (sdwatchdog.py:101-140).  If stop() was cancelled before it began,
\* nobody has cancelled the timer, and WATCHDOG=1 may follow until the socket is closed, but
\* nothing else (entrypoint.py:406-413).
NothingAfterStopping ==
    \A i, j \in 1..Len(sent) : i < j =>
        /\ sent[i] = "STOPPING" => skipped /\ sent[j] = "WATCHDOG"
        /\ sent[i] = "HALTING" => sent[j] # "READY"
=============================================================================
