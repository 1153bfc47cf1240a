----------------------------- MODULE SafeParts -----------------------------
(***************************************************************************)
(* select(), the DNS store, the TCP proxy, the watchdog and the adapters   *)
(* of other servers, as parts of a larger specification.                   *)
(***************************************************************************)
EXTENDS Naturals, Sequences

CONSTANTS
    Tasks, Nobody,              \* Select: the awaitables
    Names, TextSuffix, NoZone,  \* Dns
    ProxyClients,               \* Proxy
    MaxSent                     \* Watchdog

VARIABLES
    cancel, wait, return_exceptions, timeout, task, result_idx, is_exception, stage,
    nodes, zone, reply,
    server, listening, delayed, client, members, slow, pipe, p_closing, connecting,
    socket_addr, interval, is_connected, w_stage, timer, sent, skipped,
    kind, step, has, running, cut

Choice == INSTANCE Select WITH Awaitables <- Tasks
Zones == INSTANCE Dns
Relay == INSTANCE Proxy WITH Clients <- ProxyClients, closing <- p_closing
Notify == INSTANCE Watchdog WITH stage <- w_stage
Adapter == INSTANCE Adapters

\* A name has labels, and its parents are names.
ASSUME PartsAssumption ==
    /\ Names \subseteq Seq(STRING) \ {<<>>}
    /\ \A name \in Names : Zones!Prefixes(name) \subseteq Names

\* Names for small instances: zones a.com and com, the names below them, and xcom, whose text
\* ends with "com".
DnsNames == {<<"com">>, <<"com", "a">>, <<"com", "a", "b">>, <<"xcom">>}
DnsSuffix == {<<"com", "xcom">>}

selectVars == <<cancel, wait, return_exceptions, timeout, task, result_idx, is_exception, stage>>
dnsVars == <<nodes, zone, reply>>
proxyVars == <<server, listening, delayed, client, members, slow, pipe, p_closing, connecting>>
watchdogVars == <<socket_addr, interval, is_connected, w_stage, timer, sent, skipped>>
adapterVars == <<kind, step, has, running, cut>>

\* Select: no task is left behind by select() (utils.py).
SelectLeavesNothing == Choice!SelectLeavesNothing

\* Dns: an answer comes from the closest zone (service/dns).
OnlyTheClosestZone == Zones!OnlyTheClosestZone

\* Dns: the records of the closest zone are found (service/dns), as the docs say.
RecordsAreFound == Zones!RecordsAreFound

\* Proxy: the proxy keeps track of its clients and their delays (pytest.py).
ClientsAreTracked == Relay!ClientsAreTracked

\* Watchdog: systemd hears nothing after STOPPING=1 if stop() has begun (service/sdwatchdog.py).
NothingAfterStopping == Notify!NothingAfterStopping

\* Adapters: stop() leaves nothing running but what was cut short (service/aiohttp.py and others).
StopReleases == Adapter!StopReleases
=============================================================================
