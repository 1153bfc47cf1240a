SPECIFICATION FairSpec
CONSTANTS
    Components = {"pool", "recurring", "backoff", "log", "transport", "client", "server", "process"}
    Clients = {c1, c2, c3}
    MaxSize = 1
    Instances = 3
    Faults = {"check_false", "check_raises", "cancel_get"}
    Nothing = Nothing
    Callbacks = {k1, k2}
    Rounds = 2
    Limits = {Unlimited, 1, 3}
    Pauses = {0, 1}
    Tries = {Unlimited, 0, 1, 2}
    Unlimited = Unlimited
    BackoffTime = 5
    Records = {r1, r2, r3}
    Sizes = {0, 1, 2}
    Pill = Pill
    Events = {e1, e2, e3}
    Workers = {w1, w2}
    QSize = 1
    Idle = Idle
    ConnectAttempts = 2
    Peers = {p1, p2, p3}
    Children = {1, 2, 3}
INVARIANTS
    Types
    StopLeavesNothing
    EndsForAReason
    OneChild
PROPERTIES
    AcquireReturns
    Recurs
    RecordsAreHandled
    EventsAreAnswered
    CloseEndsWell
    Reconnects
    ServerStops
CHECK_DEADLOCK FALSE
