SPECIFICATION MCSpec
CONSTANTS
    Components = {"dns"}
    Tasks = {t1, t2, t3}
    Clients = {t1, t2, t3}
    Readers = {t1, t2, t3}
    MaxSize = 2
    Instances = 3
    Faults = {"check_false", "create_fails", "cancel_get", "cancel_check", "expire", "close"}
    Nothing = Nothing
    MaxCount = 3
    None = None
    BreakerCalls = {b1, b2}
    BucketCount = 2
    ResponseTime = 2
    PassingTime = 2
    BrokenTime = 2
    RecoveryTime = 2
    RatioNum = 1
    RatioDen = 2
    MaxTime = 9
    MaxTotal = 2
    Nobody = Nobody
    Loop = Loop
    MaxWorkers = 3
    Helper = Helper
    Collector = Collector
    Names <- DnsNames
    TextSuffix <- DnsSuffix
    NoZone = NoZone
    Lines = 2
    MaxFiles = 2
    ProxyClients = {x1, x2}
    MaxSent = 8
INVARIANT RecordsAreFound
CHECK_DEADLOCK FALSE
