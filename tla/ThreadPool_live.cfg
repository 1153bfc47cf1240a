SPECIFICATION FairSpec
CONSTANTS
    Items = {i1, i2}
    l1 = l1
    l2 = l2
    Loops = {l1}
    LoopOf <- OneLoop
    MaxWorkers = 2
    Owner = Nobody
    Debug = FALSE
    Callers = {l1}
    Cancellable = {}
    Closing = {}
    Droppable = TRUE
    Nobody = Nobody
    Helper = Helper
    Collector = Collector
    None = None
CHECK_DEADLOCK FALSE
PROPERTIES
    FuturesResolved
    CloseEndsThreads
