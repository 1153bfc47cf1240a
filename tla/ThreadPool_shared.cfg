SPECIFICATION Spec
CONSTANTS
    Items = {i1, i2}
    l1 = l1
    l2 = l2
    Loops = {l1, l2}
    LoopOf <- TwoLoops
    MaxWorkers = 2
    Owner = l1
    Debug = TRUE
    Callers = {Helper}
    Cancellable = {i1}
    Closing = {l1, l2}
    Droppable = TRUE
    Nobody = Nobody
    Helper = Helper
    Collector = Collector
    None = None
CHECK_DEADLOCK FALSE
INVARIANTS
    NoLostWork
PROPERTIES
    KeepsPromise
