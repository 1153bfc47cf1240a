SPECIFICATION FairSpec
CONSTANTS
    Calls = {c1, c2, c3}
    None = None
    MaxCount = 2
    Async = TRUE
    Cancellable = {c1, c2, c3}
INVARIANTS
    OneExecution
    ExecutesWholeBatch
PROPERTIES
    EveryCallEnds
CHECK_DEADLOCK FALSE
