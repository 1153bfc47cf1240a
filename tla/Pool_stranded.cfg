SPECIFICATION FairSpec
CONSTANTS
    Clients = {c1, c2}
    MaxSize = 1
    Instances = 2
    Faults = {"expire"}
    Nothing = Nothing
PROPERTIES
    AcquireReturns
CHECK_DEADLOCK FALSE
