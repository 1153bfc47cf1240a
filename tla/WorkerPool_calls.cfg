SPECIFICATION FairSpec
CONSTANTS
    Calls = {c1, c2}
    Processes = {p1, p2, p3, p4}
    WorkerCount = 1
    MaxOverflow = 1
    Deaths = 1
    Cancellable = {c1}
    Faulty = {c2}
    Faults = {"late_signal", "initializer", "close"}
    Pending = Pending
PROPERTIES
    KeepsPromise
    CallsEnd
    CloseEndsProcesses
CHECK_DEADLOCK FALSE
