SPECIFICATION Spec
CONSTANTS
    Calls = {c1, c2, c3}
    Processes = {p1, p2, p3, p4, p5}
    WorkerCount = 1
    MaxOverflow = 1
    Deaths = 0
    Cancellable = {c1, c2, c3}
    Faulty = {}
    Faults = {"late_signal", "initializer", "close"}
    Pending = Pending
SYMMETRY Symmetry
INVARIANTS
    OwnAnswer
CHECK_DEADLOCK FALSE
