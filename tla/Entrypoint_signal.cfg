SPECIFICATION FairSpec
CONSTANTS
    Initial = {s1, s2}
    Dynamic = {d1}
    Interrupts = {i1}
    Owner = TRUE
    BodyTask = FALSE
    BodyEnds = FALSE
    StartRaises = {s1}
    StopRaises = {s1}
    StartCancelled = {}
    ExitAfterFailure = FALSE
    None = None
INVARIANTS
    GracefulStop
    ResourcesOutliveStops
PROPERTIES
    StartFailureEnds
    InterruptEnds
CHECK_DEADLOCK FALSE
