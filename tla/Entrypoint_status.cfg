SPECIFICATION Spec
CONSTANTS
    Initial = {s1}
    Dynamic = {}
    Interrupts = {i1}
    Owner = TRUE
    BodyTask = TRUE
    BodyEnds = FALSE
    StartRaises = {}
    StopRaises = {}
    StartCancelled = {}
    ExitAfterFailure = FALSE
    None = None
INVARIANTS
    ForceExitAfterTimeout
CHECK_DEADLOCK FALSE
