SPECIFICATION Spec
CONSTANTS
    Initial = {s1, s2}
    Dynamic = {d1}
    Interrupts = {i1}
    Owner = FALSE
    BodyTask = TRUE
    BodyEnds = TRUE
    StartRaises = {s1, s2}
    StopRaises = {}
    StartCancelled = {"initial", "dynamic"}
    ExitAfterFailure = TRUE
    None = None
SYMMETRY Symmetry
INVARIANTS
    StopOnce
PROPERTIES
    JoinedBeforePostStart
    StartsCancelledFirst
CHECK_DEADLOCK FALSE
