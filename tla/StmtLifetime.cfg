SPECIFICATION Spec
CONSTANTS
    Threads = {t1, t2}
    Stmts = {s1, s2}
    NULL = NULL
    InitialSlots = 1
    Growth = 2
    Threaded = TRUE
    ImplicitResults = TRUE
    Failures = {"prepare", "addHandle", "createQueryVars", "stmtRelease", "rollback", "sessionEnd", "serverDetach"}
SYMMETRY Symmetry
INVARIANTS CountsReferences HeldIsLive ReleasedOnce
CHECK_DEADLOCK FALSE
