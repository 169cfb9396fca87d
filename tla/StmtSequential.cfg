SPECIFICATION FairSpec
CONSTANTS
    Threads = {t1}
    Stmts = {s1, s2, s3}
    NULL = NULL
    InitialSlots = 1
    Growth = 2
    Threaded = TRUE
    ImplicitResults = FALSE
    Failures = {"prepare", "addHandle", "init", "createQueryVars", "stmtRelease", "rollback", "sessionEnd", "serverDetach"}
INVARIANTS OpenStmtsAreListed CloseClosesAll
PROPERTY CallsEnd
CHECK_DEADLOCK FALSE
