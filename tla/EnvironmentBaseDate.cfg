SPECIFICATION Spec
CONSTANTS
    Threads = {t1, t2}
    Conns = {c1}
    NULL = NULL
    Failures = {}
INVARIANT DatesAreBuilt
CHECK_DEADLOCK FALSE
