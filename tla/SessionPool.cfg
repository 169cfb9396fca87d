SPECIFICATION FairSpec
CONSTANTS
    Threads = {t1, t2, t3}
    Owners = {t1}
    Sessions = {s1}
    NULL = NULL
    MaxFaults = 2
    ReleasesOpen = FALSE
    Failures = {"getHandles", "attrGet", "attrSet", "getCharset", "contextGet", "rollback", "memoryAlloc", "sessionRelease"}
INVARIANTS BusyIsOwned NoTransactionWaits UsedSessionsHaveTime PoolIsCounted OpenPoolHasHandle
PROPERTY CallsEnd
CHECK_DEADLOCK FALSE
