SPECIFICATION FairSpec
CONSTANTS
    Users = {u1, u2}
    Notifiers = {n1, n2}
    NULL = NULL
    MaxNotes = 3
    Deregisters = FALSE
    InCallback = {"release"}
    Failures = {"register", "getRegId"}
INVARIANTS CountsReferences FreedIsUnregistered
PROPERTIES NotNotifiedAfter CallsEnd
CHECK_DEADLOCK FALSE
