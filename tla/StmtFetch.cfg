SPECIFICATION Spec
CONSTANTS
    NULL = NULL
    Sizes = {1, 2, 3}
    DefineSizes = {2, 4}
    MaxRows = 4
    MaxExecs = 2
    ScrollModes = {"next", "first", "last", "absolute"}
    Offsets = {1, 2, 3, 4, 5}
    MindsBuffer = TRUE
    Failures = {"execute", "fetch"}
INVARIANTS ServesRows EndsAtEnd ScrollsToDesired
PROPERTY FitsVariable
