SPECIFICATION Spec
CONSTANTS
    NULL = NULL
    Sizes = {1, 3}
    DefineSizes = {}
    MaxRows = 3
    MaxExecs = 2
    ScrollModes = {}
    Offsets = {0}
    MindsBuffer = FALSE
    Failures = {}
INVARIANTS ServesRows
