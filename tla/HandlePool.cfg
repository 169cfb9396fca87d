SPECIFICATION PoolSpec
CONSTANTS
    Callers = {c1, c2, c3}
    Handles = {h1, h2, h3, h4, h5}
    NIL = NIL
    InitialSlots = 2
    Growth = 2
    MaxUsedSlots = 6
SYMMETRY Symmetry
INVARIANTS PoolTypes ExclusiveHandles WindowHoldsHandles HandlesFit
PROPERTIES LosesOnlyWhenIdle ImplementsQueue
