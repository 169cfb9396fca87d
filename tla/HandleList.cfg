SPECIFICATION Spec
CONSTANTS
    Items = {h1, h2, h3, h4, h5}
    NULL = NULL
    InitialSlots = 2
    Growth = 2
SYMMETRY Symmetry
INVARIANTS ListsOpenHandles CountsUsedSlots
PROPERTY AddNeverOverwrites
