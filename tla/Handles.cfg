SPECIFICATION Spec
CONSTANTS
  h1 = h1
  h2 = h2
  h3 = h3
  h4 = h4
  h5 = h5
  Conn = c
  Blocks = {c, h1, h2, h3, h4, h5}
  NULL = NULL
  MaxRefs = 2
  Scenarios <- HandleScenarios
  Failures = {"descriptorAlloc", "addLob", "lob", "freeTemporary", "describe", "object", "objectNew", "objectGetInd", "transaction", "prepare", "prefetch", "define", "copyData"}
INVARIANTS CountsReferences PointsToLive NothingLeaks ListsOpenHandles UsesOpen
PROPERTY OciOutlived
CHECK_DEADLOCK FALSE
