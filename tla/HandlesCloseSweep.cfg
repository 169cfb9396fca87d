SPECIFICATION Spec
CONSTANTS
  h1 = h1
  h2 = h2
  h3 = h3
  h4 = h4
  h5 = h5
  Conn = c
  Blocks = {c, h1, h2, h3, h4, h5}
  NULL = NULL
  MaxRefs = 2
  Scenarios <- ClosedWithStmts
  Failures = {}
INVARIANT SweepsLive
CHECK_DEADLOCK FALSE
