SPECIFICATION Spec
CONSTANTS
  NWorkers = 1
  MaxLen = 2
  c1 = c1
  c2 = c2
  NoCtx = NoCtx
  Contexts <- MCOneContext
  CanFail = FALSE
INVARIANT PopInRange
