SPECIFICATION LiveSpec
CONSTANTS
  NWorkers = 1
  MaxLen = 1
  c1 = c1
  c2 = c2
  NoCtx = NoCtx
  Contexts <- MCOneContext
  CanFail = FALSE
PROPERTY ShutdownReturns
