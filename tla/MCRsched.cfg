SPECIFICATION LiveSpec
CONSTANTS
  NWorkers = 2
  MaxLen = 3
  c1 = c1
  c2 = c2
  NoCtx = NoCtx
  Contexts <- MCContexts
  CanFail = TRUE
INVARIANTS IInv FrameIsolation ExactlyOnce OverrunByOne ContextFresh
PROPERTIES ImplementsFrames CallsReturn
