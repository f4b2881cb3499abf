SPECIFICATION LiveSpec
CONSTANTS
  t1 = t1
  t2 = t2
  Threads <- MCThreads
  Times <- MCTimes
  MaxBlocks = 3
  Never = 4
INVARIANTS ExtremesExact SummaryExact
PROPERTY BlocksEnd
