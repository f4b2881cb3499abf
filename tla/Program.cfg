SPECIFICATION Spec
CONSTANTS
  MaxLen = 3
  MaxRuns = 2
INVARIANTS FrameHasItsData KernelOutlivesWorkers LogAlive RunsComplete ImageWhole
