SPECIFICATION Spec
CONSTANTS
  MaxLen = 3
  MaxRuns = 2
INVARIANT ReleasedOnce
