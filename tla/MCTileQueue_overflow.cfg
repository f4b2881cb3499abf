SPECIFICATION Spec
CONSTANTS
  Widths <- MCNarrow
  Heights <- MCNarrow
  GrainX <- MCWide
  GrainY <- MCWide
  Lanes = 8
INVARIANT PushInBounds
