SPECIFICATION Spec
CONSTANTS
  Widths <- MCWidths
  Heights <- MCHeights
  GrainX <- MCGrainX
  GrainY <- MCGrainY
  Lanes = 8
INVARIANTS TilesPartition InclusiveKernelsCover Avx2MissesLastColumn GrownInTime
