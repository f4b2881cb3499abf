SPECIFICATION LiveSpec
CONSTANTS
  Sizes <- MCSizes
  Ranges <- MCRanges
  Word = 128
  LogWidth = 2
  PayloadTimes <- MCPayloads
  OtherTimes <- MCOthers
  MaxTasks = 2
  MaxFrames = 2
INVARIANTS SearchExact AllCounted OverheadExact
PROPERTY AddReturns
