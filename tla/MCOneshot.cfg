SPECIFICATION Spec
CONSTANTS
  MinSize = 3
  MaxSize = 5
  MinBlock = 2
  MaxInt = 17
  Word = 32768
  Room = 64
  Second = 1000
  Milli = 100
  Micro = 10
  Cores <- MCCores
  Lines <- MCLines
  RleMin = 2
  RleMax = 5
  Half = 3
  Values <- MCValues
INVARIANTS LastOneCounts HistsAsAsked PrefixReadsBack RowReadsBack
PROPERTY Ends
