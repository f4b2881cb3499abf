SPECIFICATION WLiveSpec
CONSTANTS
  b1 = b1
  b2 = b2
  b3 = b3
  Blocks <- MCBlocks
  MaxViews = 3
  Drivers <- MCDrivers
  Widths <- MCWidths
  Height = 2
  BUFSIZ = 4
  SourceMax = 12
  SourceSizes <- MCSourceSizes
INVARIANTS BufferIsOurs WholePicture OneFrameAhead CallsLoaded CallsHaveContext BufferFits ShaderWhole
PROPERTY ViewShown
