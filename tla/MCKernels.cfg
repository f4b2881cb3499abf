SPECIFICATION KSpec
CONSTANTS
  l1 = l1
  l2 = l2
  Lanes <- MCLanes
  Sizes <- MCSizes
  Probed <- MCProbed
  Orbits <- MCOrbits
  Looked <- MCLooked
  Word = 1048576
  MaxBailout = 18432
INVARIANTS BailoutPositive ColorsAgree PlanesAgree RegistersKept
