CONSTANTS
  Node <- MCNode
  Inputs <- MCInputs
  SizeMax = 9
  None = 0
  kInfiniteDistance = 3
SPECIFICATION FairSpec
INVARIANTS
  TypeOK
  NeighboursExact
  DistancesCertified
  DistancesOfProgram
PROPERTIES
  ProcessEnds
  CallsReturn
CHECK_DEADLOCK FALSE
