CONSTANTS
  x = x
  y = y
  Addr = {x, y}
  NULL = NULL
  Assign <- MCAssign
  Type <- MCType
  TypeMin <- MCTypeMin
  TypeSize <- MCTypeSize
  Values <- MCValues
  Literals <- MCLiterals
  Foreign <- MCForeign
  Codes <- MCCodes
  Casts <- MCCasts
  FormRange <- MCFormRange
  FileInputs <- MCFileInputs
  Nested = FALSE
  MaxOperands = 2
  MaxFrames = 1
  MaxInputs = 2
  MaxBranches = 2
SPECIFICATION Spec
SYMMETRY MCSymmetry
INVARIANTS
  TypeOK
  SymbolicStateAgrees
  PathHoldsOfInputs
  ExecutionSelfContained
CHECK_DEADLOCK FALSE
