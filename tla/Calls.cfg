CONSTANTS
  x = x
  Addr = {x}
  NULL = NULL
  Assign <- CallAssign
  Type <- MCType
  TypeMin <- CallTypeMin
  TypeSize <- CallTypeSize
  Values <- CallValues
  Literals <- MCLiterals
  Foreign <- CallForeign
  Codes <- CallCodes
  Casts = {}
  FormRange <- CallFormRange
  FileInputs <- CallFileInputs
  Nested = FALSE
  MaxOperands = 2
  MaxFrames = 2
  MaxInputs = 1
  MaxBranches = 6
SPECIFICATION Spec
INVARIANTS
  NoAssertionFails
  PathWellFormed
  PathHoldsOfInputs
CHECK_DEADLOCK FALSE
