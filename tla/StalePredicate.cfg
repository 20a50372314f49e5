CONSTANTS
  x = x
  y = y
  Addr = {x, y}
  NULL = NULL
  Assign <- MCAssign
  Type <- MCType
  TypeMin <- MCTypeMin
  TypeSize <- MCTypeSize
  Values <- MCValues
  Literals <- MCLiterals
  Foreign <- MCForeign
  Codes <- MCHandledCodes
  Casts = {}
  FormRange <- MCFormRange
  FileInputs <- MCFileInputs
  Nested = TRUE
  MaxOperands = 3
  MaxFrames = 0
  MaxInputs = 2
  MaxBranches = 3
SPECIFICATION Spec
INVARIANT PathHoldsOfInputs
CHECK_DEADLOCK FALSE
