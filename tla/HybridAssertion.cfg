CONSTANTS
  NULL = NULL
  Var <- MCVar
  Assign <- MCAssign
  Linear <- MCLinear
  Branch <- MCBranch
  paired_branch <- MCPaired
  branch_function <- MCFunction
  Program <- MCProduct
  Behaviour <- MCBehaviour
  InitialInputs <- MCInitialInputs
  Leftovers <- MCLeftovers
  Strategies <- MCHybrid
  MaxIters = 7
  MaxDepths = {2, 3}
  MaxCount = 1
  RandomTries = 2
  SolveTries = 2
  StepSize = 2
  LocalIters = 2
  BaselineIters = 2
  InfiniteDistance = 10000
  UnsignedMax = 20000
  SearchIters = 2
  cfg <- MCCfg
  dominator <- MCDominator
  fid_branches_map <- MCFidBranches
  Thresholds = {1}
  Share = 2
  PairLimits <- MCLimits
  Histories <- MCHistories
  UnsatLimit = 0
  LatestRuns = 1
  BigFunction = 2
  Weights <- MCOneWeight
  SkipLimit = 1
SPECIFICATION Spec
INVARIANT NoSearchAssertionFails
CHECK_DEADLOCK FALSE
