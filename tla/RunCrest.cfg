CONSTANTS
  NULL = NULL
  Var <- MCVar
  Assign <- MCAssign
  Linear <- MCLinear
  Branch <- MCBranch
  paired_branch <- MCPaired
  branch_function <- MCFunction
  Program <- MCProgram
  Behaviour <- MCBehaviour
  InitialInputs <- MCInitialInputs
  Leftovers <- MCLeftovers
  Strategies <- MCStrategies
  MaxIters = 7
  MaxDepths = {2, 3}
  MaxCount = 1
  RandomTries = 2
  SolveTries = 2
  StepSize = 2
  LocalIters = 2
  BaselineIters = 2
  InfiniteDistance = 10000
  UnsignedMax = 20000
  SearchIters = 2
  cfg <- MCCfg
  dominator <- MCDominator
  fid_branches_map <- MCFidBranches
  Thresholds = {1}
  Share = 2
  PairLimits <- MCLimits
  Histories <- MCHistories
  UnsatLimit = 0
  LatestRuns = 1
  BigFunction = 2
  Weights <- MCOneWeight
  SkipLimit = 1
SPECIFICATION FairSpec
INVARIANTS
  TypeOK
  CoverageAgrees
  NoPathTwice
  AllPathsExplored
  DepthBoundsRuns
PROPERTIES
  PrefixKept
  BudgetEnds
  ImplementsCampaign
CHECK_DEADLOCK FALSE
