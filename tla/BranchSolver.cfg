CONSTANTS
  Var <- MCVar
  Assign <- MCAssign
  Linear <- MCLinear
  MaxPath = 3
SPECIFICATION FairSpec
INVARIANTS
  TypeOK
  SolutionSatisfies
  FailureIsInfeasible
  PathRestored
  AnswersAsSpecified
PROPERTY Termination
CHECK_DEADLOCK FALSE
