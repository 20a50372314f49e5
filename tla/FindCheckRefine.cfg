CONSTANTS
  Iters = 4
  Parallel = 3
  Coverage = {1, 2}
  Top = 2
  Runs = 2
  Enough = 2
  Trials = 3
  Removed = 3
  Campaigns = 2
  Months = 2
SPECIFICATION FairScripts
INVARIANTS
  TypeOK
  WeightsOwn
  BestIsOfItsTrial
  BestWithinOne
PROPERTIES
  CampaignEnds
CHECK_DEADLOCK FALSE
