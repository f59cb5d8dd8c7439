CONSTANTS
  Stages = 2
  MaxRounds <- PolicyRounds
  RevisionCost <- PolicyRevisionCost
  ReviewCost = 14
  Cap = 100
  CallCosts = {0, 14, 60}
  MaxFaults = 1
SPECIFICATION FairSpec
INVARIANTS
  TypeOK
  WithinBudget
  VerdictIsAboutOutput
PROPERTY ReviewsEnd
CHECK_DEADLOCK FALSE
