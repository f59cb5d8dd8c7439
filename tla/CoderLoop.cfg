CONSTANTS
  Names = {plot}
  MaxAttempts = 2
  MaxTurns <- Turns
  SkillBudget = 1
  MaxInline = 1
  MaxFaults = 2
SPECIFICATION FairSpec
INVARIANTS
  TypeOK
  OutputIsOwn
  KernelIsOwn
PROPERTY CoderEnds
CHECK_DEADLOCK FALSE
