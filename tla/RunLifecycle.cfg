CONSTANTS
  Stages = 2
  Grace = 2
  Ttl = 2
  MaxAge = 3
  MaxFaults = 2
SPECIFICATION FairSpec
INVARIANTS
  TypeOK
  OutcomeAudited
  EarlyCancelStops
PROPERTY SettlesWithinGrace
  RefinesRunStatus
CHECK_DEADLOCK FALSE
