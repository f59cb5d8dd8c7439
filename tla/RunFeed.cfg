CONSTANTS
  Tokens = {}
  Sources = {}
  Calls = {}
  Turns = {u1}
  MaxLen = 2
  MaxSeq = 3
  MaxAttempts = 1
  MaxFaults = 1
  MaxLoads = 1
SPECIFICATION FairSpec
INVARIANTS
  TypeOK
  DeliveredOnce
PROPERTY DoneReachesBrowser
CHECK_DEADLOCK FALSE
