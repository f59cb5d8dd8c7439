CONSTANTS
  Tokens = {}
  Sources = {}
  Calls = {}
  Turns = {u1}
  MaxLen = 2
  MaxSeq = 2
  MaxAttempts = 1
  MaxFaults = 0
  MaxLoads = 1
SPECIFICATION FairSpec
PROPERTY
  FinetuneReachesBrowser
CHECK_DEADLOCK FALSE
