CONSTANTS
  Models = {"primary", "second", "dead"}
  Primary = "primary"
  Fallback <- FallbackList
  Usable = {"primary", "second"}
  MaxAttempts = 2
  MaxParses = 2
  MaxChunks = 2
  MaxFaults = 1
SPECIFICATION FairSpec
INVARIANTS
  TypeOK
  TextFromOneStream
  AnswerIsBooked
PROPERTY CallEnds
CHECK_DEADLOCK FALSE
