SPECIFICATION Spec
CONSTANTS
    Runs = {r1, r2}
    Listed = {r1}
    NoRun = NoRun
    MaxAttempts = 1
    MaxVisits = 2
    MaxStarts = 2
    MaxTurns = 2
    MaxDrops = 1
INVARIANTS
    TypeOK
    NothingOfAnotherRun
CHECK_DEADLOCK FALSE
