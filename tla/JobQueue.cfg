CONSTANTS
  r1 = r1
  Workers = {w1, w2}
  Runs = {r1}
  Turns = {t1, t2}
  RunOf <- BothTurns
  NoJob = NoJob
  Nobody = Nobody
  Concurrency = 1
  MaxCrashes = 1
  MaxStops = 1
SPECIFICATION FairSpec
INVARIANTS
  TypeOK
  OneWriterPerProcess
  AtMostOnce
  NothingLeftBehind
PROPERTY TakenIsFinished
CHECK_DEADLOCK FALSE
