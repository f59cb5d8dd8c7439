CONSTANTS
  Tokens = {t1}
  Sources = {s1, s2}
  Calls = {c1, c2}
  Turns = {u1}
  MaxLen = 2
  MaxSeq = 3
SPECIFICATION BusSpec
SYMMETRY CallSymmetry
INVARIANTS
  BusTypeOK
  SeqUnique
  MilestonesInOrder
CHECK_DEADLOCK FALSE
