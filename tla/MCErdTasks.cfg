CONSTANTS
  Wke = {w1, w2, w3}
  MaxCalls = 5
SPECIFICATION Spec
INVARIANTS TypeOK DistinctErdCounts
CHECK_DEADLOCK FALSE
