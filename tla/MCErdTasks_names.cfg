CONSTANTS
  Wke = {w1, w2, w3}
  MaxCalls = 5
SPECIFICATION Spec
INVARIANT DistinctErdNames
CHECK_DEADLOCK FALSE
