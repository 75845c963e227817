CONSTANTS
  Numeral <- MCNumeral
  Keywords <- MCKeywords
  Families <- MCFetchFamilies
  MaxWords = 5
  StrategyInputs <- MCFetchStrategies
  LimitNumber = 2
  OffsetNumber = 9
  NoOffset = NoOffset
SPECIFICATION Spec
CHECK_DEADLOCK FALSE
INVARIANT ErrorsDiagnosed
