CONSTANTS
  Numeral <- MCNumeral
  Keywords <- MCKeywords
  Families <- MCLimiterFamilies
  MaxWords = 5
  StrategyInputs <- MCStrategies
  LimitNumber = 2
  OffsetNumber = 9
  NoOffset = NoOffset
SPECIFICATION Spec
INVARIANT TypeOK OnlyClausesChange Idempotent
PROPERTY ContractHonoured
CHECK_DEADLOCK FALSE
