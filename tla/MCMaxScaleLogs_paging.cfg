CONSTANTS
  Levels = {warning, notice}
  Source = maxlog
  PageSize = 2
  MaxLog = 6
  MaxCalls = 6
  MaxInFlight = 1
  PrevNeedsLink = TRUE
  Failures = "any"
  FilterChanges = TRUE
SPECIFICATION Spec
INVARIANTS TypeOK WindowUnlessRefetchLost LinkUnlessRefetchLost
CHECK_DEADLOCK FALSE
