CONSTANTS
  QueryTypes = {user_logs}
  RouteGroups = {dashboard}
  Rates = {r10, r60}
  DefaultRate = r10
  RowLimits = {100, 10000}
  ExpiryDays = 2
  MaxDay = 5
  MaxEntries = 2
  Undefined = Undefined
SPECIFICATION Spec
INVARIANT TypeOK
INVARIANT AutoClearRetains
