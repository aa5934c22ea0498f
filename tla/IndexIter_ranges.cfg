SPECIFICATION Spec
CONSTANTS
  Ids = {1, 2, 3}
  Keys <- MCKeys
  Args <- MCArgs
  Filters <- MCFilters
  Stores <- MCStores
  MaxWrites = 2
  Loops <- MCLoops
  NoKey = NoKey
  NoEntry = NoEntry
INVARIANTS TypeOK RangeExact NoGaps InRange NoMissingId
CHECK_DEADLOCK FALSE
