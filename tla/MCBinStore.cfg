SPECIFICATION BinFairSpec
CONSTANTS
  a = a
  b = b
  Symbol = {a, b}
  Equity = {a, b}
  Probed = a
  FieldOrder <- MCFieldOrder
  Today = 3
  MaxBars = 2
  MaxMishaps = 1
  Histories <- MCHistories
INVARIANTS Aligned CoverageTrue FieldsAgree
PROPERTIES NothingLost CaughtUp
CHECK_DEADLOCK FALSE
