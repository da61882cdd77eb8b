SPECIFICATION BinFairSpec
CONSTANTS
  a = a
  b = b
  Symbol = {a, b}
  Equity = {a, b}
  Probed = a
  FieldOrder <- MCFieldOrder
  Today = 2
  MaxBars = 2
  MaxMishaps = 0
  Histories <- MCSuspended
PROPERTY NewDayDiscovered
CHECK_DEADLOCK FALSE
