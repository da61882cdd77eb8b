SPECIFICATION BinSpec
CONSTANTS
  a = a
  b = b
  Symbol = {a, b}
  Equity = {a, b}
  Probed = a
  FieldOrder <- MCFieldOrder
  Today = 3
  MaxBars = 2
  MaxMishaps = 1
  Histories <- MCHistories
INVARIANT WritingComplete
CHECK_DEADLOCK FALSE
