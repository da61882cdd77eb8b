SPECIFICATION MCSpec
CONSTANTS
  Focus = {"health", "record", "collect"}
  Stock = {a, b}
  Adapter = {"paper", "tdx", "tcdll", "easytrader", "xiadan"}
  Cash = 2
  MaxRuns = 2
  Symbol = {a}
  Reader = {r1, r2}
  Today = 2
  MaxAsked = 2
  Thread = {t1, t2, t3}
  LockModes = {"redis", "local"}
  MaxDepth = 2
  MaxLate = 1
  Instrument = {i1, i2}
  Lookahead = 1
  MaxDays = 3
  Share = {a}
  Request = {q1, q2}
  Quotes = {2, 3}
  Fee = 1
  MaxLots = 2
  MaxEdits = 2
  Equity = {a, b, c}
  TopK = 1
  NDrop = 1
  HoldThresh = 1
  RiskNum = 1
  RiskDen = 1
  Lot = 3
  CostDen = 4
  MinCost = 3
  VolumeCap = 7
  InitCash = 45
  Prices = {1, 2}
  MaxBars = 3
  Run = {u1, u2}
  MaxCalls = 2
  MaxDay = 4
  MaxWindow = 2
  MaxNesting = 2
  Env = {e1, e2}
  NumSeeds = 3
  QueueSize = 2
  Step = 2
  FirstDays = {1, 3}
  LastDay = 5
  MaxRecorders = 4
  Code = {c1, c2}
  DumpDays = 3
  StaleAfter = 1
  MaxDumps = 3
  Coarse = 3
  Fine = 2
  TradeUnit = 2
  Amounts = {0, 7}
  FirstBars = {0, 1}
  LastBars = {3, 5}
  MaxDates = 2
  QuartersPerYear = 2
  MaxQuarter = 3
  LastDate = 3
  MaxRows = 4
  MaxPitDumps = 2
  Updater = {p1, p2}
  PoolStock = {a}
  MinPool = 0
  MaxPool = 1
  LastPoolDay = 3
  LastRow = 4
  NumStock = 2
  StepLen = 2
  MaxPoolUpdates = 3
  LastTradeDay = 4
  AfterBreak = {3}
  MaxUpdates = 4
  LastFrameDay = 2
  MaxProcs = 2
  MaxIters = 3
  MaxReward = 2
  MaxPolicies = 4
  MaxKills = 1
  Asker = {x1, x2}
  Pool = {m1, m2}
  SizeLimit = 1
  MaxVersions = 2
  MaxQueries = 3
PROPERTIES CatchUp RunsEnd EvaluationEnds
CHECK_DEADLOCK FALSE
