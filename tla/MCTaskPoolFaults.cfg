SPECIFICATION Spec
CONSTANTS
  t1 = t1
  t2 = t2
  d1 = d1
  d2 = d2
  w1 = w1
  w2 = w2
  c1 = c1
  c2 = c2
  TaskId = {t1, t2}
  TaskDef = {d1, d2}
  Worker = {w1, w2}
  Client = {c1}
  Calls <- MCCalls
  MaxPriority = 1
  NoTask = NoTask
  NoDef = NoDef
  NoCall = NoCall
  ResetAnytime = TRUE
  ReplyMayBeLost = TRUE
INVARIANT ResultBacksStatus
CHECK_DEADLOCK FALSE
