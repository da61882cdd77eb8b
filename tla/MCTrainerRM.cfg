SPECIFICATION TrainerSpec
CONSTANTS
  t1 = t1
  t2 = t2
  t3 = t3
  d1 = d1
  d2 = d2
  x1 = x1
  x2 = x2
  w1 = w1
  TaskId = {t1, t2, t3}
  TaskDef = {d1, d2}
  Worker = {x1, x2, w1}
  Client = {x1, x2}
  Trainer = {x1, x2}
  TasksOf <- MCTasksOf
  DelayModes <- MCDelayModes
  SkipRunTask = FALSE
  WorkerCalls <- MCWorkerCalls
  Calls <- MCCalls
  MaxPriority = 0
  NoTask = NoTask
  NoDef = NoDef
  NoCall = NoCall
  ResetAnytime = FALSE
  ReplyMayBeLost = FALSE
INVARIANTS TrainedMeansDone ResultIsThere
PROPERTY TrainEnds
CHECK_DEADLOCK FALSE
