SPECIFICATION FairSpec
CHECK_DEADLOCK FALSE
CONSTANTS
  t1 = t1
  t2 = t2
  r1 = r1
  r2 = r2
  NoThread = NoThread
  Threads = {t1, t2}
  Receivers = {r1, r2}
  WarmupReqs = 1
  MaxReqs = 1
  QpsVar = 0
  Qps = 4
  IniQps = 4
  StepQps = 1
  IntervalQps = 1
  NextQps <- FixedQps
  ServerStops = TRUE
PROPERTIES
  ClientEnds
