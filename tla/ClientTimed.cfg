SPECIFICATION TimedSpec
\* The clock stops at MaxClock, with senders asleep.
CHECK_DEADLOCK FALSE
CONSTANTS
  t1 = t1
  t2 = t2
  r1 = r1
  NoThread = NoThread
  Threads = {t1, t2}
  Receivers = {r1}
  WarmupReqs = 1
  MaxReqs = 1
  QpsVar = 1
  Qps = 4
  IniQps = 4
  StepQps = 1
  IntervalQps = 0
  NextQps <- FixedQps
  ServerStops = FALSE
  Gaps = {0, 2}
  Grain = 2
  MaxClock = 4
SYMMETRY Symmetry
INVARIANTS
  SojournCoversNic
  TimelyBounded
