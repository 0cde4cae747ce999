SPECIFICATION Spec
CONSTANTS
  t1 = t1
  t2 = t2
  t3 = t3
  Threads = {t1, t2, t3}
  WarmupReqs = 0
  MaxReqs = 0
  WarmupChoices = {0, 1, 2}
  MaxChoices = {1, 2}
  QpsVar = 1
  Qps = 4
  IniQps = 4
  StepQps = 1
  IntervalQps = 0
  NextQps <- FixedQps
SYMMETRY Symmetry
INVARIANTS
  OwnRequestInFlight
  RateInForce
PROPERTIES
  NoWaiterForgotten
