SPECIFICATION Spec
CONSTANTS
  t1 = t1
  t2 = t2
  r1 = r1
  r2 = r2
  NoThread = NoThread
  Threads = {t1, t2}
  Receivers = {r1, r2}
  WarmupReqs = 2
  MaxReqs = 2
  QpsVar = 2
  Qps = 4
  IniQps = 4
  StepQps = 1
  IntervalQps = 2
  NextQps <- CycleQps
  ServerStops = FALSE
SYMMETRY Symmetry
INVARIANTS
  TypeOK
  AssertionsHold
  PublishesMaxReqs
  BudgetKept
  OverGenerationBounded
  NoUseAfterDelete
  CompletedTrailsSent
  CounterWithinInterval
  
PROPERTIES
  MeasuresAsPromised
  NoWaiterForgotten
