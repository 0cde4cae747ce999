SPECIFICATION Spec
\* The workers wait when all clients have left.
CHECK_DEADLOCK FALSE
CONSTANTS
  w1 = w1
  w2 = w2
  c1 = c1
  c2 = c2
  i1 = i1
  i2 = i2
  NoThread = NoThread
  NoClient = NoClient
  NoReq = NoReq
  Workers = {w1, w2}
  Clients = {c1, c2}
  Ids = {i1, i2}
  FdLimit = 2
  HdrUnits = 2
  BodyLens = {1}
  ClientsCrash = FALSE
  AppEnds = TRUE
SYMMETRY Symmetry
INVARIANTS
  NoRequestLost
  AnswersItsOwner
  FramingKept
  ServerSurvives
  RemovedOnlyIfExited
