SPECIFICATION Spec
CHECK_DEADLOCK FALSE
CONSTANTS
  w1 = w1
  c1 = c1
  i1 = i1
  NoThread = NoThread
  NoClient = NoClient
  NoReq = NoReq
  Workers = {w1}
  Clients = {c1}
  Ids = {i1}
  FdLimit = 1
  HdrUnits = 2
  BodyLens = {1}
  ClientsCrash = TRUE
  AppEnds = FALSE
SYMMETRY Symmetry
INVARIANTS
  ServerSurvives
