SPECIFICATION FairSpec
CHECK_DEADLOCK FALSE
CONSTANTS
  w1 = w1
  c1 = c1
  c2 = c2
  i1 = i1
  NoThread = NoThread
  NoClient = NoClient
  NoReq = NoReq
  Workers = {w1}
  Clients = {c1, c2}
  Ids = {i1}
  FdLimit = 1
  HdrUnits = 1
  BodyLens = {1}
  ClientsCrash = FALSE
  AppEnds = FALSE
PROPERTIES
  EveryClientAccepted
