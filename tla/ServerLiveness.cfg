SPECIFICATION FairSpec
\* The workers wait when all clients have left.
CHECK_DEADLOCK FALSE
CONSTANTS
  w1 = w1
  w2 = w2
  c1 = c1
  c2 = c2
  c3 = c3
  i1 = i1
  NoThread = NoThread
  NoClient = NoClient
  NoReq = NoReq
  Workers = {w1}
  Clients = {c1, c2, c3}
  Ids = {i1}
  FdLimit = 3
  HdrUnits = 1
  BodyLens = {1}
  ClientsCrash = FALSE
  AppEnds = FALSE
PROPERTIES
  EveryClientAccepted
  EveryRequestAnswered
