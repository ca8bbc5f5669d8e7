SPECIFICATION Spec
CONSTANTS
  c1 = c1
  c2 = c2
  Client = {c1, c2}
  Admin = {c1}
  Db = {"app"}
  MaxConn = 2
  MaxSid = 3
  MaxEngine = 3
  MaxPanic = 1
INVARIANTS
  Accounted
  DefaultBlocksHaveClient
  RegisteredHasDirectory
PROPERTIES
  EveryoneAnswered
  ShutdownEnds
CHECK_DEADLOCK FALSE
