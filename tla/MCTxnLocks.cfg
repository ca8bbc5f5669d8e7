SPECIFICATION FairSpec
CONSTANTS
  Client = {c1, c2}
  Level = {"ReadCommitted"}
  SetLevel = {}
  MaxXid = 5
  MaxTid = 2
  Loaded = 1
PROPERTIES
  
  LocksComeFree
INVARIANT
  DeleterHoldsLock
