SPECIFICATION Spec
CONSTANTS
  Client = {c1, c2}
  Level = {"ReadCommitted"}
  SetLevel = {"Serializable"}
  MaxXid = 5
  MaxTid = 2
  Loaded = 1
SYMMETRY ClientSymmetry
INVARIANTS
  OneOutcome
  CommitIsLogged
  NoDirtyRead
  LockHolderUnfinished
  SnapshotHidesConcurrent

  
