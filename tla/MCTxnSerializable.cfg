SPECIFICATION Spec
CONSTANTS
  Client = {c1, c2}
  Level = {"ReadCommitted", "RepeatableRead"}
  SetLevel = {"Serializable"}
  MaxXid = 5
  MaxTid = 2
  Loaded = 2
SYMMETRY ClientSymmetry
INVARIANTS
  NoCommittingCycle
  IInv
