SPECIFICATION Spec
CONSTANTS
  s1 = s1
  s2 = s2
  a = a
  b = b
  p = p
  SessionId = {s1, s2}
  Name = {a, b}
  Stmt = {p}
  PrepareOp = {"UPDATE"}
  Level = {"Serializable"}
  Loaded = 1
  MaxXid = 5
  MaxTid = 2
  MaxSave = 2
SYMMETRY Symmetric
INVARIANTS
  InBounds
  

  
CHECK_DEADLOCK FALSE
