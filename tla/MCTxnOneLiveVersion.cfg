CONSTANTS
  Client   = {c1, c2}
  Level    = {"RepeatableRead"}
  SetLevel = {}
  MaxXid   = 5
  MaxTid   = 3
  Loaded   = 1
SPECIFICATION Spec
SYMMETRY ClientSymmetry
INVARIANT OneLiveVersion
