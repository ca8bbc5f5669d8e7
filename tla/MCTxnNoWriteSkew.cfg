CONSTANTS
  Client   = {c1, c2}
  Level    = {"Serializable"}
  SetLevel = {}
  MaxXid   = 5
  MaxTid   = 3
  Loaded   = 2
SPECIFICATION Spec
SYMMETRY ClientSymmetry
INVARIANT NoWriteSkew
