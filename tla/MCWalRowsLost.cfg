CONSTANTS
  Client      = {c1}
  SegmentSize = 8
  MaxXid      = 4
  MaxCrash    = 1
  Indexed     = FALSE
  Tearing     = FALSE
  PowerFails  = TRUE
SPECIFICATION Spec
SYMMETRY ClientSymmetry
INVARIANT RowsRedone
