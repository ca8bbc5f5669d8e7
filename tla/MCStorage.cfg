SPECIFICATION Spec
CONSTANTS
  c1 = c1
  c2 = c2
  t1 = t1
  t2 = t2
  Client = {c1, c2}
  Thread = {t1, t2}
  First  = c1
CONSTRAINT Kept
SYMMETRY Symmetric
CHECK_DEADLOCK FALSE
INVARIANTS
  
  PagesCurrent
  TidsStay
  RedoneAfterCheckpoint
  
PROPERTIES
  
  XidUnused
