SPECIFICATION AnySpec
CONSTANTS
  s1 = s1
  s2 = s2
  tab1 = tab1
  tab2 = tab2
  Session = {s1, s2}
  Table = {tab1, tab2}
  Column = {"a", "b"}
  Layout <- Layouts
  MaxOid = 2
  MaxRow = 5
  MaxHeap = 1
  MaxRestart = 1
CONSTRAINT Explored
SYMMETRY Symmetric
CHECK_DEADLOCK FALSE
INVARIANTS
  
  
  
  
  IndexAgrees
PROPERTIES
  NoValueTwice
