SPECIFICATION AnySpec
CONSTANTS
  Cells <- JoinValues
  Keys <- GroupValues
  Numerals <- Amounts
  Node = {1, 2, 3}
  MaxLeft = 3
  MaxRight = 2
  MaxRows = 4
  MaxEdges = 4
INVARIANTS
  OperatorsExact
  GroupingExact
  
  QueriesAnswered
