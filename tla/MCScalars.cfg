SPECIFICATION MCSpec
CONSTANTS
  Int4Bits = 3
  Int8Bits = 4
  NullBits = 3
  Days <- SomeDays
  Instants <- SomeInstants
  Cells <- StoredCells
  Letters <- Characters
  ParamTexts <- SomeParams
  Transactions = 4
  MaxRow = 3
  MaxText = 3
  MaxParams = 3
  MaxPieces = 3
INVARIANTS
  DfsFindsCycles
  
  
  TextsExact
