SPECIFICATION MCSpec
CONSTANTS
  Symbols <- MCSymbols
  InitBufSize = 3
  MaxLen = 3
  MaxNumeral = 75
CHECK_DEADLOCK FALSE
INVARIANTS
  TypeOK
  StopsInTime
  ErrorsReachTheRoot
  FillsPoolWithTree
  EvalAgrees
  ParsesBack
  YieldsMeaning
PROPERTIES
  ParsingEnds
