SPECIFICATION Spec
CONSTANTS
  WordBits = 2
  MaxLen = 3
  MaxLenB = 3
  MaxShift = 7
CHECK_DEADLOCK FALSE
INVARIANTS
  SumsExact
  ProductsExact
  ShiftExact
  DivisionExact
  ConversionExact
  ComparesWithI64
  TextExact
  FractionExact
