SPECIFICATION BitsSpec
CONSTANTS
  acc = acc
  arg = arg
  aux = aux
  Obj = {acc, arg}
  Name <- AllNames
  Addr <- Addresses
  Data <- Word
  WordBits = 2
  ByteBits = 1
  I64 <- Masks
  Shift = {}
  Bin <- Images
  MaxMag = 15
  MaxVec = 4
VIEW Shape
INVARIANTS ReadsExact
PROPERTIES ImplementsIntegers
CHECK_DEADLOCK FALSE
