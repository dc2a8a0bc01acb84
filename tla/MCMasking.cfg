SPECIFICATION MaskingSpec
CONSTANTS
  acc = acc
  arg = arg
  aux = aux
  Obj = {acc}
  Name <- AllNames
  Addr <- Addresses
  Data <- Word
  WordBits = 2
  ByteBits = 1
  I64 <- Masks
  Shift = {}
  Bin = {}
  MaxMag = 15
  MaxVec = 5
VIEW Shape
PROPERTIES ImplementsIntegers
CHECK_DEADLOCK FALSE
