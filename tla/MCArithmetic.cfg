SPECIFICATION ArithmeticSpec
CONSTANTS
  acc = acc
  arg = arg
  aux = aux
  Obj = {acc, arg}
  Name <- AllNames
  Addr <- Addresses
  Data <- Word
  WordBits = 2
  ByteBits = 1
  Bin = {}
  I64 <- Factors
  Shift = {1, 2, 3}
  MaxMag = 21
  MaxVec = 3
VIEW Shape
INVARIANTS TypeOK Normalised ComparesExact
PROPERTIES ImplementsIntegers CopyOnWrite
CHECK_DEADLOCK FALSE
