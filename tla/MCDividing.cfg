SPECIFICATION DividingSpec
CONSTANTS
  acc = acc
  arg = arg
  aux = aux
  Obj = {acc, arg, aux}
  Name <- AllNames
  Addr <- Addresses
  Data <- Word
  WordBits = 2
  ByteBits = 1
  I64 <- Divisors
  Shift = {}
  Bin <- Dividend
  MaxMag = 50
  MaxVec = 7
VIEW Shape
PROPERTIES ImplementsIntegers
CHECK_DEADLOCK FALSE
