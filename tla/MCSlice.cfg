SPECIFICATION Spec
CONSTANTS
  Name = {x, y}
  Addr <- Addresses
  Data = {0, 1}
  MaxLen = 3
VIEW Shape
INVARIANTS WindowsInside
PROPERTIES ImplementsSequences
CHECK_DEADLOCK FALSE
