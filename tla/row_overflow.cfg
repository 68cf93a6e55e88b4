\* A row whose time does not fit in the product.
CONSTANTS
  CountsPerSecond = 3
  NanosPerSecond = 8
  WordSize = 32
  Values = {0, 1}
  FileRows <- AllLines
  Garbage = Garbage
  MaxLines = 2
  MaxTime = 5
SPECIFICATION Spec
INVARIANTS NoRowEarly
