\* The ARM clears the ring while bytes arrive.
CONSTANTS
  RX_SIZE = 2
  TX_DEPTH = 1
  CountSize = 2
  Sessions <- MCClear
  Ready = {TRUE}
  DEPTH = 1
  RamWords = 1
  MinHigh = 4
  MinLow = 3
  Junk = 0
SPECIFICATION Spec
PROPERTY ClearEmptiesRing
