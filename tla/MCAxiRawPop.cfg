\* Raw pops of a FIFO that a program pushes to.
CONSTANTS
  RX_SIZE = 1
  TX_DEPTH = 1
  CountSize = 2
  Sessions <- MCRawPop
  Ready = {TRUE}
  DEPTH = 1
  RamWords = 1
  MinHigh = 4
  MinLow = 3
  Junk = 0
SPECIFICATION Spec
PROPERTY RawPopsWhatItRead
