CONSTANTS
  RX_SIZE = 1
  TX_DEPTH = 1
  CountSize = 6
  Sessions <- MCDriving
  Ready = {TRUE}
  DEPTH = 2
  Prefill = 2
  RamWords = 1
  MinHigh = 4
  MinLow = 3
  Junk = 0
SPECIFICATION DriverSpec
INVARIANTS HeldByTheChip AnswersItsOwn
PROPERTIES PushServed CallsReturn
