\* Two staged bytes and two in the ring, one in each FIFO of the chip.
CONSTANTS
  RX_SIZE = 2
  TX_DEPTH = 2
  CountSize = 4
  Sessions <- MCTraffic
  Ready = {TRUE}
  DEPTH = 1
  RamWords = 1
  MinHigh = 4
  MinLow = 3
  Junk = 0
SPECIFICATION Spec
INVARIANTS AxiTypeOK CommittedAreDelivered StatusDescribesTheRun RawDoneWhenActed
PROPERTIES TimingRules ImplementsService
