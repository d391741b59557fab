CONSTANTS
  RamWords = 2
  HostBytes <- MCHostBytes
  MinHigh = 4
  MinLow = 3
  Junk = 65535
SPECIFICATION Spec
INVARIANT HostTypeOK
PROPERTY ImplementsRegisters
