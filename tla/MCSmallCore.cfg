\* One-byte FIFOs and a two-word RAM: full and empty are a byte apart.
CONSTANTS
  RamWords = 2
  HostBytes <- MCHostBytes
  MinHigh = 4
  MinLow = 3
  Junk = 16385
  Rom <- MCRom
  Levels <- MCLevels
  DEPTH = 1
  NoByte = NoByte
SPECIFICATION Spec
PROPERTIES ImplementsTop StatusLasts
