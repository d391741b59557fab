\* One-byte FIFOs (four in top.v): full and empty are a byte apart, so every
\* PULL and PUSH can meet its wait.  What a deeper queue adds is fifo.v's own.
CONSTANTS
  Programs <- MCPrograms
  Byte <- MCByte
  Levels <- MCLevels
  DEPTH = 1
  NoByte = NoByte
SPECIFICATION Spec
INVARIANTS TopTypeOK DelayBelongsToItsWord
CHECK_DEADLOCK TRUE
PROPERTIES ImplementsGolden StallMovesNothing DelayMovesNothing
