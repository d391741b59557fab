\* The FIFOs take no part: no byte is pushed.
CONSTANTS
  Programs <- MCPrograms
  Byte = {}
  Levels <- MCLevels
  DEPTH = 1
  NoByte = NoByte
SPECIFICATION RSpec
INVARIANT CounterBelongsToItsLoop
PROPERTIES RunsExactlyCount EntersAtLabel LeavesByItsRepeat
