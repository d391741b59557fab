\* Every program of the three rounds; a byte or none from a repeat program's host.
CONSTANTS
  Sources <- MCSources
  Levels <- MCLevels
  Byte = {166}
  NoByte = none
  RxDepth = 1
SPECIFICATION Spec
INVARIANTS CandidateTypeOK StuffsTheBus Arbitrates CrcGoesOut DestuffedBytes RegistersAreHistory
PROPERTIES ImplementsUnrolled Finishes
