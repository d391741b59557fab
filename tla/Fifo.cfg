\* DEPTH 3: rtl/top.v uses 4; three wraps where a power of two would not.
CONSTANTS
  Byte = {b1, b2, b3}
  DEPTH = 3
  NoByte = NoByte
SPECIFICATION Spec
INVARIANTS TypeOK PointersAgree
PROPERTY ImplementsQueue
CHECK_DEADLOCK TRUE
