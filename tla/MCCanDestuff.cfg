\* The same frames, those whose CRC ends in a stuff bit among them.
CONSTANTS
  Delays = {10}
  Payloads <- MCPayloads
SPECIFICATION CodecsSpec
INVARIANT FramesDecode
