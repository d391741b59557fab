\* Every opcode and operand byte, with two complementary values of the delay field; every identifier.
CONSTANTS
  Delays = {10, 21}
  Payloads <- MCPayloads
SPECIFICATION CodecsSpec
INVARIANTS OneMnemonicPerWord RtlReadsWhatDecodeReads EncodeInvertsDecode NoWordChanges ListingsAssemble StuffedFramesDecode
