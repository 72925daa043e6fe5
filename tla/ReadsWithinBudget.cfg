SPECIFICATION Spec
CONSTANTS
  P = 6
  H = 38
  BufferSize = 64
  MaxFrames = 2
  Payloads <- WriterPayloads
INVARIANTS
  ReadsWithinBudget
CHECK_DEADLOCK FALSE
