SPECIFICATION Spec
CONSTANTS
  P = 6
  H = 38
  BufferSize = 64
  MaxFrames = 4
  Payloads <- WriterPayloads
INVARIANTS
  TypeOK
  InStepAcceptsAll
PROPERTIES
  ImplementsFifo
  OddSkewStays
  CatchesUp
CHECK_DEADLOCK FALSE
