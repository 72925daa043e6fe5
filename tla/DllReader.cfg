SPECIFICATION Spec
CONSTANTS
  P = 6
  H = 38
  MaxFrames = 4
  Payloads <- StreamPayloads
INVARIANTS
  TypeOK
  MissesNothing
PROPERTIES
  ReportsAll
  ImplementsFifo
CHECK_DEADLOCK FALSE
