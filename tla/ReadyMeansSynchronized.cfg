SPECIFICATION Spec
CONSTANTS
  Quota = 100
  AppFrames <- WriterFrames
  Stoppable <- NoSide
  MaxApp = 1
  MaxFaults = 1
PROPERTIES
  ReadyMeansSynchronized
CHECK_DEADLOCK FALSE
