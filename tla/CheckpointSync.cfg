SPECIFICATION Spec
CONSTANTS
  Quota = 1
  AppFrames <- WriterFramesAndHuge
  Stoppable <- BothSides
  MaxApp = 4
  MaxFaults = 2
INVARIANTS
  TypeOK
  TokenBalance
  MutualBlockNeedsSurplus
PROPERTIES
  ImplementsTokens
  EventuallySettled
  StopEndsSession
  PeerLossEndsSession
CHECK_DEADLOCK FALSE
