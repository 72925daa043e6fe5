SPECIFICATION ClientSpec
CONSTANTS
  MaxEnables = 2
  Orders <- AllOrders
INVARIANTS
  ClientTypeOK
  DanglingNeedsCause
  DisableJoins
  DisposeLeavesOnlyLeaks
  OnceEnabledNeedsOrder
PROPERTIES
  DisposeReturns
  TestProgramEnds
CHECK_DEADLOCK FALSE
