SPECIFICATION ClientSpec
CONSTANTS
  MaxEnables = 1
  Orders <- AllOrders
INVARIANTS
  MembersDestroyedOnce
CHECK_DEADLOCK FALSE
