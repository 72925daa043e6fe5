SPECIFICATION Spec
CONSTANTS
  Threads = {t1, t2, t3}
  Clients = {c1, c2, c3}
INVARIANTS
  TypeOK
  ServesAtMostOne
PROPERTIES
  OneSessionEndsAll
  ConnectedGetsSession
  StopReturns
CHECK_DEADLOCK FALSE
