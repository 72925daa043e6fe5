SPECIFICATION Spec
CONSTANTS
  Threads = {t1, t2}
  Clients = {c1, c2, c3}
INVARIANTS
  WaitingIsConnectable
CHECK_DEADLOCK FALSE
