SPECIFICATION Spec
CONSTANTS
  HeapEntries = 3
  MaxBuffers = 2
INVARIANTS
  TypeOK
  BadHasCause
  OkayMissesNothing
PROPERTIES
  ChecksEnd
