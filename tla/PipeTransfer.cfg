SPECIFICATION Spec
CONSTANTS
  M = 4
  Sizes <- SizesAroundM
  Capacity = 2
INVARIANTS
  TypeOK
  FilledInOrder
  ReturnsMeanWhole
PROPERTIES
  ReadEnds
  WriteEnds
CHECK_DEADLOCK FALSE
