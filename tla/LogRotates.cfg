SPECIFICATION Spec
CONSTANTS
  MaxFiles = 3
  MaxSize = 2
  Outputs = {1, 2}
  MaxEntries = 9
  FaultSets <- EveryFaultSet
INVARIANTS TypeOK LogIsOrdered RetentionIsFull RotationFindsItsFiles
PROPERTIES SizesAreBounded ImplementsHistory
CHECK_DEADLOCK FALSE
