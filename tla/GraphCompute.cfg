SPECIFICATION Spec
CONSTANTS
  NThreads = 2
  MaxTensors = 5
  Sizes = {1, 2}
  InputSize = 2
INVARIANTS
  TypeOK
  SourcesReadIntact
  FreeBlocksSound
  NothingLeaked
PROPERTY ComputeEnds
CHECK_DEADLOCK FALSE
