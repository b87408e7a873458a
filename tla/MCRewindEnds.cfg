CONSTANTS
  Linger = TRUE
  MaxDepth = 2
  MaxOps = 2
  MaxRejects = 2
  MaxObjects = 1
SPECIFICATION FairSpec
CHECK_DEADLOCK FALSE
PROPERTY RewindEnds
