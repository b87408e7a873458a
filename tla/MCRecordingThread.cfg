CONSTANTS
  Linger = TRUE
  MaxDepth = 3
  MaxOps = 4
  MaxRejects = 2
  MaxObjects = 2
SPECIFICATION FairSpec
CHECK_DEADLOCK FALSE
INVARIANTS NewObjectsTracked LevelCheckHolds AbortedNotCompleted RewindComplete
PROPERTIES TransactionAtomic RewindHappens
