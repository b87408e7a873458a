CONSTANTS
  recorder = recorder
  handler = handler
  Threads <- MCThreads
  NoThread = NoThread
  MaxTime = 3
  MaxMessages = 2
  MaxUnsequenced = 1
SPECIFICATION FairSpec
INVARIANTS SendOrder ChecksHold
PROPERTIES ImplementsOutbox EventuallySent
CHECK_DEADLOCK FALSE
