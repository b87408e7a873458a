CONSTANTS
  Letters <- MCLetters
  Int64Max = 100
  Null = Null
  StaticBufferSize = 4
  Programs <- AllPrograms
  Grants <- MCGrants
  Unlimited = 1000
  Shared <- MCShared
  FirstSent = 33
  MaxMessages = 14
  Transaction <- MCTransaction
  BufferSize = 5
  SocketSize = 3
  HighBit = 8
  VarintLimit = 64
  IntLimit = 128
SPECIFICATION Spec
INVARIANTS RunsAsWritten UnwindsAtOnce EventsArrive
CHECK_DEADLOCK FALSE
