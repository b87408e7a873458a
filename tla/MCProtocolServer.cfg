SPECIFICATION FairSpec
CONSTANTS
  a = a
  b = b
  w1 = w1
  s1 = s1
  NULL = NULL
  Accepted = {a}
  Opened = {b}
  Workers = {w1}
  Senders = {s1}
  Outbound <- MCOutbound
  Inbound <- MCInbound
  Bye = {"bye"}
  MessageLength = 2
  Capacity = 1
  MaxAddresses = 2
  Scenarios <- MCScenarios
INVARIANTS SingleOwner NothingForgotten StreamIntact CrashOnlyInStop
           DescriptorsOwned
PROPERTIES ConnectionsServed WokenStopReturns
CHECK_DEADLOCK FALSE
