SPECIFICATION FairSpec
CONSTANTS
  Null = Null
  Object = Object
  Named = Named
  fresh1 = fresh1
  fresh2 = fresh2
  Methods <- MCMethods
  Histories <- MCHistories
  MaxReplays = 2
INVARIANTS ReferencesFound RecordedIsReplayed FirstCallKept
PROPERTIES ChecksHold ReplayEnds
CHECK_DEADLOCK FALSE
