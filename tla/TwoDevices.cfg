SPECIFICATION Spec
CONSTANTS
  MaxUuid = 5
  MaxTime = 5
  HistoryMaxItems <- NoLimit
  Devices <- TwoDevices
  Calls <- EditAndMerge
  Seconds = {1}
  InitialBin = 2
  InitialGroups = {3}
  InitialEntries = {4}
CHECK_DEADLOCK FALSE
INVARIANTS TypeOK LiveIsNotDeleted NothingUnreachable MergeCompletes
PROPERTIES MergeKeepsVersions MergeRemovesOnlyDeleted MergesConverge MergeAgainChangesNothing
