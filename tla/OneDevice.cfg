SPECIFICATION Spec
CONSTANTS
  MaxUuid = 7
  MaxTime = 0
  HistoryMaxItems = 1
  Devices <- OneDevice
  Calls <- EverythingButEdits
  Seconds = {0}
  InitialBin = 0
  InitialGroups = {3}
  InitialEntries = {4}
CHECK_DEADLOCK FALSE
INVARIANTS PlacesAgree
PROPERTIES EntriesLeaveThroughBin CallsWholeOrNothing
