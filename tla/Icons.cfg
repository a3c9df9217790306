SPECIFICATION Spec
CONSTANTS
  Devices <- BothDevices
  Entries = {"e1", "e2"}
  Bytes = {"x", "y"}
  Settings = {"old", "new"}
  Original <- OneIcon
  Calls <- IconCalls
  MaxUuid = 3
  MaxTime = 2
  MaxEdits = 3
PROPERTIES
  MergeKeepsPictures
  MergeAgainChangesNothing
CHECK_DEADLOCK FALSE
