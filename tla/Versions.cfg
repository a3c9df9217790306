SPECIFICATION Spec
CONSTANTS
  None = None
  NoHash = NoHash
  LOGIN = "login"
  UUID_TO_ENTRY_TYPE_MAP <- BuiltIn
  CustomTypes <- Custom
  Devices <- BothDevices
  Calls <- EditsAndMerges
  OriginalFile <- OneAttached
  Forms <- FormsOfBoth
  Documents <- DocumentsOfBoth
  Limits <- AllLimits
  MaxTime = 3
  MaxEdits = 4
INVARIANTS
  AttachmentsKept
  TypesKept
