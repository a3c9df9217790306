SPECIFICATION Spec
CONSTANTS
  MaxXmlDepth = 32
  MaxEdits = 1
  UnknownTags <- MCUnknownTags
  Foreign <- MCForeign
INVARIANTS
  NothingLost
  WrittenReadsBack
  EntriesKnowTheirGroup
