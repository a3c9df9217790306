SPECIFICATION Spec
CONSTANTS
  Secrets = {"s1", "s2"}
  TextSecrets = {"s1"}
  TypeSections <- MCTypeSections
  Foreign <- MCForeign
  Tables <- MCTables
  Profiles <- MCProfiles
  Edits <- MCEdits
  MaxEdited = 1
  Settings <- MCSettings
  Others <- MCOthers
  Orders <- MCOrders
INVARIANTS
  TokenStays
  PlaceholdersResolved
PROPERTIES
  FormKeepsFields
  MappedCellsKept
