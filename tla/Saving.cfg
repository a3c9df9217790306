SPECIFICATION Spec
CONSTANTS
  PAYLOAD_BLOCK_SIZE = 2
  ChecksumCells = 5
  SizeOf <- MCSizeOf
  MaxSaves = 3
  MaxEdits = 2
  Failing = {"backup"}
  CopyReachesDisk = TRUE
  ForeignHeaders <- MCForeignHeaders
INVARIANTS
  Recoverable
  NeverTorn
  HeaderKept
PROPERTIES
  ForeignEditsKept
CHECK_DEADLOCK FALSE
