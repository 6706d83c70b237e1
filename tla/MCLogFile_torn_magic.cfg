SPECIFICATION Spec
CONSTANTS
  Sizes = {1}
  QueueMaxBytes = 3
  HasHeader = TRUE
  Rnds = {0}
  Faults = {"error", "torn_magic"}
  MaxEntries = 2
  MaxBlocks = 3
CHECK_DEADLOCK FALSE
INVARIANT
  NoEntryVanishes
