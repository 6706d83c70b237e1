SPECIFICATION Spec
CONSTANTS
  Sizes = {1}
  QueueMaxBytes = 3
  HasHeader = TRUE
  Rnds = {0}
  Faults = {"crash"}
  MaxEntries = 2
  MaxBlocks = 3
CHECK_DEADLOCK FALSE
INVARIANT
  HeaderLeads
