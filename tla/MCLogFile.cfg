SPECIFICATION Spec
CONSTANTS
  Sizes = {1, 4}
  QueueMaxBytes = 3
  HasHeader = TRUE
  Rnds = {0}
  Faults = {"error", "timeout", "crash", "delete"}
  MaxEntries = 3
  MaxBlocks = 3
CHECK_DEADLOCK FALSE
INVARIANTS
  TypeOK
  IInv
  QueueWithinCap
  FileReadable
  TailVerified
  NoEntryVanishes
  InOrderOnceUnlessTimedOut
  EvictionsReported
  EmptyQueueOwesNothing
  HeaderAtMostOnce
PROPERTIES
  IntactBlocksStay
  ImplementsEntryStore
