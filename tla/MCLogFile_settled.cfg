SPECIFICATION Spec
CONSTANTS
  Sizes = {1}
  QueueMaxBytes = 3
  HasHeader = TRUE
  Rnds = {0}
  Faults = {"timeout", "crash", "late", "delete"}
  MaxEntries = 2
  MaxBlocks = 2
CHECK_DEADLOCK FALSE
INVARIANT
  LateEffectsHurtOnlyByOverlap
