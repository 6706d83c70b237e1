SPECIFICATION Spec
CONSTANTS
  ByteXor <- MCXor
  Base = 2
  MaxGroups = 3
  SizeMask = 1
  SumMask = 2
  KeyMod = 8
  Word = 16
  Magic <- MCMagic
  CheckMaxLen = 16
  Payloads <- MCPayloads
  Rnds = {3}
  Strangers <- MCStrangers
  Synthetic <- MCSynthetic
  MaxBlocks = 2
  MaxTimeouts = 2
INVARIANTS TypeOK TailFound WrittenIsRead TornOnlyLast
PROPERTIES CutLosesNothing LiveFrameIsLeft
