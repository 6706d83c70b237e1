SPECIFICATION FairSpec
CONSTANTS
  Dirs = {"logs", "sub"}
  Files = {"f", "g"}
  Links = {"l"}
  Parent <- MCParent
  Above <- MCAbove
  Dating <- MCDating
  Breakable = {"f", "sub"}
  Bundles <- MCBundles
  RulePaths = {"logs", "sub"}
  Days = {0}
  DayLen = 1
  MaxAge = 2
  MaxLeft = 1
INVARIANTS TypeOK LastRuleHolds
PROPERTIES OnlyOldFilesGo RulePathsStay OldFilesGo
