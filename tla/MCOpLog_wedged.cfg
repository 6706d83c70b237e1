SPECIFICATION FairSpec
CONSTANTS
  p1 = p1
  p2 = p2
  Producers = {p1}
  Askers = {}
  Stoppers = {}
  Logs = {"x"}
  AutoRemove = {}
  ChannelCapacity = 1
  QueueMax = 2
  MaxSends = 2
  MaxBreaks = 1
  Calls = {"def"}
  Breakdowns = {"wedged"}
CHECK_DEADLOCK FALSE
PROPERTY
  ChannelDrains
