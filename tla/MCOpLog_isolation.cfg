SPECIFICATION FairSpec
CONSTANTS
  p1 = p1
  p2 = p2
  Producers = {p1}
  Askers = {}
  Stoppers = {}
  Logs = {"x", "y"}
  AutoRemove = {}
  ChannelCapacity = 1
  QueueMax = 2
  MaxSends = 1
  MaxBreaks = 1
  Calls = {"system"}
  Breakdowns = {"failing"}
CHECK_DEADLOCK FALSE
PROPERTIES
  EntriesReachDisk
  ChannelDrainsInTime
  WorkerEnds
