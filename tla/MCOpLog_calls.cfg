SPECIFICATION FairSpec
CONSTANTS
  p1 = p1
  p2 = p2
  Producers = {p1}
  Askers = {"a1"}
  Stoppers = {"s1", "s2"}
  Logs = {"x"}
  AutoRemove = {}
  ChannelCapacity = 2
  QueueMax = 2
  MaxSends = 1
  MaxBreaks = 1
  Calls = {"bundle"}
  Breakdowns = {"failing", "wedged"}
CHECK_DEADLOCK FALSE
INVARIANT
  ShutdownFlushes
PROPERTIES
  InfoFollowsFlush
  InfoAnswered
  ShutdownReturns
