SPECIFICATION Spec
CONSTANTS
  p1 = p1
  p2 = p2
  Producers = {p1, p2}
  Askers = {}
  Stoppers = {"s1"}
  Logs = {"x"}
  AutoRemove = {"x"}
  ChannelCapacity = 1
  QueueMax = 2
  MaxSends = 3
  MaxBreaks = 1
  Calls = {"def", "flush", "rules"}
  Breakdowns = {"failing"}
SYMMETRY Symmetry
CHECK_DEADLOCK FALSE
INVARIANTS
  TypeOK
  DropsAccounted
  ProducerOrder
PROPERTY
  EntriesConserved
