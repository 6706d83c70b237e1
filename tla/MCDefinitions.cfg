SPECIFICATION Spec
CONSTANTS
  Tokens = {"/", "_", ".log", "p", "a", "2025", "10", "26", "27", "02", "30"}
  Names <- MCNames
  Settings <- MCSettings
  Calendar <- MCCalendar
  Idle = 1
  QueueCap = 2
  MaxBacklog = 3
  MaxFiles = 2
INVARIANTS TypeOK InTimeIsKept StampsTellTime SharedOnlyByPeriod
PROPERTY EntriesKept
