SPECIFICATION FairSpec
CONSTANTS
  Threads = {"t1", "t2"}
  Levels = {"debug", "info", "error"}
  Enabled = {"debug", "info"}
  MaxLogFileSize = 1
  FlushThreshold = 3
  MaxMessages = 3
  MaxRestarts = 1
INVARIANTS WholeLines OnlyTheFirstRollIsLost
PROPERTY LogReturns
CHECK_DEADLOCK FALSE
