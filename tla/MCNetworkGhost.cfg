CONSTANTS
  Parts = {"levels"}
  N = 1
  Channels = {1}
  Levels = {0, 1}
  Absent = Absent
  None = None
  Discarded = Discarded
  t1 = t1
  Threads = {t1}
  Codes <- LevelsAndPriorities
  Priorities = {1}
  Values = {1}
  SeqSize = 1
  SeqWindow = 0
  LevelChangesOnly = FALSE
  Leaving = {1}
  Mutes = {}
  Prompt = TRUE
  NoEntry = NoEntry
  Setups <- MCSetups
  Room = 1
  QueueBound = 1
  BufWorkers = {w1, w2}
  BufApp = app
  BufSocks = {1, 2}
  Reserved = 1
  MaxBuffers = 3
  NoOwner = NoOwner
  NoSock = NoSock
SPECIFICATION MCFairSpec
PROPERTY SilentForgotten
CHECK_DEADLOCK FALSE
