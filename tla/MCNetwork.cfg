CONSTANTS
  Parts = {"levels", "sockets", "buffers"}
  N = 2
  Channels = {1}
  Levels = {0, 1}
  Absent = Absent
  None = None
  Discarded = Discarded
  t1 = t1
  Threads = {t1}
  Codes <- TwoSources
  Priorities = {1}
  Values = {1}
  SeqSize = 1
  SeqWindow = 0
  LevelChangesOnly = FALSE
  Leaving = {}
  Mutes = {}
  Prompt = FALSE
  NoEntry = NoEntry
  Setups <- MCSetups
  Room = 1
  QueueBound = 1
  BufWorkers = {w1, w2}
  BufApp = app
  BufSocks = {1, 2}
  Reserved = 1
  MaxBuffers = 3
  NoOwner = NoOwner
  NoSock = NoSock
SPECIFICATION MCSpec
INVARIANTS TypeOK CleanMerged DataOnlyByRace SocketsSound BuffersSound
CONSTRAINT RacesOfFirst
CHECK_DEADLOCK FALSE
