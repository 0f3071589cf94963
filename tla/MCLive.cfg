CONSTANTS
  N = 1
  Channels = {1}
  Levels = {0, 1}
  Absent = Absent
  None = None
  Discarded = Discarded
  t1 = t1
  Threads = {t1}
  Codes <- MCCodes
  Priorities = {1}
  Values = {0, 1}
  SeqSize = 2
  SeqWindow = 1
  LevelChangesOnly = TRUE
  Leaving = {1}
  Mutes = {TRUE, FALSE}
  Prompt = TRUE
  Addr = {1, 2}
  Configured = {1}
  Dst = 1
  Reconnects = TRUE
  MaxTcp = 2
  MaxFrames = 0
  Gone = Gone
SPECIFICATION MCSpec
INVARIANTS RoutedCurrent
PROPERTIES SilentForgottenOrGhost ThreadsAreReaped
CHECK_DEADLOCK FALSE
