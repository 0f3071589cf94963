SPECIFICATION MCSpec
CONSTANTS
  N = 3
  Channels <- MCChannels
  Levels <- MCLevels
  Inputs <- MCInputs
  Leftovers <- MCLeftovers
  Absent = Absent
  RouteCount = 2
  Protocols = {"OSC", "sACN"}
  Ports = {1, 2}
  Senders = {0, 1}
  Paths <- MCPaths
  Wildcards <- MCWildcards
  Covers <- MCCovers
  NoPath = NoPath
  None = None
  Addr = {1, 2}
  Configured = {1}
  Dst = 1
  Reconnects = TRUE
  MaxTcp = 1
  MaxFrames = 2
  Gone = Gone
INVARIANTS
  HighestPriorityWins RoutedUnderAController
  RoutedExactlyOnce ServedInOrder SoleOwner FramesFollow
\* the pass over the sources ends, the table is built, and the router is stopped
CHECK_DEADLOCK FALSE
