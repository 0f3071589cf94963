CONSTANTS
  InAddrs = {i1}
  OutAddrs = {o1, o2}
  NoAddr = NoAddr
  FilePaths = {p}
  MaxEdits = 2
SPECIFICATION DeskSpec
INVARIANT MutesRunningRoute
CHECK_DEADLOCK FALSE
