SPECIFICATION HostSpec
CONSTANTS
  Hosted = {"controller"}
  States = {"uninitialized"}
  Uninitialized = "uninitialized"
  Directions = {"outgoing"}
  Addrs = {"a", "b", "c", "d"}
  BadPort = "badPort"
  Undefined = "undefined"
  Paths = {"p1", "p2"}
  Configurations <- PutConfigs
  Traffic = FALSE
  None = None
  VariableNames = {"desk", "nobody", "10", "0"}
  LongNumbers <- MCLongNumbers
  PutContents <- MCPutContents
  PutTexts <- MCPutTexts
  Cuts <- MCCuts
  MuteAlls <- MCMuteAlls
  NoneStored = NoneStored
  Connection = {1, 2}
  Requests <- MCRequests
  MaxRequestBytes = 5
  Browsers = {b1}
  HistorySize = 2
  LogBound = 4
  RunBound = 2
  NoStream = NoStream
  Pages = {p1}
  PageRoutes = {r1, r2}
  FlightBound = 2
  InAddrs = {i1}
  OutAddrs = {o1, o2}
  NoAddr = NoAddr
  FilePaths = {f1}
  MaxEdits = 2
INVARIANT IdsCoverRoutes
