SPECIFICATION MCSpec
CONSTANTS
  Devices = {"otp"}
  Nibble = 2
  ArtSize = 2
  ArtLevel = {0, 1}
  ArtSource = {"s1", "s2", "s3"}
  NoSource = NoSource
  LevelChangesOnly = TRUE
  MaxFrames = 4
  ArtRoutes <- MCArtRoutes
  ArtMutes <- MCArtMutes
  ArtOsc <- MCArtOsc
  ArtTraffic <- MCArtTraffic
  Tracker = {1, 2, 3}
  PsnSplits <- MCPsnSplits
  PsnIds = 3
  MaxPsnFrames = 7
  MaxPsnFaults = 3
  OtpProducer = {"router", "desk"}
  OtpConsumer = {"c1"}
  OtpSystem = {1}
  OtpPoint = {1, 2}
  Listening = {1}
  ModuleType = {"pos", "rot"}
  OtpPriority = {1, 2}
  OtpModules <- MCOtpModules
  OtpTypes = {{"pos"}, {"pos", "rot"}}
  MaxSets = 2
  MaxOtpSocket = 2
  RelayPoints <- MCRelayPoints
  RelayTypes <- MCRelayTypes
  RelayOsc <- MCRelayOsc
  MaxRelay = 2
  AdvHosts = {1, 2}
  AdvReaders = {1, 3}
  AdvPoints <- MCAdvPoints
  MaxAsks = 2
  MaxAnswers = 4
  RingMessage = {m1, m2}
  NoRingMessage = NoRingMessage
  Torn = Torn
  RingSize = 3
  MidiBackends = {"core", "alsa", "winmm", "uwp", "jack", "android", "web"}
  MidiParts = {1, 2}
  MidiQueueSize = 1
  MaxMidi = 3
  OutApis = {"core", "alsa", "winmm", "uwp", "jack", "android", "web"}
  OutMessages <- MCOutMessages
  PacketSize = 2
  ShortSize = 3
  CoderSize = 2
  JackSize = 6
  JackHeader = 2
  MaxOut = 3
  MaxOutFaults = 2
  PortApis <- MCPortApis
  MaxPortFaults = 3
  ShowPaths <- MCShowPaths
  ShowTexts <- MCShowTexts
  ShowNumbers <- MCShowNumbers
  MaxHops = 3
  CvCases <- MCCvCases
  Unlimited = Unlimited
  NoText = NoText
CHECK_DEADLOCK FALSE
INVARIANT AllRepaired
