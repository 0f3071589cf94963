SPECIFICATION MCSpec
CONSTANTS
  Port = {1}
  Dst = {1}
  To <- AllToAll
  Gone = Gone
  MaxPackets = 2
  Number = {1, 2}
  Size = 2
  Priority = {0, 1, 2}
  Default = 1
  Level = {0, 1}
  OutPackets <- MCOutPackets
  Repeats = 1
  SeqSize = 6
  SeqWindow = 2
  MaxSends = 3
  NoUniverse = NoUniverse
  NoEntry = NoEntry
  Setups <- MCSetups
  Room = 1
  QueueBound = 1
INVARIANTS TypeOK AcceptedIsKept MuteTakesHold EndedIsShown HandlesAreStreams ReceiverFollows
PROPERTIES InOrder QueuesEmpty StreamsSettle KeepsPromise
CHECK_DEADLOCK FALSE
