SPECIFICATION FairSpec
CONSTANTS
  Peers = {1, 2}
  WaitReplyTimeout = 2
  AliveTimeout = 1
  DeadTimeout = 1
  MaxRetries = 1
  PendingQueueSize = 2
  MaxPackets <- Packets
  LastSend = 6
  MaxOnAir = 1
INVARIANTS NoFault TimerServesAll PendingWhileWaiting Patience
PROPERTIES InOrder Resolved
