SPECIFICATION FairSpec
CONSTANTS
  Peripherals = 2
  PacketInterval = 2
  CalculateInterval = 1
  LogInterval = 2
  ClientStart = 1
  AttackDelay = 2
  Duration = 4
  CyberAttack = TRUE
  MaxUid = 60
INVARIANTS
  NoFault OneChain BadHasSource FramesComplete RadioInv
PROPERTIES KnowledgeMonotone EngineSpec Terminates
