CONSTANTS
  m1 = m1
  m2 = m2
  m3 = m3
  l1 = l1
  l2 = l2
  NoLink = NoLink
  Media <- ChainMedia
  Links <- ChainLinks
  TriggerEvent <- ChainEvent
  TriggerTrans <- ChainTrans
  ActionType <- ChainType
  ActionTarget <- ChainTarget
  Guarded <- ChainGuarded
  RepeatLinks = {}
  RepeatCount = 2
  MaxCommands = 2
SPECIFICATION FairSpec
PROPERTIES
  EvaluationsFinish
CHECK_DEADLOCK FALSE
