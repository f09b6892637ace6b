SPECIFICATION FairSpec
CONSTANTS
  Types = {ready, debug}
  Enabled = {ready}
  QueueCap = 2
  MaxNotify = 5
  NoEvent = NoEvent
PROPERTIES ImplementsBestEffort ShutdownEnds
CHECK_DEADLOCK FALSE
