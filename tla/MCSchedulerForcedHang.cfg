CONSTANTS
  MaxThreads = 3
  ThreadHint = 2
  MaxWorkloads = 3
  WakeFanout = 4
  FanoutThreshold = 8
  ForcedMode = "Fanout"
  Failures = {}
SPECIFICATION FairSpec
PROPERTIES CallsReturn
CHECK_DEADLOCK FALSE
