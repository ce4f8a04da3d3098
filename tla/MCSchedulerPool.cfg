CONSTANTS
  MaxThreads = 5
  ThreadHint = 5
  MaxWorkloads = 5
  WakeFanout = 2
  FanoutThreshold = 2
  ForcedMode = "None"
  Failures = {}
SPECIFICATION Spec
INVARIANTS TypeOK StartsUnstarted ReturnQuiescent NoLostWakeup
PROPERTIES ImplementsBatch
