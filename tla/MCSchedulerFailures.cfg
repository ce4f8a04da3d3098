CONSTANTS
  MaxThreads = 4
  ThreadHint = 3
  MaxWorkloads = 4
  WakeFanout = 2
  FanoutThreshold = 2
  ForcedMode = "None"
  Failures = {"error", "system"}
SPECIFICATION FairSpec
INVARIANTS ReturnTellsTruth
PROPERTIES ImplementsBatch CallsReturn
