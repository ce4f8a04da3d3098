CONSTANTS
  MaxThreads = 4
  MaxWorkloads = 4
  Failures = {"error"}
  Dimensions <- MCDimensions
  Thresholds <- MCThresholds
  KernelMws <- MCKernelMws
  Upper <- MCUpper
  Broadcasts <- MCBroadcasts
SPECIFICATION Spec
INVARIANTS ExactlyOnce PartsAreWindows SmallestWindow GridFits LoopsRunOnce IteratorsFollow SlicesAreTheWindow CollapsedIsTheSame
