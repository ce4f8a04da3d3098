CONSTANTS
  MaxFusedComponents = 8
  MaxDstTensors = 3
  MaxFusedOperators = 4
  MaxInputs = 2
  MaxOperators = 5
  InputInfos <- MCInputInfos
SPECIFICATION Spec
INVARIANTS OperatorsAreLinear StreamIsOrdered OnlyUnfusableSplits OutputsHoldTheirMeaning RefusedLeavesNoTrace
CHECK_DEADLOCK FALSE
