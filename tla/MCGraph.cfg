CONSTANTS
  MaxSources = 2
  MaxNodes = 4
  Widths = {2}
  MaxWidth = 4
  Operations = {"Conv", "Act", "Elt", "Concat", "Split", "FullyConnected"}
  Examples <- MCExamples
SPECIFICATION Spec
INVARIANTS GraphConsistent OrderIsTopological FirstInputNotShared ReadWhileManaged WeightsReleased SupportedGraphRuns
PROPERTIES ImplementsDataflow
CHECK_DEADLOCK FALSE
