CONSTANTS
  MaxSources = 2
  MaxNodes = 4
  Widths = {2}
  MaxWidth = 4
  Operations = {"Conv", "Act", "Elt", "Concat", "Split"}
  Examples <- MCExamples
SPECIFICATION Spec
INVARIANTS SharedNotInPlace
CHECK_DEADLOCK FALSE
