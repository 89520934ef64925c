SPECIFICATION Spec
CONSTANTS
  MaxRuns = 3
  MaxWrites = 2
  EarlyClicks = FALSE
  OddLines = FALSE
INVARIANT
  PrintedInOrder
PROPERTY
  ServesInTheEnd
CHECK_DEADLOCK FALSE
