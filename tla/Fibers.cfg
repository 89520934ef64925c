SPECIFICATION Spec
CONSTANTS
  Main = Main
  Fibers = {Main, a, b, c}
  Boundary = Boundary
  NoFiber = NoFiber
  OrphansAllowed = FALSE
  YieldInNested = FALSE
  MaxNesting = 6
  MaxCalls = 3
SYMMETRY MCSymmetry
INVARIANTS
  TypeOK
  ReturnsMatch
  RunningIsVmFiber
  FamilyKept
PROPERTIES
  HostLeavesNoTrace
  DeadIsFinal
CHECK_DEADLOCK FALSE
