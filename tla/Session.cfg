SPECIFICATION Spec
CHECK_DEADLOCK FALSE
CONSTANTS
  Messages = {m1, m2}
  NoMessage = NoMessage
  Unruly <- AllButNestedRuns
  MaxDepth = 7
INVARIANTS
  ErrorsCaught
  NestingExact
  DeadUnwinds
  ReportsRequest
PROPERTY
  InterruptEnds
