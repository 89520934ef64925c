\* Three fibers, four frames, one variable outside the stacks.
CONSTANTS
  Root = main
  Child = child
  Grandchild = grandchild
  Fibers = {main, child, grandchild}
  Parent <- MCParent
  Chain <- MCChain
  Shared = {global}
  Null = Null
  CallbackPointers = FALSE
  LocalsLeftBehind = FALSE
  MaxFrames = 4
SPECIFICATION Spec
\* The program ends when main returns, or with a run-time error
CHECK_DEADLOCK FALSE
INVARIANTS
  FramesCounted
  PointersLive
  AlarmsTrue
