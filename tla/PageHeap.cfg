SPECIFICATION Spec
CONSTANTS
  Blocks = {1, 2, 3}
  Vars = {v1, v2}
  Weaks = {w}
  Main = Main
  Child = Child
  Fibers = {Main, Child}
  Root = Main
  Parent <- MCParent
  Chain <- MCChain
  Slots = {s}
  ChunkSizes = {1, 3}
  PageSize = 2
  MaxBlacklisted = 2
  FinalizerChoices = {FALSE, TRUE}
  TempsAcrossYield = FALSE
  MaxAllocs = 3
  Null = Null
SYMMETRY MCSymmetry
INVARIANTS
  TypeOK
  CountsExact
  ListsPartition
  RefsIntact
  ChainTempsProtected
  WeakExact
  CachesCurrent
  FinalizedOnce
CHECK_DEADLOCK FALSE
