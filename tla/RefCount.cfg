SPECIFICATION Spec
CONSTANTS
  Objs = {o1, o2, n}
  Handles = {n}
  Vars = {u, v, h}
  HostVars = {h}
  HostKept = {n}
  Width = 2
  Addressed = {1}
  AddressesKept = FALSE
  Null = Null
  StaleLhs = FALSE
  CountsInOnFree = FALSE
SYMMETRY MCSymmetry
INVARIANTS
  CountsExact
  ReachableAlive
  ReclaimedOnce
CHECK_DEADLOCK FALSE
