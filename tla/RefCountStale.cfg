SPECIFICATION Spec
CONSTANTS
  Objs = {o1, o2, n}
  Handles = {n}
  Vars = {u, v}
  HostVars = {}
  HostKept = {n}
  Width = 1
  Addressed = {1}
  AddressesKept = TRUE
  Null = Null
  StaleLhs = TRUE
  CountsInOnFree = FALSE
SYMMETRY MCSymmetry
INVARIANTS
  ReachableAlive
CHECK_DEADLOCK FALSE
