SPECIFICATION Spec
CONSTANTS
  Keys <- CloseKeys
  Items = {0, 1}
  Zero = 0
  Nodes = {n1, n2, n3, n4}
  Root = Root
  Priorities = {1, 2}
  Width = 3
  Nil = Nil
SYMMETRY MCSymmetry
INVARIANTS
  SearchTree
PROPERTIES
  WalkProgresses
  MapSpec
