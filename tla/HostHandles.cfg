SPECIFICATION Spec
CONSTANTS
  Strings = {s1, s2}
  Boxes = {o1, o2}
  Blocks = {b1, b2, b3}
  StrCells = {s}
  StructCells = {t}
  AnyCells = {a1, a2}
  Handles = {h1, h2}
  Base = "struct"
  Null = Null
  RetainedAnyAssigned = FALSE
SYMMETRY MCSymmetry
INVARIANTS
  HandlesSound
  SelvesAlive
PROPERTIES
  RetainedStays
