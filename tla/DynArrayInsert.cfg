SPECIFICATION Spec
CONSTANTS
  Vars = {v, w}
  Stores = {1, 2, 3}
  x1 = x1
  x2 = x2
  Strings = {x1}
  Null = Null
  MaxLen = 3
  Rank <- MCRank
  ItemOfItself = TRUE
  CompareAlters = FALSE
PROPERTIES
  ListSpec
