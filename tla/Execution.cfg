SPECIFICATION Spec
CONSTANTS
  CaseConstants = {1, 2}
  ValueForms = {"call", "choice"}
  CondForms = {"test", "call", "and", "or"}
  MaxSize = 3
  MaxNesting = 2
  JumpsInTypeSwitch = FALSE
INVARIANTS
  FollowsSource
  StackBalanced
  OwnedOnce
  CompilerSound
CHECK_DEADLOCK FALSE
