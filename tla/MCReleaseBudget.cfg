SPECIFICATION Spec
CONSTANTS
  Process = {p1, p2}
  Programs <- OneProgram
  SourceBytes = 1
  BuildCount = 1
  MaxStarts = 6
  MaxFaults = 2
  Json = 5
  Small = 2
  Control = 3
  Sts = 4
INVARIANTS
  BudgetInv
  NeverExhausted
PROPERTIES
  DamageIsFinal
CHECK_DEADLOCK FALSE
