SPECIFICATION Spec
CONSTANTS
  Price = {1, 2}
  Quantity = {1}
  Depth = 1
  MaxId = 3
  MaxLog = 6
  MaxBuffer = 1
INVARIANTS
  LaneInv
  ReplayParity
CHECK_DEADLOCK FALSE
