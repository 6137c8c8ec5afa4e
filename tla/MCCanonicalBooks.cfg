SPECIFICATION MCLiveSpec
CONSTANTS
  a = a
  b = b
  v = v
  f1 = f1
  f2 = f2
  Client = {a, b}
  VenueId <- CollidingIds
  Simulated = {b}
  Qty <- MixedQty
  Fill = {f1, f2}
  FillQty <- UnitFills
  HasFee = {f1}
  Capacity = 1
  RefusedImports = TRUE
  MaxAmends = 1
  MaxRevision = 2
  MaxCrashes = 1
INVARIANTS
  BooksInv
  ExposureCovered
  TradesReconciled
PROPERTIES
  TerminalStays
  FillsAccounted
  QueuedSettles
CHECK_DEADLOCK FALSE
