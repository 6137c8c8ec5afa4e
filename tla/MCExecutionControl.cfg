SPECIFICATION MCFairSpec
CONSTANTS
  Client = {c1}
  Intent = {i1}
  BatchSize = 2
  EventLimit = 1
  MaxStream = 0
  MaxEvents = 0
  MaxCommands = 3
  Ungated = {"cancel", "replace"}
  MaxUngated = 2
INVARIANTS
  ControlInv
  HaltStopsTrading
PROPERTIES
  PausedIntentsStayUnsent
  SnapshotIsQuiet
  Spec
  EmergencyCloses
