SPECIFICATION MCFairSpec
CONSTANTS
  Client = {c1}
  Intent = {i1, i2}
  BatchSize = 1
  EventLimit = 1
  MaxStream = 2
  MaxEvents = 3
  MaxCommands = 1
INVARIANTS
  OpenIntakeIsHealthy
  LatestStreamApplied
PROPERTIES
  AcknowledgedMeansApplied
  PauseOutlivesRecovery
  EveryIntentDecided
  RecoveryCompletes
