SPECIFICATION LiveSpec
CONSTANTS
  Run = {r1, r2}
  MaxRetries = 2
  MaxCrashes = 3
INVARIANTS
  QueueInv
PROPERTIES
  RecordedNeverRuns
  RequestsFinish
CHECK_DEADLOCK FALSE
