SPECIFICATION Spec
CONSTANTS
  Session = {s1, s2}
  Batch = {b1}
  MaxFiles = 1
  DrainLimit = 2
  MaxCrashes = 0
  MaxErrors = 0
INVARIANTS
  SavedIsKept
