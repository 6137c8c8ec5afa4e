SPECIFICATION MCLiveSpec
CONSTANTS
  s1 = s1
  s2 = s2
  b1 = b1
  b2 = b2
  b3 = b3
  Session = {s1, s2}
  Batch = {b1, b2, b3}
  MaxFiles = 1
  DrainLimit = 1
  MaxCrashes = 1
  MaxErrors = 1
INVARIANTS
  SpoolInv
  SpoolBounded
PROPERTIES
  SpoolEmpties
