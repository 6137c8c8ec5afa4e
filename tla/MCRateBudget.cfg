SPECIFICATION Spec
CONSTANTS
  a1 = a1
  a2 = a2
  aX = aX
  e1 = e1
  eX = eX
  Account <- MCAccount
  Egress <- MCEgress
  Configured <- MCConfigured
  Quota <- MCQuota
  Interval <- MCInterval
  MaxTime = 6
INVARIANTS
  PacedAdmissions
PROPERTIES
  RejectionIsFree
