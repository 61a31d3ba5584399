SPECIFICATION Spec
CONSTANTS
  Callers = {c1, c2, c3, c4}
  c1 = c1
  c2 = c2
  c3 = c3
  c4 = c4
  FailureThreshold = 3
  RecoveryTimeout = 3
  HalfOpenMax = 3
  MaxSkew = 1
  MayLoseResult = TRUE
SYMMETRY CallerSymmetry
INVARIANTS
  TypeOK
  ClosedBelowThreshold
  HalfOpenWithinQuota
PROPERTIES
  FailFast
