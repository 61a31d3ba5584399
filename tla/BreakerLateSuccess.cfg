SPECIFICATION Spec
CONSTANTS
  Callers = {c1, c2, c3}
  c1 = c1
  c2 = c2
  c3 = c3
  FailureThreshold = 2
  RecoveryTimeout = 3
  HalfOpenMax = 2
  MaxSkew = 0
  MayLoseResult = FALSE
PROPERTIES
  ClosesWhenAllTrialsSucceeded
