SPECIFICATION Spec
CONSTANTS
  Devices = {d1}
  d1 = d1
  Rate = 2
  Cost = 3
  Burst = 2
  PurgeThresholds = {1, 3}
  NoBucket = NoBucket
  MaxSkew = 1
  MaxTime = 8
  MaxEarly = 1
CHECK_DEADLOCK FALSE
INVARIANTS
  RateBound
