SPECIFICATION Spec
CONSTANTS
  Devices = {d1,d2}
  d1 = d1
  d2 = d2
  Rate = 2
  Cost = 3
  Burst = 2
  PurgeThresholds = {1, 3}
  NoBucket = NoBucket
  MaxSkew = 0
  MaxTime = 7
  MaxEarly = 1
CHECK_DEADLOCK FALSE
SYMMETRY DeviceSymmetry
INVARIANTS
  TypeOK
  RateBound
  WaitingSuffices
