SPECIFICATION Spec
CONSTANTS
  Gates = {g1, g2, g3}
  g1 = g1
  g2 = g2
  g3 = g3
  MaxInflight = 5
  HighMark = 4
  LowMark = 2
  MaxQueueLen = 2
  QueueLens = {0, 1, 2}
PROPERTIES
  HighMarkStartsThrottling
