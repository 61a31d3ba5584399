SPECIFICATION LocksSpec
CONSTANTS
  Tasks = {t1,t2}
  Monitors = {m1}
  Free = Free
  t1 = t1
  t2 = t2
  m1 = m1
  DeviceIds = {1, 2}
  Versions = {1}
  Cells <- MCCells
  OriginCell = 0
  Packets <- InputPackets
  Word <- MCWord
  MaxPacketSize = 100
  SealOverhead = 28
  CacheCapacity = 1
  CdnRoute <- MCCdnRoute
  NoNode = NoNode
  NoFrame = NoFrame
  NoVersion = NoVersion
  NoPacket = NoPacket
  MaxRestarts = 1
CHECK_DEADLOCK FALSE
INVARIANTS
  LocksTypeOK
  LocksAscend
  SnapshotsConsistent
PROPERTIES
  ImplementsPipeline
  EveryPacketResolved
