SPECIFICATION Spec
CONSTANTS
  Tasks = {t1,t2}
  t1 = t1
  t2 = t2
  DeviceIds = {1, 2, 5}
  Versions = {1, 2}
  Cells <- MCCells
  OriginCell = 0
  Packets <- LivenessPackets
  Word <- MCWord
  MaxPacketSize = 100
  SealOverhead = 28
  CacheCapacity = 1
  CdnRoute <- MCCdnRoute
  NoNode = NoNode
  NoFrame = NoFrame
  NoVersion = NoVersion
  NoPacket = NoPacket
  MaxRestarts = 1
CHECK_DEADLOCK FALSE
INVARIANTS
  FrameIsTheDevices
