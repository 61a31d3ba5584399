SPECIFICATION Spec
CONSTANTS
  RunCount = 3
  Slots = 2
  MaxKills = 2
CHECK_DEADLOCK FALSE
INVARIANTS
  TypeOK
  SlotExclusive
  InfoNamesHolder
PROPERTIES
  NoOvertaking
  EveryWaiterServed
