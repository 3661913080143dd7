\* The EEPROM emulation with power failures
CONSTANTS
  NumKeys = 2
  NumSlots = 4
  Values = {9, 20}
  MaxCrashes = 2
SPECIFICATION EepromFairSpec
INVARIANTS
  EepromTypeOK
  KnownGoodState
PROPERTY
  ImplementsStore
  Settles
