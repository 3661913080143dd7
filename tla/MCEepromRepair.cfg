\* A repair cut off
CONSTANTS
  NumKeys = 2
  NumSlots = 4
  Values = {9}
  MaxCrashes = 2
SPECIFICATION EepromSpec
PROPERTY RepairKeepsValues
