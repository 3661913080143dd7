\* A write cut off between key and value
CONSTANTS
  NumKeys = 2
  NumSlots = 4
  Values = {9, 20}
  MaxCrashes = 1
SPECIFICATION EepromSpec
INVARIANT OnlyWrittenValues
