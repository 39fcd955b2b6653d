SPECIFICATION Spec
CONSTANTS
  RotationLimit = 2
  MaxEntries = 5
  MaxClock = 2
  MaxCrashes = 1
  MaxErrors = 2
  SameSecond = FALSE
  Rotate = Rotate
  Torn = Torn
  Garbled = Garbled
INVARIANTS
  FlushedIsKept
  OrderKept
PROPERTIES
  ArchivesAreCompressed
CHECK_DEADLOCK FALSE
