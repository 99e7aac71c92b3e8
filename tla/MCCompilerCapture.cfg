SPECIFICATION Spec
CONSTANTS
  Programs <- CapturePrograms
  Levels = {0, 1}
  Oracles <- MCOracles
  Schedules <- MCSchedules
  Classes <- MCClasses
  Attributes <- MCAttributes
  EnumOf <- MCEnumOf
  StubThreshold = 30
  Order <- MCOrder
  Discriminators <- MCDiscriminators
INVARIANT SameMeaning
CHECK_DEADLOCK FALSE
