SPECIFICATION Spec
CONSTANTS
  Programs <- MCPrograms
  Levels = {0, 1, 2}
  Oracles <- MCOracles
  Schedules <- MCSchedules
  Classes <- MCClasses
  Attributes <- MCAttributes
  EnumOf <- MCEnumOf
  StubThreshold = 12
  Order <- MCOrder
  Discriminators <- MCDiscriminators
INVARIANTS SameMeaning SuspensionInvisible StaysSsa DefinitelyAssigned ConstructionAtomic FuturesOnWorkers
CHECK_DEADLOCK FALSE
