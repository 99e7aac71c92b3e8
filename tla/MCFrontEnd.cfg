SPECIFICATION BothSpec
CONSTANTS
  Decls <- MCDecls
  Sigs <- MCSigs
  DropInstances <- MCDropInstances
  Programs <- MCPrograms
  Classes <- TypingClasses
  Enums <- TypingEnums
  InScope = {}
  Instances <- TypingInstances
  Untyped <- TypingPrograms
  WatchFrom = 20
  MaxPasses = 100
  PassOver <- TypingPass
INVARIANTS UsedOnce DropsOnlyRelease NothingUntraced DropsSuffice CyclesNamed
PROPERTIES OnlyWidens FlowsHold OrderMakesNoDifference
CHECK_DEADLOCK FALSE
