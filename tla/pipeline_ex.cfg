SPECIFICATION RunSpec
CONSTANTS
  WordMod = 16
  HalfMod = 8
  UpperUnit = 1
  NumRegs = 4
  DataBase = 2
  CounterMod = 1
  Programs <- ControlAndDataPrograms
  Modes <- MixedModes
INVARIANTS
  PathPredicted
  HazardsResolved
  OperandsArchitectural
  ExMemResultForwardable
PROPERTIES
  RunImplementsSingleCycle
  KeepsExecuting
  Drains
