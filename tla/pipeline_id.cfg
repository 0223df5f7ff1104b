SPECIFICATION RunSpec
CONSTANTS
  WordMod = 16
  HalfMod = 8
  UpperUnit = 1
  NumRegs = 4
  DataBase = 2
  CounterMod = 4
  Programs <- LinkFreePrograms
  Modes <- MixedModes
INVARIANTS
  OnlyBranchesPredicted
  SequentialUnlessBranch
  BranchOperandsArchitectural
  OperandsArchitectural
  ExMemResultForwardable
PROPERTIES
  CyclesAccounted
  RunImplementsSingleCycle
  KeepsExecuting
  Drains
