SPECIFICATION Spec
CONSTANTS
  WordMod = 16
  HalfMod = 8
  UpperUnit = 1
  NumRegs = 4
  DataBase = 2
  CounterMod = 4
  Programs <- SmallPrograms
  Modes <- MixedModes
INVARIANTS
  TypeOK
  MispredictionCountsAgree
PROPERTIES
  CyclesAccounted
  ImplementsSingleCycle
