SPECIFICATION Spec
CONSTANTS
  WordMod = 16
  HalfMod = 8
  UpperUnit = 1
  NumRegs = 4
  DataBase = 2
  CounterMod = 1
  Programs <- TwoPrograms
  Modes <- AlwaysTaken
INVARIANT OnlyBranchesPredicted
