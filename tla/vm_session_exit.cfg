SPECIFICATION HSpec
CONSTANTS
  WordMod = 16
  HalfMod = 8
  UpperUnit = 1
  NumRegs = 4
  DataBase = 2
  Programs <- JustRead
  Limits = {2}
  Lines = {5}
  ReadCall <- ReadInstr
  A0 = 1
  A1 = 2
  UserPoints = {1}
  UserAddresses = {2}
  UserValues = {3}
  MaxCommands = 3
PROPERTY
  CleanExit
CHECK_DEADLOCK FALSE
