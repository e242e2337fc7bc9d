SPECIFICATION Spec
CONSTANTS
  Byte = 8
  Size = 11
  Program <- MCProgram
  NReg = 4
  HELLO0 = 1
  HELLO1 = 2
  KICK = 3
  READY = 7
  GO = 6
  Tables <- MCTables
INVARIANTS TypeOK UploadExact HeardWithinOne
PROPERTIES GameGoesOn
