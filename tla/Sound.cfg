SPECIFICATION LengthSpec
CONSTANTS
  Indexes = {0, 1, 2}
  Length <- MCLength
  Switches <- MCSwitches
  SNDTMP4013 = 0
  Garbage <- MCGarbage
INVARIANTS LengthTypeOK
PROPERTIES LengthsLikeNes NotesEnd
