CONSTANTS
  Lines = 24
  Byte = 20
  VbStart = 15
  SoundLine = 7
  SprAdd = 2
  MaxLate = 1
  SprYs <- MCSprYs
  WriteLines <- MCSomeLines
  RestYs <- MCApartSprYs
  RestLines <- MCEarlyVblank
SPECIFICATION Spec
INVARIANTS TypeOK OncePerFrame
PROPERTIES MissedOnlyAstray RestedNmiRecurs
