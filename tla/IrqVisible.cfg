CONSTANTS
  Lines = 24
  Byte = 20
  VbStart = 15
  SoundLine = 7
  SprAdd = 2
  MaxLate = 1
  SprYs <- MCApartSprYs
  WriteLines <- MCEarlyVblank
  RestYs <- MCApartSprYs
  RestLines <- MCEarlyVblank
SPECIFICATION Spec
PROPERTIES VisibleHitRecurs
