SPECIFICATION Spec
CONSTANTS
  NPalettes = 2
  NEntries = 1
  Backdrop = 0
  Colours = {0, 1}
  ScreenColours = {0, 1, 2}
  nes2snespalette <- MCTable
  Carry = TRUE
  NSprites = 1
  Bytes = {0, 1}
  Pages <- MCPages
  SpriteFlags <- MCSpriteFlags
  Garbage <- MCGarbage
INVARIANTS TypeOK CopyShownOrFlagged
PROPERTIES FlagsUnseen SpritesLikeNes ShownInTheEnd
