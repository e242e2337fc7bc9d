------------------------------- MODULE Vblank --------------------------------
(***************************************************************************)
(* The handler of the vertical blanking: the palettes and the sprites of   *)
(* the game are put on screen together, and neither of them while the game *)
(* has its interrupt disabled.  The accesses of the game come in any       *)
(* order between two interrupts.                                           *)
(***************************************************************************)
EXTENDS Palette, Sprites

paletteOnly == <<Palettebuffer, UpdatePalette, cgram>>
spritesOnly == <<SpriteMemoryAddress, SpriteMemoryBase, UpdateSprites, oam, copied>>
vars        == <<NESNMIENABLED, paletteOnly, spritesOnly>>

Init == PaletteInit /\ SpritesInit

-----------------------------------------------------------------------------

PaletteAccess ==
  /\ \/ \E p \in Palettes, e \in Entries, c \in Colours : WritePalette(p, e, c)
     \/ \E c \in Colours : UpdateAllMirrorColors(c)
  /\ UNCHANGED spritesOnly

SpriteAccess ==
  /\ \/ \E a \in Places : WSPRADDR(a)
     \/ \E v \in Bytes : WSPRDATA(v)
     \/ RSPRDATA
     \/ \E page \in Pages : WDMASPRITEMEMACCESS(page)
  /\ UNCHANGED paletteOnly

WriteControl1 == \E enabled \in BOOLEAN : PaletteControl1(enabled) /\ SpritesControl1(enabled)

\* Mutant of NESNMIHandler: the sprites wait for the next interrupt.
NESNMIHandlerPaletteOnly == PaletteHandler /\ UNCHANGED spritesOnly

NESNMIHandler == PaletteHandler /\ SpritesHandler

Next == PaletteAccess \/ SpriteAccess \/ WriteControl1 \/ NESNMIHandler

\* The timer asks for the handler once a frame: module IrqTimer.
Fairness == WF_vars(NESNMIHandler)

Spec == Init /\ [][Next]_vars /\ Fairness

-----------------------------------------------------------------------------
(* Correctness.                                                            *)

\* The types of both, the address of the sprites staying in their buffer.
TypeOK == PaletteTypeOK /\ SpritesTypeOK

\* All the game wrote is on screen.
Shown ==
  /\ \A p \in Palettes : cgram[p] = ConvertedPalette(p) \/ AsReset(p)
  /\ copied => oam = SpriteMemoryBase

\* If the game leaves its interrupt enabled in the end, its screen is complete
\* again and again, however fast it writes: the two flags that ask for a
\* conversion and a transfer are served by the same interrupt.
ShownInTheEnd == <>[]NESNMIENABLED => []<>Shown
=============================================================================
