------------------------------- MODULE Palette -------------------------------
(***************************************************************************)
(* The palettes: paletteW keeps the colours in Palettebuffer and flags the *)
(* palettes to convert in UpdatePalette; the vertical blanking handler     *)
(* converts the flagged ones into the colour ram (UpdatePalettes).         *)
(***************************************************************************)
EXTENDS NmiControl

CONSTANTS
  NPalettes,       \* 8
  NEntries,        \* 4
  Backdrop,        \* the palette of address $3F10, whose first entry is mirrored
  Colours,         \* bytes the game writes
  ScreenColours,
  nes2snespalette, \* the conversion table
  Carry            \* the carry flag when InitUpdateFlags rotates its bit

Palettes == 0..NPalettes - 1
Entries  == 0..NEntries - 1

ASSUME PaletteAssumption ==
  /\ NPalettes \in Nat \ {0} /\ NEntries \in Nat \ {0}
  /\ Backdrop \in Palettes
  /\ 0 \in Colours /\ 0 \in ScreenColours
  /\ nes2snespalette \in [Colours -> ScreenColours]
  /\ Carry \in BOOLEAN

VARIABLES
  Palettebuffer,  \* Palettebuffer[p][e]
  UpdatePalette,  \* the palettes to convert
  cgram           \* the palettes in the colour ram

paletteVars == <<Palettebuffer, UpdatePalette, cgram, NESNMIENABLED>>

PaletteTypeOK ==
  /\ Palettebuffer \in [Palettes -> [Entries -> Colours]]
  /\ UpdatePalette \subseteq Palettes
  /\ cgram \in [Palettes -> [Entries -> ScreenColours]]
  /\ NESNMIENABLED \in BOOLEAN

Zeroes == [e \in Entries |-> 0]

PaletteInit ==
  /\ Palettebuffer = [p \in Palettes |-> Zeroes]
  /\ UpdatePalette = {}
  /\ cgram = [p \in Palettes |-> Zeroes]
  /\ NESNMIENABLED = TRUE

-----------------------------------------------------------------------------

\* Mutant of UpdateFlags: the bit of the next palette.
UpdateFlagsNext(p) == {p + 1}

\* The flags InitUpdateFlags prepares for a palette.  Its rotations start from
\* whatever carry it is called with, which then follows the bit.
UpdateFlags(p) == {q \in Palettes : q = p \/ (Carry /\ q + 1 = p)}

WritePalette(p, e, c) ==
  /\ <<p, e>> # <<Backdrop, 0>>
  /\ Palettebuffer' = [Palettebuffer EXCEPT ![p] = [@ EXCEPT ![e] = c]]
  /\ UpdatePalette' = UpdatePalette \cup UpdateFlags(p)
  /\ UNCHANGED <<cgram, NESNMIENABLED>>

\* Mutant of UpdateAllMirrorColors: only the palette written is flagged.
MirrorFlagsOne(c) ==
  /\ Palettebuffer' = [p \in Palettes |-> [Palettebuffer[p] EXCEPT ![0] = c]]
  /\ UpdatePalette' = UpdatePalette \cup UpdateFlags(Backdrop)
  /\ UNCHANGED <<cgram, NESNMIENABLED>>

UpdateAllMirrorColors(c) ==
  /\ Palettebuffer' = [p \in Palettes |-> [Palettebuffer[p] EXCEPT ![0] = c]]
  /\ UpdatePalette' = Palettes
  /\ UNCHANGED <<cgram, NESNMIENABLED>>

\* Bit 7 of $2000.
PaletteControl1(enabled) ==
  /\ NESNMIENABLED' = enabled
  /\ UNCHANGED <<Palettebuffer, UpdatePalette, cgram>>

ConvertedPalette(p) == [e \in Entries |-> nes2snespalette[Palettebuffer[p][e]]]

\* Mutant of UpdatePalettes: the last palette is forgotten.
UpdatePalettesButLast ==
  /\ cgram' = [p \in Palettes |-> IF p \in UpdatePalette \ {NPalettes - 1}
                                    THEN ConvertedPalette(p) ELSE cgram[p]]
  /\ UpdatePalette' = {}

UpdatePalettes ==
  /\ cgram' = [p \in Palettes |-> IF p \in UpdatePalette THEN ConvertedPalette(p) ELSE cgram[p]]
  /\ UpdatePalette' = {}

\* The handler converts nothing while the game has its interrupt disabled.
PaletteHandler ==
  /\ NESNMIENABLED
  /\ UpdatePalettes
  /\ UNCHANGED <<Palettebuffer, NESNMIENABLED>>

PaletteNext ==
  \/ \E p \in Palettes, e \in Entries, c \in Colours : WritePalette(p, e, c)
  \/ \E c \in Colours : UpdateAllMirrorColors(c)
  \/ \E enabled \in BOOLEAN : PaletteControl1(enabled)
  \/ PaletteHandler

PaletteSpec == PaletteInit /\ [][PaletteNext]_paletteVars

-----------------------------------------------------------------------------
(* Correctness.                                                            *)

\* A palette as the reset routine left it, on both sides.
AsReset(p) == Palettebuffer[p] = Zeroes /\ cgram[p] = Zeroes

\* A palette that the colour ram does not show as the game wrote it is flagged:
\* no order of writes, mirrored writes and interrupts, enabled or not, loses one.
StaleIsFlagged ==
  \A p \in Palettes : p \in UpdatePalette \/ cgram[p] = ConvertedPalette(p) \/ AsReset(p)

PalettePromise == INSTANCE NesPalette WITH
  First <- 0, Black <- 0, Reset <- 0, Convert <- nes2snespalette,
  colours <- Palettebuffer, screen <- cgram

\* The flags are not seen: at each interrupt that is served the screen changes
\* to all that was written, as if every palette were converted.
FlagsUnseen == PalettePromise!Spec
=============================================================================
