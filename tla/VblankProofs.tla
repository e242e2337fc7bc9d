---------------------------- MODULE VblankProofs -----------------------------
(* Theorems about modules Palette, Sprites and Vblank: for any number of    *)
(* palettes, entries and sprites, any conversion tables and any pages.      *)
EXTENDS Vblank, TLAPS

(***************************************************************************)
(* The palettes.                                                           *)
(***************************************************************************)

(* A row of colours with one entry replaced is a row of colours. *)
LEMMA RowType ==
  ASSUME NEW row \in [Entries -> Colours], NEW e, NEW c \in Colours
  PROVE  [row EXCEPT ![e] = c] \in [Entries -> Colours]
  OBVIOUS

(* What a palette is converted to is a row of screen colours. *)
LEMMA PaletteConvertedType ==
  ASSUME PaletteTypeOK, NEW p \in Palettes
  PROVE  ConvertedPalette(p) \in [Entries -> ScreenColours]
  BY PaletteAssumption DEF PaletteTypeOK, ConvertedPalette

(* Every step keeps the types. *)
LEMMA PaletteTypeStep == PaletteTypeOK /\ [PaletteNext]_paletteVars => PaletteTypeOK'
<1> SUFFICES ASSUME PaletteTypeOK, [PaletteNext]_paletteVars PROVE PaletteTypeOK'
  OBVIOUS
<1>1. ASSUME NEW p \in Palettes, NEW e \in Entries, NEW c \in Colours, WritePalette(p, e, c)
      PROVE  PaletteTypeOK'
  <2>1. [Palettebuffer[p] EXCEPT ![e] = c] \in [Entries -> Colours]
    BY RowType DEF PaletteTypeOK
  <2>2. Palettebuffer' \in [Palettes -> [Entries -> Colours]]
    BY <1>1, <2>1 DEF PaletteTypeOK, WritePalette
  <2>3. UpdatePalette' \subseteq Palettes
    BY <1>1 DEF PaletteTypeOK, WritePalette, UpdateFlags
  <2> QED
    BY <1>1, <2>2, <2>3 DEF PaletteTypeOK, WritePalette
<1>2. ASSUME NEW c \in Colours, UpdateAllMirrorColors(c)
      PROVE  PaletteTypeOK'
  <2>1. \A p \in Palettes : [Palettebuffer[p] EXCEPT ![0] = c] \in [Entries -> Colours]
    BY RowType DEF PaletteTypeOK
  <2>2. Palettebuffer' \in [Palettes -> [Entries -> Colours]]
    BY <1>2, <2>1 DEF UpdateAllMirrorColors
  <2> QED
    BY <1>2, <2>2 DEF PaletteTypeOK, UpdateAllMirrorColors
<1>3. ASSUME NEW enabled \in BOOLEAN, PaletteControl1(enabled)
      PROVE  PaletteTypeOK'
  BY <1>3 DEF PaletteTypeOK, PaletteControl1
<1>4. CASE PaletteHandler
  <2>1. cgram' \in [Palettes -> [Entries -> ScreenColours]]
    BY <1>4, PaletteConvertedType DEF PaletteTypeOK, PaletteHandler, UpdatePalettes
  <2> QED
    BY <1>4, <2>1 DEF PaletteTypeOK, PaletteHandler, UpdatePalettes
<1>5. CASE UNCHANGED paletteVars
  BY <1>5 DEF PaletteTypeOK, paletteVars
<1> QED
  BY <1>1, <1>2, <1>3, <1>4, <1>5 DEF PaletteNext

(* The variables of the palettes keep their types. *)
THEOREM PaletteTypeCorrect == PaletteSpec => []PaletteTypeOK
<1>1. PaletteInit => PaletteTypeOK
  BY PaletteAssumption DEF PaletteInit, PaletteTypeOK, Zeroes
<1> QED
  BY <1>1, PaletteTypeStep, PTL DEF PaletteSpec

-----------------------------------------------------------------------------

(* The part of the invariant about one palette. *)
Good(p) == p \in UpdatePalette \/ cgram[p] = ConvertedPalette(p) \/ AsReset(p)

(* Every step keeps StaleIsFlagged: what a write makes stale it flags, and the *)
(* interrupt clears the flags of the palettes it has just converted.           *)
LEMMA StaleStep == PaletteTypeOK /\ StaleIsFlagged /\ [PaletteNext]_paletteVars => StaleIsFlagged'
<1> SUFFICES ASSUME PaletteTypeOK, StaleIsFlagged, [PaletteNext]_paletteVars, NEW q \in Palettes
             PROVE  Good(q)'
  BY DEF StaleIsFlagged, Good
<1>0. Good(q)
  BY DEF StaleIsFlagged, Good
<1>1. ASSUME NEW p \in Palettes, NEW e \in Entries, NEW c \in Colours, WritePalette(p, e, c)
      PROVE  Good(q)'
  <2>1. CASE q = p
    BY <1>1, <2>1 DEF WritePalette, UpdateFlags, Good
  <2>2. CASE q # p
    <3>1. Palettebuffer'[q] = Palettebuffer[q] /\ cgram' = cgram
      BY <1>1, <2>2 DEF WritePalette, PaletteTypeOK
    <3>2. q \in UpdatePalette => q \in UpdatePalette'
      BY <1>1 DEF WritePalette
    <3> QED
      BY <1>0, <3>1, <3>2 DEF Good, ConvertedPalette, AsReset, Zeroes
  <2> QED
    BY <2>1, <2>2
<1>2. ASSUME NEW c \in Colours, UpdateAllMirrorColors(c)
      PROVE  Good(q)'
  BY <1>2 DEF UpdateAllMirrorColors, Good
<1>3. ASSUME NEW enabled \in BOOLEAN, PaletteControl1(enabled)
      PROVE  Good(q)'
  BY <1>0, <1>3 DEF PaletteControl1, Good, ConvertedPalette, AsReset, Zeroes
<1>4. CASE PaletteHandler
  <2>1. CASE q \in UpdatePalette
    BY <1>4, <2>1 DEF PaletteHandler, UpdatePalettes, Good, ConvertedPalette
  <2>2. CASE q \notin UpdatePalette
    BY <1>0, <1>4, <2>2 DEF PaletteHandler, UpdatePalettes, Good, ConvertedPalette, AsReset, Zeroes
  <2> QED
    BY <2>1, <2>2
<1>5. CASE UNCHANGED paletteVars
  BY <1>0, <1>5 DEF paletteVars, Good, ConvertedPalette, AsReset, Zeroes
<1> QED
  BY <1>1, <1>2, <1>3, <1>4, <1>5 DEF PaletteNext

(* No write is lost: a palette the screen does not show is flagged. *)
THEOREM StaleIsFlaggedCorrect == PaletteSpec => []StaleIsFlagged
<1>1. PaletteInit => StaleIsFlagged
  BY DEF PaletteInit, StaleIsFlagged, AsReset
<1> QED
  BY <1>1, PaletteTypeCorrect, StaleStep, PTL DEF PaletteSpec

-----------------------------------------------------------------------------

(* Every step is a step of the promise, or does not change what it sees. *)
LEMMA PalettePromiseStep ==
  PaletteTypeOK /\ StaleIsFlagged /\ [PaletteNext]_paletteVars => [PalettePromise!Next]_<<Palettebuffer, cgram>>
<1> SUFFICES ASSUME PaletteTypeOK, StaleIsFlagged, [PaletteNext]_paletteVars
             PROVE  PalettePromise!Next \/ UNCHANGED <<Palettebuffer, cgram>>
  OBVIOUS
<1>1. ASSUME NEW p \in Palettes, NEW e \in Entries, NEW c \in Colours, WritePalette(p, e, c)
      PROVE  PalettePromise!Next
  BY <1>1 DEF WritePalette, PalettePromise!Next, PalettePromise!Write
<1>2. ASSUME NEW c \in Colours, UpdateAllMirrorColors(c)
      PROVE  PalettePromise!Next
  BY <1>2 DEF UpdateAllMirrorColors, PalettePromise!Next, PalettePromise!WriteFirst
<1>3. ASSUME NEW enabled \in BOOLEAN, PaletteControl1(enabled)
      PROVE  UNCHANGED <<Palettebuffer, cgram>>
  BY <1>3 DEF PaletteControl1
<1>4. ASSUME PaletteHandler
      PROVE  PalettePromise!Next
  <2> DEFINE shown == {p \in Palettes : p \in UpdatePalette \/ cgram[p] = ConvertedPalette(p)}
  <2>1. \A p \in Palettes \ shown : /\ PalettePromise!Untouched(p)
                                    /\ cgram[p] = [e \in Entries |-> 0]
    BY DEF StaleIsFlagged, AsReset, Zeroes, PalettePromise!Untouched
  <2>2. \A p \in Palettes :
          (IF p \in UpdatePalette THEN ConvertedPalette(p) ELSE cgram[p])
          = (IF p \in shown THEN ConvertedPalette(p) ELSE cgram[p])
    OBVIOUS
  <2>3. cgram' = [p \in Palettes |-> IF p \in shown THEN ConvertedPalette(p) ELSE cgram[p]]
    BY <1>4, <2>2 DEF PaletteHandler, UpdatePalettes
  <2>4. cgram' = [p \in Palettes |->
                    IF p \in shown
                      THEN [e \in Entries |-> nes2snespalette[Palettebuffer[p][e]]]
                      ELSE cgram[p]]
    BY <2>3 DEF ConvertedPalette
  <2>5. shown \in SUBSET Palettes
    OBVIOUS
  <2>6. UNCHANGED Palettebuffer
    BY <1>4 DEF PaletteHandler
  <2> HIDE DEF shown
  <2> QED
    BY <2>1, <2>4, <2>5, <2>6 DEF PalettePromise!Next, PalettePromise!Vblank
<1>5. CASE UNCHANGED paletteVars
  BY <1>5 DEF paletteVars
<1> QED
  BY <1>1, <1>2, <1>3, <1>4, <1>5 DEF PaletteNext

(* The flags are an optimisation nobody sees: the program implements palettes *)
(* that are converted whole at every interrupt served.                        *)
THEOREM FlagsUnseenCorrect == PaletteSpec => FlagsUnseen
<1>1. PaletteInit => PalettePromise!Init
  BY DEF PaletteInit, Zeroes, PalettePromise!Init
<1>2. PaletteSpec => [][PalettePromise!Next]_<<Palettebuffer, cgram>>
  BY PaletteTypeCorrect, StaleIsFlaggedCorrect, PalettePromiseStep, PTL DEF PaletteSpec
<1> QED
  BY <1>1, <1>2, PTL DEF PaletteSpec, FlagsUnseen, PalettePromise!Spec

(***************************************************************************)
(* The sprites.                                                            *)
(***************************************************************************)

(* The order of the snes is a permutation of the order of the NES, sprite by *)
(* sprite: Source undoes Slot.                                               *)
LEMMA SlotIsPlace ==
  ASSUME NEW a \in Places
  PROVE  /\ Slot(a) \in Places /\ Source(a) \in Places
         /\ Source(Slot(a)) = a /\ Field(Slot(a)) = (Field(a) + 1) % 4
<1>1. NSprites \in Nat /\ a \in Nat /\ a < 4 * NSprites
  BY SpritesAssumption DEF Places, Size
<1>2. PICK q \in Nat, f \in 0..3 : a = 4 * q + f
  <2>1. a = 4 * (a \div 4) + (a % 4) /\ a \div 4 \in Nat /\ a % 4 \in 0..3
    BY <1>1
  <2> QED BY <2>1
<1>3. a \div 4 = q /\ a % 4 = f /\ q < NSprites
  BY <1>1, <1>2
<1>4. Slot(a) = 4 * q + ((f + 1) % 4) /\ Source(a) = 4 * q + ((f + 3) % 4)
  BY <1>2, <1>3 DEF Slot, Source, Field
<1>5. Slot(a) \in Places /\ Source(a) \in Places
  BY <1>1, <1>2, <1>3, <1>4 DEF Places, Size
<1>6. Slot(a) \div 4 = q /\ Slot(a) % 4 = (f + 1) % 4
  BY <1>2, <1>4
<1>7. Source(Slot(a)) = 4 * q + ((((f + 1) % 4) + 3) % 4)
  BY <1>2, <1>4, <1>6 DEF Source
<1>8. (((f + 1) % 4) + 3) % 4 = f
  BY <1>2
<1> QED BY <1>2, <1>3, <1>5, <1>6, <1>7, <1>8 DEF Field

LEMMA SlotInjective ==
  ASSUME NEW a \in Places, NEW b \in Places, Slot(a) = Slot(b)
  PROVE  a = b
  BY SlotIsPlace

(* What is put in the buffer is a number. *)
LEMMA SpritesConvertedType ==
  ASSUME NEW a, NEW v \in Bytes
  PROVE  Converted(a, v) \in Nat
  BY SpritesAssumption DEF Converted

LEMMA PageType ==
  ASSUME NEW page \in Pages, NEW s \in Places
  PROVE  Converted(Source(s), page[Source(s)]) \in Nat
<1>1. page[Source(s)] \in Bytes
  BY SlotIsPlace, SpritesAssumption
<1> QED BY <1>1, SpritesConvertedType

(* Every step keeps the types. *)
LEMMA SpritesTypeStep == SpritesTypeOK /\ [SpritesNext]_spriteVars => SpritesTypeOK'
<1> SUFFICES ASSUME SpritesTypeOK, [SpritesNext]_spriteVars PROVE SpritesTypeOK'
  OBVIOUS
<1>0. SpriteMemoryAddress \in Places /\ Size \in Nat \ {0}
  BY SpritesAssumption DEF SpritesTypeOK, Size
<1>1. ASSUME NEW a \in Places, WSPRADDR(a)
      PROVE  SpritesTypeOK'
  BY <1>1 DEF SpritesTypeOK, WSPRADDR
<1>2. ASSUME NEW v \in Bytes, WSPRDATA(v)
      PROVE  SpritesTypeOK'
  <2>1. SpriteMemoryAddress' \in Places
    BY <1>0, <1>2 DEF WSPRDATA, IncSprAddr, Places
  <2>2. SpriteMemoryBase' \in [Places -> Nat]
    BY <1>2, SpritesConvertedType DEF SpritesTypeOK, WSPRDATA, Put
  <2> QED BY <1>2, <2>1, <2>2 DEF SpritesTypeOK, WSPRDATA
<1>3. CASE RSPRDATA
  <2>1. SpriteMemoryAddress' \in Places
    BY <1>0, <1>3 DEF RSPRDATA, Places
  <2>2. Slot(SpriteMemoryAddress) \in Nat
    BY <1>0, SlotIsPlace DEF Places
  <2>3. SpriteMemoryBase' \in [Places -> Nat]
    BY <1>3, <2>2 DEF SpritesTypeOK, RSPRDATA, Put
  <2> QED BY <1>3, <2>1, <2>3 DEF SpritesTypeOK, RSPRDATA
<1>4. ASSUME NEW page \in Pages, WDMASPRITEMEMACCESS(page)
      PROVE  SpritesTypeOK'
  <2>1. SpriteMemoryBase' \in [Places -> Nat]
    BY <1>4, PageType DEF WDMASPRITEMEMACCESS
  <2> QED BY <1>4, <2>1 DEF SpritesTypeOK, WDMASPRITEMEMACCESS
<1>5. ASSUME NEW enabled \in BOOLEAN, SpritesControl1(enabled)
      PROVE  SpritesTypeOK'
  BY <1>5 DEF SpritesTypeOK, SpritesControl1
<1>6. CASE SpritesHandler
  BY <1>6 DEF SpritesTypeOK, SpritesHandler, UpdateSpritesDMA
<1>7. CASE UNCHANGED spriteVars
  BY <1>7 DEF SpritesTypeOK, spriteVars
<1> QED BY <1>1, <1>2, <1>3, <1>4, <1>5, <1>6, <1>7 DEF SpritesNext

LEMMA SpritesTypeInit == SpritesInit => SpritesTypeOK
<1>1. 0 \in Places
  BY SpritesAssumption DEF Places, Size
<1>2. ASSUME SpritesInit
      PROVE  /\ SpriteMemoryAddress \in Places
             /\ SpriteMemoryBase \in [Places -> Nat]
             /\ oam \in [Places -> Nat]
  BY <1>1, <1>2, SpritesAssumption DEF SpritesInit
<1>3. ASSUME SpritesInit
      PROVE  UpdateSprites \in BOOLEAN /\ NESNMIENABLED \in BOOLEAN /\ copied \in BOOLEAN
  BY <1>3, Zenon DEF SpritesInit
<1> QED BY <1>2, <1>3 DEF SpritesTypeOK

(* The sprites keep their types. *)
THEOREM SpritesTypeCorrect == SpritesSpec => []SpritesTypeOK
  BY SpritesTypeInit, SpritesTypeStep, PTL DEF SpritesSpec

-----------------------------------------------------------------------------

LEMMA CopyStep == CopyShownOrFlagged /\ [SpritesNext]_spriteVars => CopyShownOrFlagged'
<1> SUFFICES ASSUME CopyShownOrFlagged, [SpritesNext]_spriteVars PROVE CopyShownOrFlagged'
  OBVIOUS
<1>1. ASSUME NEW a \in Places, WSPRADDR(a)
      PROVE  CopyShownOrFlagged'
  BY <1>1 DEF CopyShownOrFlagged, WSPRADDR
<1>2. ASSUME NEW v \in Bytes, WSPRDATA(v)
      PROVE  CopyShownOrFlagged'
  BY <1>2 DEF CopyShownOrFlagged, WSPRDATA
<1>3. CASE RSPRDATA
  BY <1>3 DEF CopyShownOrFlagged, RSPRDATA
<1>4. ASSUME NEW page \in Pages, WDMASPRITEMEMACCESS(page)
      PROVE  CopyShownOrFlagged'
  BY <1>4 DEF CopyShownOrFlagged, WDMASPRITEMEMACCESS
<1>5. ASSUME NEW enabled \in BOOLEAN, SpritesControl1(enabled)
      PROVE  CopyShownOrFlagged'
  BY <1>5 DEF CopyShownOrFlagged, SpritesControl1
<1>6. CASE SpritesHandler
  BY <1>6 DEF CopyShownOrFlagged, SpritesHandler, UpdateSpritesDMA
<1>7. CASE UNCHANGED spriteVars
  BY <1>7 DEF CopyShownOrFlagged, spriteVars
<1> QED BY <1>1, <1>2, <1>3, <1>4, <1>5, <1>6, <1>7 DEF SpritesNext

(* The last page copied is on screen, or a transfer is still to come. *)
THEOREM CopyShownCorrect == SpritesSpec => []CopyShownOrFlagged
<1>1. SpritesInit => CopyShownOrFlagged
  BY DEF SpritesInit, CopyShownOrFlagged
<1> QED
  BY <1>1, CopyStep, PTL DEF SpritesSpec

-----------------------------------------------------------------------------

(* One byte of the buffer replaced is one byte of the NES replaced. *)
LEMMA PutOne ==
  ASSUME SpritesTypeOK, NEW w, Put(w), NEW a \in Places
  PROVE  SpriteMemoryBase'[Slot(a)] =
           IF a = SpriteMemoryAddress THEN w ELSE SpriteMemoryBase[Slot(a)]
<1>1. Slot(a) \in Places /\ SpriteMemoryAddress \in Places
  BY SlotIsPlace DEF SpritesTypeOK
<1>2. Slot(a) = Slot(SpriteMemoryAddress) <=> a = SpriteMemoryAddress
  BY <1>1, SlotInjective
<1> QED BY <1>1, <1>2 DEF SpritesTypeOK, Put

(* Every step of the sprites is a step of the sprite memory of the NES. *)
LEMMA SpritesPromiseStep == SpritesTypeOK /\ [SpritesNext]_spriteVars => [SpritesPromise!Next]_(SpritesPromise!vars)
<1> SUFFICES ASSUME SpritesTypeOK, [SpritesNext]_spriteVars PROVE [SpritesPromise!Next]_(SpritesPromise!vars)
  OBVIOUS
<1> DEFINE Shows == [f \in 0..3 |-> [v \in Bytes |-> IF f = 2 THEN SpriteFlags[v] ELSE v]]
<1>0. /\ SpriteMemoryAddress \in Places /\ Size \in Nat \ {0}
      /\ SpritesPromise!Places = Places
      /\ \A a \in Places, v \in Bytes : Shows[a % 4][v] = Converted(a, v)
  BY SpritesAssumption DEF SpritesTypeOK, Size, Places, SpritesPromise!Places, Converted, Field
<1>1. ASSUME NEW a \in Places, WSPRADDR(a)
      PROVE  SpritesPromise!Point
  BY <1>0, <1>1 DEF WSPRADDR, SpritesPromise!Point
<1>2. ASSUME NEW v \in Bytes, WSPRDATA(v)
      PROVE  SpritesPromise!Write
  <2>1. SpritesPromise!Advance
    BY <1>0, <1>2 DEF WSPRDATA, IncSprAddr, SpritesPromise!Advance, Places
  <2>2. Converted(SpriteMemoryAddress, v) = Shows[SpriteMemoryAddress % 4][v]
    BY <1>0
  <2>3. [a \in Places |-> SpriteMemoryBase'[Slot(a)]] =
          [[a \in Places |-> SpriteMemoryBase[Slot(a)]]
             EXCEPT ![SpriteMemoryAddress] = Shows[SpriteMemoryAddress % 4][v]]
    BY <1>0, <1>2, <2>2, PutOne DEF WSPRDATA
  <2> QED BY <1>2, <2>1, <2>3 DEF WSPRDATA, SpritesPromise!Write
<1>3. CASE RSPRDATA
  <2>1. SpritesPromise!Advance
    BY <1>0, <1>3 DEF RSPRDATA, SpritesPromise!Advance, Places
  <2>2. \A a \in Places \ {SpriteMemoryAddress} :
          SpriteMemoryBase'[Slot(a)] = SpriteMemoryBase[Slot(a)]
    BY <1>3, PutOne DEF RSPRDATA
  <2>3. UNCHANGED [a \in Places |-> oam[Slot(a)]]
    BY <1>3 DEF RSPRDATA
  <2>4. SpritesPromise!Read
    BY <1>0, <2>1, <2>2, <2>3 DEF SpritesPromise!Read
  <2> QED BY <2>4 DEF SpritesPromise!Next
<1>4. ASSUME NEW page \in Pages, WDMASPRITEMEMACCESS(page)
      PROVE  SpritesPromise!Copy
  <2>1. ASSUME NEW a \in Places
        PROVE  \E v \in Bytes : SpriteMemoryBase'[Slot(a)] = Shows[a % 4][v]
    <3>1. SpriteMemoryBase'[Slot(a)] = Converted(a, page[a])
      BY <1>4, SlotIsPlace DEF WDMASPRITEMEMACCESS
    <3>2. page[a] \in Bytes
      BY SpritesAssumption
    <3> QED BY <1>0, <3>1, <3>2
  <2> QED BY <1>0, <1>4, <2>1 DEF WDMASPRITEMEMACCESS, SpritesPromise!Copy
<1>5. ASSUME NEW enabled \in BOOLEAN, SpritesControl1(enabled)
      PROVE  UNCHANGED SpritesPromise!vars
  BY <1>5 DEF SpritesControl1, SpritesPromise!vars
<1>6. CASE SpritesHandler
  <2>1. CASE UpdateSprites
    BY <1>6, <2>1 DEF SpritesHandler, UpdateSpritesDMA, SpritesPromise!Next, SpritesPromise!Vblank
  <2>2. CASE ~UpdateSprites
    BY <1>6, <2>2 DEF SpritesHandler, UpdateSpritesDMA, SpritesPromise!vars
  <2> QED BY <2>1, <2>2
<1>7. CASE UNCHANGED spriteVars
  BY <1>7 DEF spriteVars, SpritesPromise!vars
<1> QED BY <1>1, <1>2, <1>3, <1>4, <1>5, <1>6, <1>7 DEF SpritesNext, SpritesPromise!Next

(* The buffer implements the sprite memory of the NES, for any number of *)
(* sprites: no byte takes the place of another.                           *)
THEOREM SpritesCorrect == SpritesSpec => SpritesLikeNes
<1>1. SpritesInit => SpritesPromise!Init
  BY DEF SpritesInit, SpritesPromise!Init
<1>2. SpritesSpec => []SpritesTypeOK
  BY SpritesTypeCorrect
<1> QED
  BY <1>1, <1>2, SpritesPromiseStep, PTL DEF SpritesSpec, SpritesLikeNes, SpritesPromise!Spec

(***************************************************************************)
(* Both of them in the handler.                                            *)
(***************************************************************************)

LEMMA PaletteSide == [Next]_vars => [PaletteNext]_paletteVars
<1> SUFFICES ASSUME [Next]_vars PROVE [PaletteNext]_paletteVars
  OBVIOUS
<1> USE DEF PaletteNext, paletteVars
<1>1. CASE PaletteAccess
  BY <1>1 DEF PaletteAccess
<1>2. CASE SpriteAccess
  <2>1. UNCHANGED NESNMIENABLED
    BY <1>2 DEF SpriteAccess, WSPRADDR, WSPRDATA, RSPRDATA, WDMASPRITEMEMACCESS
  <2> QED BY <1>2, <2>1 DEF SpriteAccess, paletteOnly
<1>3. CASE WriteControl1
  BY <1>3 DEF WriteControl1
<1>4. CASE NESNMIHandler
  BY <1>4 DEF NESNMIHandler
<1>5. CASE UNCHANGED vars
  BY <1>5 DEF vars, paletteOnly
<1> QED BY <1>1, <1>2, <1>3, <1>4, <1>5 DEF Next

LEMMA SpritesSide == [Next]_vars => [SpritesNext]_spriteVars
<1> SUFFICES ASSUME [Next]_vars PROVE [SpritesNext]_spriteVars
  OBVIOUS
<1> USE DEF SpritesNext, spriteVars
<1>1. CASE SpriteAccess
  BY <1>1 DEF SpriteAccess
<1>2. CASE PaletteAccess
  <2>1. UNCHANGED NESNMIENABLED
    BY <1>2 DEF PaletteAccess, WritePalette, UpdateAllMirrorColors
  <2> QED BY <1>2, <2>1 DEF PaletteAccess, spritesOnly
<1>3. CASE WriteControl1
  BY <1>3 DEF WriteControl1
<1>4. CASE NESNMIHandler
  BY <1>4 DEF NESNMIHandler
<1>5. CASE UNCHANGED vars
  BY <1>5 DEF vars, spritesOnly
<1> QED BY <1>1, <1>2, <1>3, <1>4, <1>5 DEF Next

(* The handler that serves both leaves each of them what it is alone: the     *)
(* composition implements the palettes and the sprites.                       *)
THEOREM CompositionCorrect == Spec => PaletteSpec /\ SpritesSpec
<1>1. Init => PaletteInit /\ SpritesInit
  BY DEF Init
<1> QED BY <1>1, PaletteSide, SpritesSide, PTL DEF Spec, PaletteSpec, SpritesSpec

(* The composition keeps the types of both. *)
THEOREM TypeCorrect == Spec => []TypeOK
  BY CompositionCorrect, PaletteTypeCorrect, SpritesTypeCorrect, PTL DEF TypeOK

(* So all that is proved of one of them holds of the other one's company.     *)
THEOREM ScreenCorrect ==
  Spec => /\ []StaleIsFlagged /\ FlagsUnseen
          /\ []CopyShownOrFlagged /\ SpritesLikeNes
  BY CompositionCorrect, StaleIsFlaggedCorrect, FlagsUnseenCorrect, CopyShownCorrect,
     SpritesCorrect, PTL
-----------------------------------------------------------------------------
(* The screen is complete in the end: the half that needs no fairness.     *)

(* An interrupt served completes the screen, in one step, and only a write of *)
(* the game makes it incomplete again.                                        *)
ServedIsShown ==
  [][NESNMIHandler \/ (Shown /\ ~PaletteAccess /\ ~SpriteAccess) => Shown']_vars

LEMMA ServedStep ==
  StaleIsFlagged /\ CopyShownOrFlagged /\ [Next]_vars
    => [NESNMIHandler \/ (Shown /\ ~PaletteAccess /\ ~SpriteAccess) => Shown']_vars
<1> SUFFICES ASSUME StaleIsFlagged, CopyShownOrFlagged, Next,
                    NESNMIHandler \/ (Shown /\ ~PaletteAccess /\ ~SpriteAccess)
             PROVE  Shown'
  OBVIOUS
<1>1. CASE NESNMIHandler
  <2>1. ASSUME NEW p \in Palettes
        PROVE  (cgram[p] = ConvertedPalette(p) \/ AsReset(p))'
    <3>1. Palettebuffer' = Palettebuffer
      BY <1>1 DEF NESNMIHandler, PaletteHandler
    <3>2. cgram'[p] = IF p \in UpdatePalette THEN ConvertedPalette(p) ELSE cgram[p]
      BY <1>1 DEF NESNMIHandler, PaletteHandler, UpdatePalettes
    <3>3. p \in UpdatePalette \/ cgram[p] = ConvertedPalette(p) \/ AsReset(p)
      BY DEF StaleIsFlagged
    <3> QED BY <3>1, <3>2, <3>3 DEF ConvertedPalette, AsReset, Zeroes
  <2>2. copied' => oam' = SpriteMemoryBase'
    BY <1>1 DEF NESNMIHandler, SpritesHandler, UpdateSpritesDMA, CopyShownOrFlagged
  <2> QED BY <2>1, <2>2 DEF Shown
<1>2. CASE Shown /\ ~PaletteAccess /\ ~SpriteAccess /\ ~NESNMIHandler
  <2>1. WriteControl1
    BY <1>2 DEF Next
  <2>2. UNCHANGED <<Palettebuffer, cgram, copied, oam, SpriteMemoryBase>>
    BY <2>1 DEF WriteControl1, PaletteControl1, SpritesControl1
  <2> QED BY <1>2, <2>2 DEF Shown, ConvertedPalette, AsReset, Zeroes
<1> QED BY <1>1, <1>2

(* ShownInTheEnd but for the fairness: whatever was written before it, one    *)
(* interrupt served is enough.                                                *)
THEOREM ServedIsShownCorrect == Spec => ServedIsShown
  BY ScreenCorrect, ServedStep, PTL DEF Spec, ServedIsShown
=============================================================================
