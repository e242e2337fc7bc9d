------------------------------- MODULE Sprites -------------------------------
(***************************************************************************)
(* The sprites: $4014 converts a page of the game's memory into a buffer,  *)
(* $2003 and $2004 change its bytes one at a time, and the vertical        *)
(* blanking handler transfers it to the sprite memory (UpdateSpritesDMA).  *)
(* The routines run with interrupts masked, so one access is one action.   *)
(***************************************************************************)
EXTENDS NmiControl

CONSTANTS
  NSprites,     \* 64
  Bytes,        \* values the game writes
  Pages,        \* pages it copies, given by the bytes they hold
  SpriteFlags,  \* WRamSpriteFlagConvLI
  Garbage       \* what the sprite memory holds at reset

Size   == 4 * NSprites
Places == 0..Size - 1

ASSUME SpritesAssumption ==
  /\ NSprites \in Nat \ {0}
  /\ Bytes \subseteq Nat
  /\ Pages \subseteq [Places -> Bytes]
  /\ SpriteFlags \in [Bytes -> Nat]
  /\ Garbage \in [Places -> Nat]

VARIABLES
  SpriteMemoryAddress,
  SpriteMemoryBase,  \* the buffer, in the order of the snes
  UpdateSprites,     \* the buffer is to be transferred
  oam,               \* the sprite memory of the snes
  copied             \* history: no $2004 since the last $4014

spriteVars == <<SpriteMemoryAddress, SpriteMemoryBase, UpdateSprites, oam, NESNMIENABLED,
          copied>>

SpritesTypeOK ==
  /\ SpriteMemoryAddress \in Places
  /\ SpriteMemoryBase \in [Places -> Nat]
  /\ UpdateSprites \in BOOLEAN /\ oam \in [Places -> Nat]
  /\ NESNMIENABLED \in BOOLEAN /\ copied \in BOOLEAN

\* The buffer is cleared; UpdateSprites is left to the loop that fills the ram
\* of the emulation with an accumulator it has not loaded.
SpritesInit ==
  /\ SpriteMemoryAddress = 0
  /\ SpriteMemoryBase = [a \in Places |-> 0]
  /\ UpdateSprites \in BOOLEAN /\ oam = Garbage /\ NESNMIENABLED = TRUE
  /\ copied = FALSE

-----------------------------------------------------------------------------

\* Y, tile, flags and X: the fields of a sprite on the NES.
Field(a) == a % 4

\* Mutant of Slot: the order of the NES is kept.
SlotSame(a) == 4 * (a \div 4) + Field(a)

\* Where a byte of the NES goes: X comes first on the snes.
Slot(a) == 4 * (a \div 4) + ((Field(a) + 1) % 4)

Converted(a, v) == IF Field(a) = 2 THEN SpriteFlags[v] ELSE v

\* $2003
WSPRADDR(a) ==
  /\ SpriteMemoryAddress' = a
  /\ UNCHANGED <<SpriteMemoryBase, UpdateSprites, oam, NESNMIENABLED, copied>>

\* The byte of the buffer the address register points to.
Put(v) == SpriteMemoryBase' = [SpriteMemoryBase EXCEPT ![Slot(SpriteMemoryAddress)] = v]

\* Mutant of IncSprAddr: no end.
IncSprAddrFree == SpriteMemoryAddress' = SpriteMemoryAddress + 1

\* The address stays on the last byte.
IncSprAddr ==
  SpriteMemoryAddress' = IF SpriteMemoryAddress = Size - 1 THEN Size - 1
                                                           ELSE SpriteMemoryAddress + 1

\* $2004.  The sprite memory is not written, and no transfer is asked for.
WSPRDATA(v) ==
  /\ Put(Converted(SpriteMemoryAddress, v))
  /\ IncSprAddr
  /\ copied' = FALSE
  /\ UNCHANGED <<UpdateSprites, oam, NESNMIENABLED>>

\* A read stores the index of the byte instead of loading the byte.
RSPRDATA ==
  /\ Put(Slot(SpriteMemoryAddress))
  /\ SpriteMemoryAddress' = (SpriteMemoryAddress + 1) % Size
  /\ copied' = FALSE
  /\ UNCHANGED <<UpdateSprites, oam, NESNMIENABLED>>

\* The byte of a page that goes to place s of the buffer.
Source(s) == 4 * (s \div 4) + ((s + 3) % 4)

\* $4014: the whole page, wherever the address register points.
WDMASPRITEMEMACCESS(page) ==
  /\ SpriteMemoryBase' = [s \in Places |-> Converted(Source(s), page[Source(s)])]
  /\ UpdateSprites' = TRUE
  /\ copied' = TRUE
  /\ UNCHANGED <<SpriteMemoryAddress, oam, NESNMIENABLED>>

\* Bit 7 of $2000.
SpritesControl1(enabled) ==
  /\ NESNMIENABLED' = enabled
  /\ UNCHANGED <<SpriteMemoryAddress, SpriteMemoryBase, UpdateSprites, oam, copied>>

\* Mutant of UpdateSpritesDMA: a size of $FF.
UpdateSpritesDMAShort ==
  /\ UpdateSprites' = FALSE
  /\ oam' = IF UpdateSprites THEN [SpriteMemoryBase EXCEPT ![Size - 1] = oam[Size - 1]]
                             ELSE oam

UpdateSpritesDMA ==
  /\ UpdateSprites' = FALSE
  /\ oam' = IF UpdateSprites THEN SpriteMemoryBase ELSE oam

\* The handler transfers nothing while the game has its interrupt disabled.
SpritesHandler ==
  /\ NESNMIENABLED
  /\ UpdateSpritesDMA
  /\ UNCHANGED <<SpriteMemoryAddress, SpriteMemoryBase, NESNMIENABLED, copied>>

SpritesNext ==
  \/ \E a \in Places : WSPRADDR(a)
  \/ \E v \in Bytes : WSPRDATA(v)
  \/ RSPRDATA
  \/ \E page \in Pages : WDMASPRITEMEMACCESS(page)
  \/ \E enabled \in BOOLEAN : SpritesControl1(enabled)
  \/ SpritesHandler

SpritesSpec == SpritesInit /\ [][SpritesNext]_spriteVars

-----------------------------------------------------------------------------
(* Correctness.                                                            *)

SpritesPromise == INSTANCE NesOam WITH
  Shows <- [f \in 0..3 |-> [v \in Bytes |-> IF f = 2 THEN SpriteFlags[v] ELSE v]],
  pointer <- SpriteMemoryAddress,
  memory <- [a \in Places |-> SpriteMemoryBase[Slot(a)]],
  screen <- [a \in Places |-> oam[Slot(a)]]

\* The buffer holds the sprites of the NES, though in another order: no mix of
\* $2003, $2004 and $4014 puts a byte in the place of another one, and the
\* screen never takes a part of the sprites only.
SpritesLikeNes == SpritesPromise!Spec

\* What the last $4014 copied is on screen unless a transfer is still to come,
\* whatever was done with the interrupt and with $2004 before.
CopyShownOrFlagged == copied => UpdateSprites \/ oam = SpriteMemoryBase
=============================================================================
