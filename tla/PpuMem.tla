------------------------------- MODULE PpuMem -------------------------------
(***************************************************************************)
(* The emulation of the PPU memory port ($2006 and $2007, and what $2000,  *)
(* $2002 and $2005 do to them, in iopemulation.asm) up to the name and     *)
(* attribute tables: where a byte is kept for the next read, where it is   *)
(* put in the video ram, and how the address register moves.  The routines *)
(* run with interrupts masked, so one access is one action whoever makes   *)
(* it, the main program or the NMI routine of the game.  Addresses are     *)
(* taken modulo $4000: no routine looks at their two upper bits.           *)
(***************************************************************************)
EXTENDS Naturals

CONSTANTS
  PageLen,       \* 256
  TableLen,      \* $400
  NameLen,       \* $3C0: names, then attributes
  PalLen,        \* $20, from $3F00 on
  Row,           \* 32
  Bytes,         \* values the game writes
  Pages,         \* high bytes it writes to $2006
  ResetA,        \* what the accumulator may hold at reset
  WatchedShown,  \* for each scrolling, tables addresses whose display is
                 \* compared to the NES
  WatchedRead    \* and those whose reads are

ASSUME PpuAssumption ==
  /\ PageLen \in Nat \ {0} /\ TableLen \in Nat /\ NameLen \in Nat /\ PalLen \in Nat
  /\ Row \in 1..PageLen
  /\ NameLen < TableLen /\ PalLen <= PageLen /\ PageLen <= TableLen
  /\ TableLen % PageLen = 0 /\ TableLen % (TableLen - NameLen) = 0
  /\ Bytes \subseteq Nat /\ 0 \in Bytes
  /\ Pages \subseteq 0..(16 * TableLen) \div PageLen - 1
  /\ ResetA \subseteq Nat /\ ResetA # {}
  /\ WatchedShown \in [BOOLEAN -> SUBSET (8 * TableLen..12 * TableLen - 1)]
  /\ WatchedRead \in [BOOLEAN -> SUBSET (8 * TableLen..12 * TableLen - 1)]

\* With vertical scrolling the names above $2400 are not where the NES has
\* them, nor are the bytes kept for the reads of the attributes; with either
\* scrolling the read of an attribute loses it.
ASSUME WatchedAssumption ==
  /\ \A a \in WatchedShown[TRUE] : a % TableLen >= NameLen
  /\ WatchedRead[TRUE] = {}
  /\ \A a \in WatchedRead[FALSE] : a % TableLen < NameLen

VARIABLES
  vertical, \* VETICALSCROLLING, set when the rom is converted
  addr,     \* PPUmemaddrL, PPUmemaddrH
  toggle,   \* WriteToggle
  latch,    \* PPUReadLatch
  powerUp,  \* StarPPUStatus
  incr,     \* PPURW_IncrementL
  mem,      \* NametableBaseBank1: the bytes kept for the reads
  names,    \* names in the tile map of the video ram (low bytes)
  attrs,    \* attributes in the tile map: one of each block of a bank
  out       \* the byte the last read returned

registers == <<vertical, addr, toggle, latch, incr, powerUp>>
memory    == <<mem, names, attrs>>
vars      == <<vertical, addr, toggle, latch, incr, powerUp, mem, names, attrs, out>>

AttrLen == TableLen - NameLen
Kept    == 0..2 * TableLen - 1
Blocks  == {0, 1} \X (0..AttrLen - 1)
SpaceLen == 16 * TableLen

TypeOK ==
  /\ addr \in 0..SpaceLen - 1 /\ vertical \in BOOLEAN
  /\ toggle \in BOOLEAN /\ latch \in BOOLEAN /\ powerUp \in BOOLEAN
  /\ incr \in {1, Row} \cup ResetA /\ mem \in [Kept -> Bytes]
  /\ names \in [Kept -> Bytes] /\ attrs \in [Blocks -> Bytes]
  /\ out \in Bytes \cup 0..PageLen - 1

\* The reset routine fills the ram of the emulation with an accumulator it has
\* not loaded, then sets all these variables but the increment.
Init ==
  /\ vertical \in BOOLEAN
  /\ addr = 0 /\ toggle = FALSE /\ latch = FALSE /\ powerUp = TRUE
  /\ incr \in ResetA /\ mem = [i \in Kept |-> 0] /\ names = [i \in Kept |-> 0]
  /\ attrs = [b \in Blocks |-> 0] /\ out = 0

-----------------------------------------------------------------------------
(* The routine of an address: the jump table of ppujmp.asm.                *)

InChr     == addr < 8 * TableLen
InTables  == addr \in 8 * TableLen..12 * TableLen - 1
InName    == InTables /\ addr % TableLen < NameLen
InAttr    == InTables /\ addr % TableLen >= NameLen
PalBase   == 16 * TableLen - PageLen
InPalette == addr \in PalBase..PalBase + PalLen - 1
InEmpty   == ~InChr /\ ~InTables /\ ~InPalette

\* Bits $04 and $08 of PPUmemaddrH.
Bit4(a) == (a \div TableLen) % 2
Bit8(a) == (a \div (2 * TableLen)) % 2

\* Mutant of NameIndex: and #$03FF.
NameIndexOne(a) == a % TableLen

\* Where a name is kept, and its tile in the video ram.
NameIndex(a) ==
  IF vertical /\ Bit8(a) = 1 THEN TableLen + (a % TableLen) ELSE a % (2 * TableLen)

\* Where an attribute is kept.
AttrKept(a) == a % (2 * TableLen)

\* Mutant of AttrBank: the bits are exchanged.
AttrBankSwapped(a) == IF vertical THEN Bit4(a) ELSE Bit8(a)

\* The block of the video ram an attribute colours (ppuAttrAddToVram).
AttrBank(a) == IF vertical THEN Bit8(a) ELSE Bit4(a)
AttrBlock(a) == <<AttrBank(a), a % AttrLen>>

-----------------------------------------------------------------------------
(* $2006, $2002, $2005 and $2000.                                          *)

\* Mutant of WriteAddrHigh: the former high byte is not replaced.
WriteAddrHighAdds(page) ==
  /\ ~toggle
  /\ toggle' = TRUE
  /\ addr' = page * PageLen + addr
  /\ UNCHANGED <<vertical, latch, incr, powerUp, memory, out>>

WriteAddrHigh(page) ==
  /\ ~toggle
  /\ toggle' = TRUE
  /\ addr' = page * PageLen + (addr % PageLen)
  /\ UNCHANGED <<vertical, latch, incr, powerUp, memory, out>>

WriteAddrLow(low) ==
  /\ toggle
  /\ toggle' = FALSE
  /\ addr' = (addr \div PageLen) * PageLen + low
  /\ latch' = TRUE
  /\ UNCHANGED <<vertical, incr, powerUp, memory, out>>

\* The first read after the reset leaves the toggle alone.
ReadStatus ==
  /\ toggle' = (toggle /\ powerUp)
  /\ powerUp' = FALSE
  /\ UNCHANGED <<vertical, addr, latch, incr, memory, out>>

WriteScroll ==
  /\ toggle' = ~toggle
  /\ UNCHANGED <<vertical, addr, latch, incr, powerUp, memory, out>>

WriteControl1(i) ==
  /\ incr' = i
  /\ UNCHANGED <<vertical, addr, toggle, latch, powerUp, memory, out>>

-----------------------------------------------------------------------------
(* $2007.                                                                  *)

\* INCPPUADDR
Advance ==
  /\ addr' = (addr + incr) % SpaceLen
  /\ UNCHANGED <<vertical, toggle, incr, powerUp>>

\* What INCPPUADDR leaves in the accumulator.
LowByte == addr' % PageLen

NametableW(v) ==
  /\ InName
  /\ mem' = [mem EXCEPT ![NameIndex(addr)] = v]
  /\ names' = [names EXCEPT ![NameIndex(addr)] = v]
  /\ Advance
  /\ UNCHANGED <<attrs, latch, out>>

AttrtableW(v) ==
  /\ InAttr
  /\ mem' = [mem EXCEPT ![AttrKept(addr)] = v]
  /\ attrs' = [attrs EXCEPT ![AttrBlock(addr)] = v]
  /\ Advance
  /\ UNCHANGED <<names, latch, out>>

\* The palettes themselves are in module Palette.
PaletteW ==
  /\ InPalette
  /\ Advance
  /\ UNCHANGED <<memory, latch, out>>

EmptyW ==
  /\ InEmpty \/ InChr
  /\ UNCHANGED vars

\* The first read after the address is set.
Latched ==
  /\ InChr \/ InTables
  /\ latch
  /\ latch' = FALSE
  /\ out' = 0
  /\ UNCHANGED <<vertical, addr, toggle, incr, powerUp, memory>>

NametableR ==
  /\ InName /\ ~latch
  /\ out' = mem[NameIndex(addr)]
  /\ Advance
  /\ UNCHANGED <<memory, latch>>

\* The byte loaded from the buffer is lost: INCPPUADDR uses the accumulator.
AttrtableR ==
  /\ InAttr /\ ~latch
  /\ Advance
  /\ out' = LowByte
  /\ UNCHANGED <<memory, latch>>

\* Any byte of the CHR rom.
CHRDataR(v) ==
  /\ InChr /\ ~latch
  /\ out' = v
  /\ Advance
  /\ UNCHANGED <<memory, latch>>

PaletteR ==
  /\ InPalette
  /\ Advance
  /\ out' = LowByte
  /\ UNCHANGED <<memory, latch>>

\* What the accumulator held.
EmptyR(v) ==
  /\ InEmpty
  /\ out' = v
  /\ UNCHANGED <<registers, memory>>

WriteData(v) == NametableW(v) \/ AttrtableW(v)

ReadData(v) == CHRDataR(v) \/ EmptyR(v)

Next ==
  \/ \E page \in Pages : WriteAddrHigh(page)
  \/ \E low \in 0..PageLen - 1 : WriteAddrLow(low)
  \/ ReadStatus
  \/ WriteScroll
  \/ \E i \in {1, Row} : WriteControl1(i)
  \/ \E v \in Bytes : WriteData(v)
  \/ PaletteW
  \/ EmptyW
  \/ Latched
  \/ NametableR
  \/ AttrtableR
  \/ PaletteR
  \/ \E v \in Bytes : ReadData(v)

Spec == Init /\ [][Next]_vars

-----------------------------------------------------------------------------
(* Correctness.                                                            *)

\* What is displayed for a table address, and what is kept for its reads.
ShownAt(a) == IF a % TableLen < NameLen THEN names[NameIndex(a)]
                                        ELSE attrs[AttrBlock(a)]
KeptAt(a) == mem[IF a % TableLen < NameLen THEN NameIndex(a) ELSE AttrKept(a)]

Shown == INSTANCE NesVram WITH
  vaddr <- addr, step <- incr,
  Watched <- WatchedShown, Readable <- [s \in BOOLEAN |-> {}],
  ram <- [a \in WatchedShown[vertical] |-> ShownAt(a)]

Stored == INSTANCE NesVram WITH
  vaddr <- addr, step <- incr, Watched <- WatchedRead, Readable <- WatchedRead,
  ram <- [a \in WatchedRead[vertical] |-> KeptAt(a)]

\* The screen shows the two mirrored tables of the NES: a byte written at an
\* address, by whatever sequence of accesses, shows at its mirrors and nowhere
\* else.
ShownLikeNes == Shown!Spec

\* A read returns the byte last written at its address or at a mirror of it.
ReadLikeNes == Stored!Spec
=============================================================================
