------------------------------ MODULE IrqTimer ------------------------------
(***************************************************************************)
(* The vertical timer of the snes, which replaces the NMI of the NES: a    *)
(* chain of interrupts, each programming the line of the next one, sets    *)
(* and clears the flags of PPUSTATUS, updates the sound and calls the NMI  *)
(* routine of the game.  The chain shares sprite 0 and the timer with the  *)
(* emulation routines, which run with interrupts masked (SEI).             *)
(* The patched game runs in emulation mode: A is 8 bits wide, REP #$20 has *)
(* no effect in the handlers, and they compare lines modulo Byte.          *)
(***************************************************************************)
EXTENDS Naturals

CONSTANTS
  Lines,      \* lines of a frame: 262
  Byte,       \* 256
  VbStart,    \* VBSTARTLINE: 240
  SoundLine,  \* SOUNDEMULINE, from the configuration file of the game
  SprAdd,     \* SPRITEOYADD: 5
  SprYs,      \* Y coordinates the game gives to sprite 0
  WriteLines, \* lines on which the game writes sprites and registers
  RestYs,     \* those of them that leave each handler the time to end
  RestLines,  \* lines on which the game still uses $2001 when sprite 0 rests
  MaxLate     \* lines a pending interrupt waits for, or a handler lasts

ASSUME TimerAssumption ==
  /\ Lines \in Nat /\ Byte \in Nat /\ VbStart \in Nat /\ SoundLine \in Nat
  /\ 0 < SoundLine /\ SoundLine < VbStart /\ VbStart < Byte /\ Byte <= Lines
  /\ Lines - Byte <= SoundLine
  /\ SprAdd \in Nat /\ MaxLate \in Nat /\ Byte - 1 + (2 * MaxLate) < Lines
  /\ SprYs \subseteq 0..(Byte - 1)
  /\ RestYs \subseteq SprYs
  /\ WriteLines \subseteq 0..(Lines - 1) /\ RestLines \subseteq 0..(Lines - 1)

\* What leaves each handler the time to end: no two lines of the chain are
\* nearer than the two delays of an interrupt, and $2001 is written in vblank.
ASSUME RestAssumption ==
  /\ 2 * MaxLate < SoundLine /\ SoundLine + (2 * MaxLate) < VbStart /\ VbStart + MaxLate < Byte
  /\ RestLines \subseteq VbStart..(Lines - 1 - MaxLate)
  /\ \A y \in RestYs : LET s == (y + SprAdd) % Byte IN
       \/ s = 0 \/ s >= VbStart
       \/ 2 * MaxLate < s /\ s + (2 * MaxLate) < SoundLine
       \/ SoundLine + (2 * MaxLate) < s /\ s + (2 * MaxLate) < VbStart

VARIABLES
  line,    \* the V counter
  vtime,   \* VTIMEL, VTIMEH: the line of the next interrupt
  irq,     \* the interrupt is pending
  late,    \* lines since it is pending, or since the handler runs
  masked,  \* the I flag
  pc,      \* game, init (in InitSprite0), irq (line latched) or sound
  vcount,  \* VCOUNTL
  oamY,    \* SpriteMemoryBase + 1: Y of sprite 0
  spr0,    \* low byte of IRQLineSPR0Y
  vb,      \* PPUStatus, bit 7
  hit,     \* PPUStatus, bit 6
  show,    \* PPUcontrolreg2 enables background and sprites
  nmiOn,   \* NESNMIENABLED
  boot,    \* StarPPUStatus
  nmis,    \* history: NMIs of this frame
  sounds,  \* history: sound updates of this frame
  astray,  \* history: the timer was astray in this frame
  replan   \* history: $2001 was written before vblank in this frame

chain   == <<vtime, spr0, vb, hit>>
game    == <<oamY, show, nmiOn, boot>>
history == <<nmis, sounds, astray, replan>>
vars    == <<line, vtime, irq, late, masked, pc, vcount, oamY, spr0, vb, hit,
             show, nmiOn, boot, nmis, sounds, astray, replan>>

TypeOK ==
  /\ line \in 0..(Lines - 1) /\ vtime \in 0..(Byte - 1)
  /\ irq \in BOOLEAN /\ late \in 0..MaxLate /\ masked \in BOOLEAN
  /\ pc \in {"game", "init", "irq", "sound"}
  /\ vcount \in 0..(Lines - 1)
  /\ oamY \in SprYs /\ spr0 \in 0..(Byte - 1)
  /\ vb \in BOOLEAN /\ hit \in BOOLEAN /\ show \in BOOLEAN
  /\ nmiOn \in BOOLEAN /\ boot \in BOOLEAN
  /\ nmis \in 0..2 /\ sounds \in 0..2 /\ astray \in BOOLEAN /\ replan \in BOOLEAN

\* Mutant of SprLine: 16 bits.
SprLine16 == oamY + SprAdd

\* The line of sprite 0 for the handlers, an 8 bit addition.
SprLine == (oamY + SprAdd) % Byte

UpTo2(n) == IF n < 2 THEN n + 1 ELSE 2

\* With line l the timer goes astray: l is not ahead of the V counter in this
\* frame, or it lies beyond the start of vblank; in vblank, it is not the first
\* line of the next frame, or the NMI is neither called nor pending.
Astray(l) ==
  IF line < VbStart THEN l <= line \/ l > VbStart
                    ELSE l # 0 \/ (nmis = 0 /\ ~irq)

\* Writing the timer: the line that is being drawn may still interrupt or not.
SetTimer(l) ==
  /\ vtime' = l
  /\ astray' = (astray \/ Astray(l))
  /\ irq' \in IF l = line THEN {irq, TRUE} ELSE {irq}

-----------------------------------------------------------------------------
(* InitSprite0, in native mode: 16 bits.                                   *)

\* Mutant of FirstLine: no case for vblank.
FirstLineVisible(v, s) ==
  CASE s >= SoundLine /\ v < SoundLine -> SoundLine
    [] s < SoundLine /\ v < s          -> s
    [] OTHER                           -> VbStart

\* The line of the first interrupt after line v, sprite 0 being on line s.
FirstLine(v, s) ==
  CASE v >= VbStart                                        -> 0
    [] v < VbStart /\ s >= SoundLine /\ v < SoundLine      -> SoundLine
    [] v < VbStart /\ s < SoundLine /\ v < s               -> s
    [] OTHER                                               -> VbStart

\* The end of init.asm, on any line.
Init ==
  /\ line \in 0..(Lines - 1) /\ oamY \in SprYs
  /\ vtime = FirstLine(line, oamY + SprAdd)
  /\ spr0 = SprLine
  /\ irq = FALSE /\ late = 0 /\ masked = TRUE /\ pc = "game" /\ vcount = line
  /\ vb = FALSE /\ hit = FALSE /\ show = FALSE
  /\ nmiOn = TRUE /\ boot = TRUE
  /\ nmis = (IF line < VbStart THEN 0 ELSE 1) /\ sounds = 0
  /\ astray = FALSE /\ replan = FALSE

-----------------------------------------------------------------------------
(* Time.                                                                   *)

Busy == irq \/ pc # "game"

Tick ==
  /\ Busy => late < MaxLate
  /\ line' = (line + 1) % Lines
  /\ irq' = (irq \/ line' = vtime)
  /\ late' = IF Busy THEN late + 1 ELSE 0
  /\ IF line' = 0
     THEN /\ nmis' = 0 /\ sounds' = 0 /\ replan' = FALSE
          /\ astray' = (vtime \notin 0..VbStart)
     ELSE UNCHANGED history
  /\ UNCHANGED <<chain, game, masked, pc, vcount>>

-----------------------------------------------------------------------------
(* The game.  An emulation routine runs between Mask and Unmask: PHP SEI   *)
(* ... PLP CLI.  The game may also mask or unmask interrupts itself.       *)

Mask ==
  /\ pc = "game" /\ ~masked
  /\ masked' = TRUE
  /\ UNCHANGED <<line, irq, late, pc, vcount, chain, game, history>>

Unmask ==
  /\ pc = "game" /\ masked
  /\ masked' = FALSE
  /\ UNCHANGED <<line, irq, late, pc, vcount, chain, game, history>>

Emulating == pc = "game" /\ masked /\ line \in WriteLines

\* sta $4014, sta $2004
WriteSprite(y) ==
  /\ Emulating
  /\ oamY' = y
  /\ UNCHANGED <<line, irq, late, masked, pc, vcount, chain, show, nmiOn, boot, history>>

\* WPPUC1: bit 7 of $2000
WriteControl1(n) ==
  /\ Emulating
  /\ nmiOn' = n
  /\ UNCHANGED <<line, irq, late, masked, pc, vcount, chain, oamY, show, boot, history>>

\* WPPUC2: bits 3 and 4 of $2001, then InitSprite0 up to ReadVcount.
WriteControl2(s) ==
  /\ Emulating
  /\ show' = s
  /\ spr0' = SprLine
  /\ vcount' = line
  /\ pc' = "init"
  /\ replan' = (replan \/ line < VbStart)
  /\ UNCHANGED <<line, irq, late, masked, vtime, vb, hit, oamY, nmiOn, boot,
                 nmis, sounds, astray>>

\* Mutant of ProgramVcounter: the pending interrupt is acknowledged.
ProgramVcounterAck ==
  /\ pc = "init"
  /\ vtime' = FirstLine(vcount, oamY + SprAdd)
  /\ astray' = (astray \/ Astray(vtime'))
  /\ irq' = FALSE
  /\ pc' = "game"
  /\ UNCHANGED <<line, late, masked, vcount, spr0, vb, hit, game, nmis, sounds,
                 replan>>

\* The end of InitSprite0.
ProgramVcounter ==
  /\ pc = "init"
  /\ SetTimer(FirstLine(vcount, oamY + SprAdd))
  /\ pc' = "game"
  /\ UNCHANGED <<line, late, masked, vcount, spr0, vb, hit, game, nmis, sounds,
                 replan>>

\* The first lda $2002 reports the boot; its stub does not mask interrupts.
ReadStatusBoot ==
  /\ pc = "game" /\ boot
  /\ boot' = FALSE /\ vb' = TRUE /\ hit' = FALSE
  /\ UNCHANGED <<line, irq, late, masked, pc, vcount, vtime, spr0, oamY, show,
                 nmiOn, history>>

-----------------------------------------------------------------------------
(* NESIRQBRKHandler.                                                       *)

\* The V counter is latched, HVIRQFLG is acknowledged.
EnterIrq ==
  /\ pc = "game" /\ irq /\ ~masked
  /\ irq' = FALSE /\ masked' = TRUE /\ late' = 0
  /\ vcount' = line % Byte
  /\ pc' = "irq"
  /\ UNCHANGED <<line, chain, game, history>>

\* NESNMIHandler.  The NMI routine of the game starts with interrupts masked.
NesNmi ==
  /\ pc = "irq" /\ vcount >= VbStart
  /\ vb' = TRUE
  /\ vtime' = 0 /\ irq' = FALSE
  /\ masked' = nmiOn
  /\ nmis' = UpTo2(nmis)
  /\ pc' = "game"
  /\ UNCHANGED <<line, late, vcount, spr0, hit, game, sounds, astray,
                 replan>>

VCountHandler == pc = "irq" /\ vcount < VbStart

\* The end of VCountHandler: rti.
Return(l) ==
  /\ SetTimer(l)
  /\ masked' = FALSE
  /\ pc' = "game"
  /\ UNCHANGED <<line, late, vcount, game, nmis, replan>>

\* Above the sound line and before it: PrepareSoundIRQFromVblanEnd.
PrepareSoundIRQFromVblankEnd ==
  /\ VCountHandler
  /\ spr0 >= SoundLine /\ vcount < SoundLine
  /\ vb' = FALSE /\ hit' = FALSE
  /\ Return(SoundLine)
  /\ UNCHANGED <<spr0, sounds>>

ProgramSpr0 ==
  /\ spr0' = SprLine
  /\ vb' = FALSE /\ hit' = FALSE
  /\ Return(SprLine)

\* Line 0, sprite 0 being above the sound line.
PrepareSpr0IRQ ==
  /\ VCountHandler
  /\ spr0 < SoundLine /\ vcount < spr0
  /\ ProgramSpr0
  /\ UNCHANGED sounds

\* The line of sprite 0, above the sound line.
PrepareSoundIRQFromSpr0 ==
  /\ VCountHandler
  /\ spr0 < SoundLine /\ spr0 <= vcount /\ vcount < SoundLine
  /\ hit' = (hit \/ show)
  /\ Return(SoundLine)
  /\ UNCHANGED <<spr0, vb, sounds>>

\* The line of sprite 0, under the sound line.
PrepareVblankIRQFromSpr0 ==
  /\ VCountHandler
  /\ SoundLine <= spr0 /\ spr0 < VbStart /\ spr0 <= vcount
  /\ hit' = TRUE
  /\ Return(VbStart)
  /\ UNCHANGED <<spr0, vb, sounds>>

\* The sound line in the other cases: SoundAPURegUpdate starts.
SoundAPURegUpdate ==
  /\ VCountHandler
  /\ vcount >= SoundLine
  /\ spr0 \in SoundLine..(VbStart - 1) => vcount < spr0
  /\ pc' = "sound"
  /\ sounds' = UpTo2(sounds)
  /\ UNCHANGED <<line, irq, late, masked, vcount, chain, game, nmis, astray, replan>>

PrepareSpr0IRQFromSoundLine ==
  /\ pc = "sound"
  /\ SoundLine <= spr0 /\ spr0 < VbStart
  /\ ProgramSpr0
  /\ UNCHANGED sounds

\* Mutant of PrepareVblankIRQ: IRQLineStart for IRQLineVBlank.
PrepareStartIRQ ==
  /\ pc = "sound"
  /\ spr0 < SoundLine \/ spr0 >= VbStart
  /\ Return(0)
  /\ UNCHANGED <<spr0, vb, hit, sounds>>

PrepareVblankIRQ ==
  /\ pc = "sound"
  /\ spr0 < SoundLine \/ spr0 >= VbStart
  /\ Return(VbStart)
  /\ UNCHANGED <<spr0, vb, hit, sounds>>

Handler ==
  \/ NesNmi
  \/ PrepareSoundIRQFromVblankEnd
  \/ PrepareSpr0IRQ
  \/ PrepareSoundIRQFromSpr0
  \/ PrepareVblankIRQFromSpr0
  \/ SoundAPURegUpdate
  \/ PrepareSpr0IRQFromSoundLine
  \/ PrepareVblankIRQ

Next ==
  \/ Tick
  \/ Mask
  \/ Unmask
  \/ \E y \in SprYs : WriteSprite(y)
  \/ \E n \in BOOLEAN : WriteControl1(n)
  \/ \E s \in BOOLEAN : WriteControl2(s)
  \/ ProgramVcounter
  \/ ReadStatusBoot
  \/ EnterIrq
  \/ Handler

\* The V counter runs, the processor executes, and the game does not stay in
\* an emulation routine (nor masks interrupts) for ever.
Fairness ==
  /\ SF_vars(Tick)
  /\ WF_vars(Handler)
  /\ WF_vars(ProgramVcounter)
  /\ SF_vars(EnterIrq)
  /\ SF_vars(Unmask)

Spec == Init /\ [][Next]_vars /\ Fairness

-----------------------------------------------------------------------------
(* Correctness.                                                            *)

\* The timer calls the NMI at most once in a frame, whenever the game writes;
\* it updates the sound at most once too, unless the game makes InitSprite0
\* plan the frame again before vblank.
OncePerFrame == nmis <= 1 /\ (sounds > 1 => replan)

\* A frame goes without its NMI only when the timer was given, in that frame,
\* a line already begun or past the start of vblank: the chain loses no
\* interrupt otherwise, whenever the game writes and the processor serves it.
MissedOnlyAstray == [][line' < line /\ nmis = 0 => astray]_vars

\* The chain is self-stabilising: once sprite 0 rests at a Y that leaves every
\* handler the time to end, and $2001 is written early in vblank only, the NMI
\* is called for ever, whatever both were before.
RestedNmiRecurs ==
  <>[][oamY' = oamY /\ oamY \in RestYs /\ (pc = "init" => vcount \in RestLines)]_vars
    => []<>(nmis > 0)

\* Sprite0.txt: the counter is used "to set a flag on the sprite top line": a
\* visible sprite 0 at rest is hit for ever.
VisibleHitRecurs ==
  (\E y \in SprYs : y + SprAdd < VbStart /\ <>[](oamY = y /\ show)) => []<>hit
=============================================================================
