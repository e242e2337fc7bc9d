--------------------------- MODULE IrqTimerProofs ---------------------------
(* Theorems about module IrqTimer, for any frame, sprites and lateness.     *)
EXTENDS IrqTimer, TLAPS

\* The sum for the handlers fits in a byte: this is what the 8 bit addition of
\* PrepareSpr0IRQ gives.
LEMMA SprLineType ==
  ASSUME TypeOK
  PROVE  SprLine \in 0..(Byte - 1)
  BY TimerAssumption DEF TypeOK, SprLine

\* InitSprite0 computes with 16 bits, but only ever programs a line that fits
\* in VTIMEL.
LEMMA FirstLineType ==
  ASSUME NEW v \in Nat, NEW s \in Nat
  PROVE  FirstLine(v, s) \in 0..(Byte - 1)
  BY TimerAssumption DEF FirstLine

\* The whole vector of variables after a return from the handler.
LEMMA ReturnType ==
  ASSUME TypeOK, NEW l \in 0..(Byte - 1), Return(l),
         vb' \in BOOLEAN, hit' \in BOOLEAN, spr0' \in 0..(Byte - 1), sounds' = sounds
  PROVE  TypeOK'
<1>1. irq' \in BOOLEAN /\ astray' \in BOOLEAN /\ replan' \in BOOLEAN
  BY DEF Return, SetTimer, TypeOK, Astray
<1>2. line' \in 0..(Lines - 1) /\ vtime' \in 0..(Byte - 1) /\ late' \in 0..MaxLate
      /\ vcount' \in 0..(Lines - 1) /\ nmis' \in 0..2 /\ sounds' \in 0..2
  BY DEF Return, SetTimer, TypeOK
<1>3. masked' \in BOOLEAN /\ pc' \in {"game", "init", "irq", "sound"}
  BY DEF Return
<1>4. oamY' \in SprYs /\ show' \in BOOLEAN /\ nmiOn' \in BOOLEAN /\ boot' \in BOOLEAN
  BY DEF Return, game, TypeOK
<1> QED BY <1>1, <1>2, <1>3, <1>4 DEF TypeOK

\* The handler returns through one of these exits.
LEMMA HandlerType ==
  ASSUME TypeOK, Handler
  PROVE  TypeOK'
<1> USE TimerAssumption
<1>0. SprLine \in 0..(Byte - 1)
  BY SprLineType
<1>1. CASE NesNmi
  <2>1. nmis' \in 0..2
    BY <1>1 DEF NesNmi, TypeOK, UpTo2
  <2>2. vtime' \in 0..(Byte - 1)
    BY <1>1 DEF NesNmi
  <2>3. vb' \in BOOLEAN /\ irq' \in BOOLEAN /\ masked' \in BOOLEAN
    BY <1>1 DEF NesNmi, TypeOK
  <2> QED BY <1>1, <2>1, <2>2, <2>3 DEF NesNmi, TypeOK, game
<1>2. CASE PrepareSoundIRQFromVblankEnd
  <2>1. SoundLine \in 0..(Byte - 1)
    OBVIOUS
  <2>2. Return(SoundLine) /\ vb' = FALSE /\ hit' = FALSE /\ spr0' = spr0 /\ sounds' = sounds
    BY <1>2 DEF PrepareSoundIRQFromVblankEnd
  <2> QED BY <2>1, <2>2, ReturnType DEF TypeOK
<1>3. CASE PrepareSpr0IRQ
  <2>1. Return(SprLine) /\ vb' = FALSE /\ hit' = FALSE /\ spr0' = SprLine /\ sounds' = sounds
    BY <1>3 DEF PrepareSpr0IRQ, ProgramSpr0
  <2> QED BY <1>0, <2>1, ReturnType
<1>4. CASE PrepareSoundIRQFromSpr0
  <2>1. SoundLine \in 0..(Byte - 1)
    OBVIOUS
  <2>2. Return(SoundLine) /\ vb' = vb /\ hit' = (hit \/ show) /\ spr0' = spr0 /\ sounds' = sounds
    BY <1>4 DEF PrepareSoundIRQFromSpr0
  <2>3. hit' \in BOOLEAN
    BY <2>2
  <2> QED BY <2>1, <2>2, <2>3, ReturnType DEF TypeOK
<1>5. CASE PrepareVblankIRQFromSpr0
  <2>1. VbStart \in 0..(Byte - 1)
    OBVIOUS
  <2>2. Return(VbStart) /\ vb' = vb /\ hit' = TRUE /\ spr0' = spr0 /\ sounds' = sounds
    BY <1>5 DEF PrepareVblankIRQFromSpr0
  <2> QED BY <2>1, <2>2, ReturnType DEF TypeOK
<1>6. CASE SoundAPURegUpdate
  BY <1>6 DEF SoundAPURegUpdate, TypeOK, UpTo2, game, chain
<1>7. CASE PrepareSpr0IRQFromSoundLine
  <2>1. Return(SprLine) /\ vb' = FALSE /\ hit' = FALSE /\ spr0' = SprLine /\ sounds' = sounds
    BY <1>7 DEF PrepareSpr0IRQFromSoundLine, ProgramSpr0
  <2> QED BY <1>0, <2>1, ReturnType
<1>8. CASE PrepareVblankIRQ
  <2>1. VbStart \in 0..(Byte - 1)
    OBVIOUS
  <2>2. Return(VbStart) /\ vb' = vb /\ hit' = hit /\ spr0' = spr0 /\ sounds' = sounds
    BY <1>8 DEF PrepareVblankIRQ
  <2> QED BY <2>1, <2>2, ReturnType DEF TypeOK
<1> QED BY <1>1, <1>2, <1>3, <1>4, <1>5, <1>6, <1>7, <1>8 DEF Handler

LEMMA TypeInit == Init => TypeOK
<1> USE TimerAssumption
<1> SUFFICES ASSUME Init PROVE TypeOK
  OBVIOUS
<1>1. oamY + SprAdd \in Nat /\ line \in Nat
  BY DEF Init
<1>2. vtime \in 0..(Byte - 1)
  BY <1>1, FirstLineType DEF Init
<1>3. spr0 \in 0..(Byte - 1)
  BY <1>1 DEF Init, SprLine
<1>4. line \in 0..(Lines - 1) /\ vcount \in 0..(Lines - 1) /\ late \in 0..MaxLate
  BY DEF Init
<1>5. nmis \in 0..2 /\ sounds \in 0..2
  BY DEF Init
<1>6. irq \in BOOLEAN /\ masked \in BOOLEAN /\ vb \in BOOLEAN /\ hit \in BOOLEAN
      /\ show \in BOOLEAN /\ nmiOn \in BOOLEAN /\ boot \in BOOLEAN /\ astray \in BOOLEAN
      /\ replan \in BOOLEAN
  BY DEF Init
<1>7. pc \in {"game", "init", "irq", "sound"} /\ oamY \in SprYs
  BY DEF Init
<1> QED BY <1>2, <1>3, <1>4, <1>5, <1>6, <1>7 DEF TypeOK

LEMMA TypeStep == TypeOK /\ [Next]_vars => TypeOK'
<1> USE TimerAssumption
<1> SUFFICES ASSUME TypeOK, [Next]_vars PROVE TypeOK'
  OBVIOUS
<1>1. CASE Tick
  <2>1. line' \in 0..(Lines - 1)
    BY <1>1 DEF Tick, TypeOK
  <2>2. irq' \in BOOLEAN
    BY <1>1 DEF Tick, TypeOK
  <2>3. late' \in 0..MaxLate
    BY <1>1 DEF Tick, TypeOK
  <2>4. nmis' \in 0..2 /\ sounds' \in 0..2
    BY <1>1 DEF Tick, TypeOK, history
  <2>5. astray' \in BOOLEAN /\ replan' \in BOOLEAN
    <3>1. CASE line' = 0
      <4>1. astray' = (vtime \notin 0..VbStart) /\ replan' = FALSE
        BY <1>1, <3>1, Zenon DEF Tick
      <4> QED BY <4>1, Zenon
    <3>2. CASE line' # 0
      <4>1. astray' = astray /\ replan' = replan
        BY <1>1, <3>2, Zenon DEF Tick, history
      <4> QED BY <4>1, Zenon DEF TypeOK
    <3> QED BY <3>1, <3>2
  <2> QED BY <1>1, <2>1, <2>2, <2>3, <2>4, <2>5 DEF Tick, TypeOK, chain, game
<1>2. CASE Mask
  BY <1>2 DEF Mask, TypeOK, chain, game, history
<1>3. CASE Unmask
  BY <1>3 DEF Unmask, TypeOK, chain, game, history
<1>4. CASE \E y \in SprYs : WriteSprite(y)
  BY <1>4 DEF WriteSprite, TypeOK, chain, game, history
<1>5. CASE \E n \in BOOLEAN : WriteControl1(n)
  BY <1>5 DEF WriteControl1, TypeOK, chain, game, history
<1>6. CASE \E s \in BOOLEAN : WriteControl2(s)
  BY <1>6, SprLineType DEF WriteControl2, TypeOK, chain, game, history
<1>7. CASE ProgramVcounter
  <2>1. oamY + SprAdd \in Nat /\ vcount \in Nat
    BY DEF TypeOK
  <2>2. FirstLine(vcount, oamY + SprAdd) \in 0..(Byte - 1)
    BY <2>1, FirstLineType
  <2>3. vtime' \in 0..(Byte - 1)
    BY <1>7, <2>2 DEF ProgramVcounter, SetTimer
  <2>4. irq' \in BOOLEAN /\ astray' \in BOOLEAN
    BY <1>7 DEF ProgramVcounter, SetTimer, TypeOK, Astray
  <2> QED BY <1>7, <2>3, <2>4 DEF ProgramVcounter, TypeOK, game
<1>8. CASE ReadStatusBoot
  BY <1>8 DEF ReadStatusBoot, TypeOK, history
<1>9. CASE EnterIrq
  <2>1. vcount' \in 0..(Lines - 1)
    BY <1>9 DEF EnterIrq, TypeOK
  <2>2. late' \in 0..MaxLate
    BY <1>9 DEF EnterIrq
  <2> QED BY <1>9, <2>1, <2>2 DEF EnterIrq, TypeOK, chain, game, history
<1>10. CASE Handler
  BY <1>10, HandlerType
<1>11. CASE UNCHANGED vars
  BY <1>11 DEF vars, TypeOK
<1> QED BY <1>1, <1>2, <1>3, <1>4, <1>5, <1>6, <1>7, <1>8, <1>9, <1>10, <1>11 DEF Next

\* TypeOK: every line the chain programs fits in VTIMEL, and the V counter,
\* the latched line and the line of sprite 0 keep their widths.
THEOREM TimerTypeCorrect == Spec => []TypeOK
  BY TypeInit, TypeStep, PTL DEF Spec

-----------------------------------------------------------------------------
(* The chain of a frame.                                                   *)

InHandler == pc \in {"irq", "sound"}

\* A frame does not end while an interrupt is pending or served: the lines the
\* timer can hold end early enough.
NoWrap ==
  /\ irq => line <= Byte - 1 + late
  /\ InHandler => line <= Byte - 1 + MaxLate + late

\* The line a handler has latched is at most late behind.
Latched ==
  /\ InHandler =>
       /\ vcount < Byte
       /\ \/ vcount <= line /\ line <= vcount + late
          \/ vcount + Byte <= line /\ line <= vcount + Byte + late
  /\ pc = "sound" => SoundLine <= vcount /\ vcount < VbStart

\* So is the line InitSprite0 has latched, before vblank.
Planning ==
  pc = "init" /\ vcount < VbStart => replan /\ vcount <= line /\ line <= vcount + late

\* Unless InitSprite0 came between, the line that raised an interrupt is still
\* in the timer, and no other interrupt comes during the handler.
Served ==
  ~replan =>
    /\ irq /\ line < VbStart => vtime <= line
    /\ InHandler /\ vcount < VbStart /\ line < vcount + Byte => vtime <= line /\ ~irq

\* After the NMI the timer is set for the next frame.
NmiDone ==
  /\ nmis <= 1
  /\ nmis = 1 => /\ line >= VbStart /\ vtime = 0 /\ ~irq
                 /\ ~InHandler /\ (pc = "init" => vcount >= VbStart)

\* The line of sprite 0 under the sound line.
Under(l) == SoundLine <= spr0 /\ spr0 < VbStart /\ spr0 <= l

\* After the sound update no interrupt of this frame comes to it again.
SoundDone ==
  ~replan =>
    /\ sounds <= 1
    /\ sounds = 1 =>
         /\ line >= SoundLine
         /\ pc = "sound" => ~irq /\ vtime <= line
         /\ pc # "sound" =>
              /\ irq => line >= VbStart \/ Under(line)
              /\ vtime <= line \/ vtime >= VbStart \/ Under(vtime)
         /\ pc = "irq" => vcount >= VbStart \/ vcount + Byte <= line \/ Under(vcount)

\* As long as the NMI is to come, it is pending, served, or ahead.
OnItsWay ==
  nmis = 0 /\ ~astray =>
    irq \/ InHandler \/ (line < vtime /\ vtime <= VbStart)

FrameInv ==
  /\ TypeOK /\ NoWrap /\ Latched /\ Planning /\ Served
  /\ NmiDone /\ SoundDone /\ OnItsWay

\* What the constants say of the lines.
LEMMA LineFacts ==
  /\ Lines \in Nat /\ Byte \in Nat /\ VbStart \in Nat /\ SoundLine \in Nat /\ MaxLate \in Nat
  /\ 0 < SoundLine /\ SoundLine < VbStart /\ VbStart < Byte /\ Byte <= Lines
  /\ Lines - Byte <= SoundLine /\ Byte - 1 + (2 * MaxLate) < Lines
  /\ Byte - 1 + MaxLate < Lines
  BY TimerAssumption

\* Setting the timer raises an interrupt for this line at most.
LEMMA SetTimerFacts ==
  ASSUME TypeOK, NEW l \in 0..Byte - 1, SetTimer(l)
  PROVE  /\ vtime' = l
         /\ irq' => irq \/ l = line
         /\ irq => irq'
         /\ ~astray' =>
             ~astray /\ (IF line < VbStart THEN line < l /\ l <= VbStart
                           ELSE l = 0 /\ (nmis = 0 => irq))
<1>1. vtime' = l /\ (irq => irq')
  BY DEF SetTimer, TypeOK
<1>2. irq' => irq \/ l = line
  BY DEF SetTimer, TypeOK
<1>3. astray' = (astray \/ Astray(l))
  BY DEF SetTimer
<1>4. ~astray' => ~astray /\ ~Astray(l)
  BY <1>3, Zenon
<1>5. ~Astray(l) => IF line < VbStart THEN line < l /\ l <= VbStart
                                      ELSE l = 0 /\ (nmis = 0 => irq)
  BY LineFacts DEF Astray, TypeOK
<1> QED BY <1>1, <1>2, <1>4, <1>5

LEMMA TickFrame == FrameInv /\ TypeOK' /\ Tick => FrameInv'
<1> SUFFICES ASSUME FrameInv, TypeOK', Tick PROVE FrameInv'
  OBVIOUS
<1> USE LineFacts
DEF FrameInv, TypeOK, InHandler, Under, Tick, Busy, chain, game, history
<1>0. line' = (IF line + 1 = Lines THEN 0 ELSE line + 1)
  BY DEF Tick
<1>1. NoWrap'
  BY <1>0 DEF NoWrap, Latched, Planning, Served, NmiDone, SoundDone, OnItsWay
<1>2. Latched'
  BY <1>0 DEF NoWrap, Latched, Planning, Served, NmiDone, SoundDone, OnItsWay
<1>3. Planning'
  <2> SUFFICES ASSUME pc = "init", vcount < VbStart PROVE Planning'
    BY DEF Planning
  <2>1. replan /\ vcount <= line /\ line <= vcount + late
    BY DEF Planning
  <2>2. line' = line + 1 /\ line' # 0 /\ late' = late + 1
    BY <1>0, <2>1
  <2>3. replan' = replan
    BY <2>2, Zenon DEF Tick, history
  <2>4. replan'
    BY <2>1, <2>3, Zenon
  <2> QED BY <2>1, <2>2, <2>4 DEF Planning
<1>4. Served'
  BY <1>0 DEF NoWrap, Latched, Planning, Served, NmiDone, SoundDone, OnItsWay
<1>5. NmiDone'
  BY <1>0 DEF NoWrap, Latched, Planning, Served, NmiDone, SoundDone, OnItsWay
<1>6. SoundDone'
  BY <1>0 DEF NoWrap, Latched, Planning, Served, NmiDone, SoundDone, OnItsWay
<1>7. OnItsWay'
  <2>1. CASE line' = 0
    <3>1. astray' = (vtime \notin 0..VbStart)
      BY <2>1, Zenon DEF Tick
    <3>2. ~astray' => vtime \in 0..VbStart
      BY <3>1, Zenon
    <3>3. irq' = (irq \/ line' = vtime)
      BY Zenon DEF Tick
    <3>4. vtime = 0 => irq'
      BY <2>1, <3>3, Zenon
    <3> QED BY <2>1, <3>2, <3>4 DEF OnItsWay
  <2>2. CASE line' # 0
    <3>1. astray' = astray /\ nmis' = nmis
      BY <2>2, Zenon DEF Tick, history
    <3>2. irq' = (irq \/ line' = vtime)
      BY Zenon DEF Tick
    <3>3. irq \/ line' = vtime => irq'
      BY <3>2, Zenon
    <3>4. ~astray' => ~astray
      BY <3>1, Zenon
    <3> QED BY <1>0, <2>2, <3>1, <3>3, <3>4 DEF OnItsWay
  <2> QED BY <2>1, <2>2
<1> QED BY <1>1, <1>2, <1>3, <1>4, <1>5, <1>6, <1>7

LEMMA WriteControl2Frame ==
  FrameInv /\ TypeOK' /\ (\E s \in BOOLEAN : WriteControl2(s)) => FrameInv'
<1> SUFFICES ASSUME FrameInv, TypeOK', (\E s \in BOOLEAN : WriteControl2(s)) PROVE FrameInv'
  OBVIOUS
<1> USE LineFacts DEF FrameInv, TypeOK, InHandler, Under, WriteControl2, Emulating
<1>0. replan' = (replan \/ line < VbStart)
  BY Zenon DEF WriteControl2
<1>a. (line < VbStart => replan') /\ (~replan' => ~replan /\ line >= VbStart)
  <2>1. (line < VbStart => replan') /\ (~replan' => ~replan /\ ~(line < VbStart))
    BY <1>0, Zenon
  <2> QED BY <2>1
<1>1. NoWrap'
  BY <1>a DEF NoWrap, Latched, Planning, Served, NmiDone, SoundDone, OnItsWay
<1>2. Latched'
  BY <1>a DEF NoWrap, Latched, Planning, Served, NmiDone, SoundDone, OnItsWay
<1>3. Planning'
  BY <1>a DEF NoWrap, Latched, Planning, Served, NmiDone, SoundDone, OnItsWay
<1>4. Served'
  BY <1>a DEF NoWrap, Latched, Planning, Served, NmiDone, SoundDone, OnItsWay
<1>5. NmiDone'
  BY <1>a DEF NoWrap, Latched, Planning, Served, NmiDone, SoundDone, OnItsWay
<1>6. SoundDone'
  BY <1>a DEF NoWrap, Latched, Planning, Served, NmiDone, SoundDone, OnItsWay
<1>7. OnItsWay'
  BY <1>a DEF NoWrap, Latched, Planning, Served, NmiDone, SoundDone, OnItsWay
<1> QED BY <1>1, <1>2, <1>3, <1>4, <1>5, <1>6, <1>7

LEMMA EnterIrqFrame == FrameInv /\ TypeOK' /\ EnterIrq => FrameInv'
<1> SUFFICES ASSUME FrameInv, TypeOK', EnterIrq PROVE FrameInv'
  OBVIOUS
<1> USE LineFacts DEF FrameInv, TypeOK, InHandler, Under, EnterIrq, chain, game, history
<1>0. vcount' = (IF line < Byte THEN line ELSE line - Byte)
  BY DEF EnterIrq
<1>1. NoWrap'
  BY <1>0 DEF NoWrap, Latched, Planning, Served, NmiDone, SoundDone, OnItsWay
<1>2. Latched'
  BY <1>0 DEF NoWrap, Latched, Planning, Served, NmiDone, SoundDone, OnItsWay
<1>3. Planning'
  BY <1>0 DEF NoWrap, Latched, Planning, Served, NmiDone, SoundDone, OnItsWay
<1>4. Served'
  BY <1>0 DEF NoWrap, Latched, Planning, Served, NmiDone, SoundDone, OnItsWay
<1>5. NmiDone'
  BY <1>0 DEF NoWrap, Latched, Planning, Served, NmiDone, SoundDone, OnItsWay
<1>6. SoundDone'
  BY <1>0 DEF NoWrap, Latched, Planning, Served, NmiDone, SoundDone, OnItsWay
<1>7. OnItsWay'
  BY <1>0 DEF NoWrap, Latched, Planning, Served, NmiDone, SoundDone, OnItsWay
<1> QED BY <1>1, <1>2, <1>3, <1>4, <1>5, <1>6, <1>7

LEMMA NesNmiFrame == FrameInv /\ TypeOK' /\ NesNmi => FrameInv'
<1> SUFFICES ASSUME FrameInv, TypeOK', NesNmi PROVE FrameInv'
  OBVIOUS
<1> USE LineFacts DEF FrameInv, TypeOK, InHandler, Under, NesNmi, UpTo2, game
<1>1. NoWrap'
  BY DEF NoWrap, Latched, Planning, Served, NmiDone, SoundDone, OnItsWay
<1>2. Latched'
  BY DEF NoWrap, Latched, Planning, Served, NmiDone, SoundDone, OnItsWay
<1>3. Planning'
  BY DEF NoWrap, Latched, Planning, Served, NmiDone, SoundDone, OnItsWay
<1>4. Served'
  BY DEF NoWrap, Latched, Planning, Served, NmiDone, SoundDone, OnItsWay
<1>5. NmiDone'
  BY DEF NoWrap, Latched, Planning, Served, NmiDone, SoundDone, OnItsWay
<1>6. SoundDone'
  BY DEF NoWrap, Latched, Planning, Served, NmiDone, SoundDone, OnItsWay
<1>7. OnItsWay'
  BY DEF NoWrap, Latched, Planning, Served, NmiDone, SoundDone, OnItsWay
<1> QED BY <1>1, <1>2, <1>3, <1>4, <1>5, <1>6, <1>7

LEMMA SoundAPURegUpdateFrame == FrameInv /\ TypeOK' /\ SoundAPURegUpdate => FrameInv'
<1> SUFFICES ASSUME FrameInv, TypeOK', SoundAPURegUpdate PROVE FrameInv'
  OBVIOUS
<1> USE LineFacts
DEF FrameInv, TypeOK, InHandler, Under, SoundAPURegUpdate, VCountHandler, UpTo2,
    chain, game
<1>1. NoWrap'
  BY DEF NoWrap, Latched, Planning, Served, NmiDone, SoundDone, OnItsWay
<1>2. Latched'
  BY DEF NoWrap, Latched, Planning, Served, NmiDone, SoundDone, OnItsWay
<1>3. Planning'
  BY DEF NoWrap, Latched, Planning, Served, NmiDone, SoundDone, OnItsWay
<1>4. Served'
  BY DEF NoWrap, Latched, Planning, Served, NmiDone, SoundDone, OnItsWay
<1>5. NmiDone'
  BY DEF NoWrap, Latched, Planning, Served, NmiDone, SoundDone, OnItsWay
<1>6. SoundDone'
  <2> SUFFICES ASSUME ~replan PROVE SoundDone'
    BY DEF SoundDone
  <2>1. pc = "irq" /\ vcount >= SoundLine /\ vcount < VbStart
        /\ (Under(vcount) => FALSE)
    OBVIOUS
  <2>2. line >= SoundLine /\ ~(vcount + Byte <= line)
    BY <2>1 DEF Latched
  <2>3. ~irq /\ vtime <= line
    BY <2>1, <2>2 DEF Latched, Served
  <2>4. sounds = 0
    BY <2>1, <2>2, <2>3 DEF SoundDone
  <2> QED BY <2>1, <2>2, <2>3, <2>4 DEF SoundDone
<1>7. OnItsWay'
  BY DEF NoWrap, Latched, Planning, Served, NmiDone, SoundDone, OnItsWay
<1> QED BY <1>1, <1>2, <1>3, <1>4, <1>5, <1>6, <1>7

LEMMA PrepareSoundIRQFromVblankEndFrame ==
  FrameInv /\ TypeOK' /\ PrepareSoundIRQFromVblankEnd => FrameInv'
<1> SUFFICES ASSUME FrameInv, TypeOK', PrepareSoundIRQFromVblankEnd PROVE FrameInv'
  OBVIOUS
<1> USE LineFacts
DEF FrameInv, TypeOK, InHandler, Under, PrepareSoundIRQFromVblankEnd,
    VCountHandler, Return, game
<1>0. /\ SoundLine \in 0..Byte - 1
      /\ vtime' = SoundLine
      /\ irq' => irq \/ SoundLine = line
      /\ irq => irq'
      /\ ~astray' =>
          ~astray /\ (IF line < VbStart THEN line < SoundLine /\ SoundLine <= VbStart
                        ELSE SoundLine = 0 /\ (nmis = 0 => irq))
  BY SprLineType, SetTimerFacts
<1>1. NoWrap'
  BY <1>0 DEF NoWrap, Latched, Planning, Served, NmiDone, SoundDone, OnItsWay
<1>2. Latched'
  BY <1>0 DEF NoWrap, Latched, Planning, Served, NmiDone, SoundDone, OnItsWay
<1>3. Planning'
  BY <1>0 DEF NoWrap, Latched, Planning, Served, NmiDone, SoundDone, OnItsWay
<1>4. Served'
  BY <1>0 DEF NoWrap, Latched, Planning, Served, NmiDone, SoundDone, OnItsWay
<1>5. NmiDone'
  BY <1>0 DEF NoWrap, Latched, Planning, Served, NmiDone, SoundDone, OnItsWay
<1>6. SoundDone'
  BY <1>0 DEF NoWrap, Latched, Planning, Served, NmiDone, SoundDone, OnItsWay
<1>7. OnItsWay'
  BY <1>0 DEF NoWrap, Latched, Planning, Served, NmiDone, SoundDone, OnItsWay
<1> QED BY <1>1, <1>2, <1>3, <1>4, <1>5, <1>6, <1>7

LEMMA PrepareSpr0IRQFrame == FrameInv /\ TypeOK' /\ PrepareSpr0IRQ => FrameInv'
<1> SUFFICES ASSUME FrameInv, TypeOK', PrepareSpr0IRQ PROVE FrameInv'
  OBVIOUS
<1> USE LineFacts
DEF FrameInv, TypeOK, InHandler, Under, PrepareSpr0IRQ, VCountHandler, Return,
    game, ProgramSpr0
<1>0. /\ SprLine \in 0..Byte - 1
      /\ vtime' = SprLine
      /\ irq' => irq \/ SprLine = line
      /\ irq => irq'
      /\ ~astray' =>
          ~astray /\ (IF line < VbStart THEN line < SprLine /\ SprLine <= VbStart
                        ELSE SprLine = 0 /\ (nmis = 0 => irq))
  BY SprLineType, SetTimerFacts
<1>1. NoWrap'
  BY <1>0 DEF NoWrap, Latched, Planning, Served, NmiDone, SoundDone, OnItsWay
<1>2. Latched'
  BY <1>0 DEF NoWrap, Latched, Planning, Served, NmiDone, SoundDone, OnItsWay
<1>3. Planning'
  BY <1>0 DEF NoWrap, Latched, Planning, Served, NmiDone, SoundDone, OnItsWay
<1>4. Served'
  BY <1>0 DEF NoWrap, Latched, Planning, Served, NmiDone, SoundDone, OnItsWay
<1>5. NmiDone'
  BY <1>0 DEF NoWrap, Latched, Planning, Served, NmiDone, SoundDone, OnItsWay
<1>6. SoundDone'
  BY <1>0 DEF NoWrap, Latched, Planning, Served, NmiDone, SoundDone, OnItsWay
<1>7. OnItsWay'
  BY <1>0 DEF NoWrap, Latched, Planning, Served, NmiDone, SoundDone, OnItsWay
<1> QED BY <1>1, <1>2, <1>3, <1>4, <1>5, <1>6, <1>7

LEMMA PrepareSoundIRQFromSpr0Frame ==
  FrameInv /\ TypeOK' /\ PrepareSoundIRQFromSpr0 => FrameInv'
<1> SUFFICES ASSUME FrameInv, TypeOK', PrepareSoundIRQFromSpr0 PROVE FrameInv'
  OBVIOUS
<1> USE LineFacts
DEF FrameInv, TypeOK, InHandler, Under, PrepareSoundIRQFromSpr0, VCountHandler,
    Return, game
<1>0. /\ SoundLine \in 0..Byte - 1
      /\ vtime' = SoundLine
      /\ irq' => irq \/ SoundLine = line
      /\ irq => irq'
      /\ ~astray' =>
          ~astray /\ (IF line < VbStart THEN line < SoundLine /\ SoundLine <= VbStart
                        ELSE SoundLine = 0 /\ (nmis = 0 => irq))
  BY SprLineType, SetTimerFacts
<1>1. NoWrap'
  BY <1>0 DEF NoWrap, Latched, Planning, Served, NmiDone, SoundDone, OnItsWay
<1>2. Latched'
  BY <1>0 DEF NoWrap, Latched, Planning, Served, NmiDone, SoundDone, OnItsWay
<1>3. Planning'
  BY <1>0 DEF NoWrap, Latched, Planning, Served, NmiDone, SoundDone, OnItsWay
<1>4. Served'
  BY <1>0 DEF NoWrap, Latched, Planning, Served, NmiDone, SoundDone, OnItsWay
<1>5. NmiDone'
  BY <1>0 DEF NoWrap, Latched, Planning, Served, NmiDone, SoundDone, OnItsWay
<1>6. SoundDone'
  BY <1>0 DEF NoWrap, Latched, Planning, Served, NmiDone, SoundDone, OnItsWay
<1>7. OnItsWay'
  BY <1>0 DEF NoWrap, Latched, Planning, Served, NmiDone, SoundDone, OnItsWay
<1> QED BY <1>1, <1>2, <1>3, <1>4, <1>5, <1>6, <1>7

LEMMA PrepareVblankIRQFromSpr0Frame ==
  FrameInv /\ TypeOK' /\ PrepareVblankIRQFromSpr0 => FrameInv'
<1> SUFFICES ASSUME FrameInv, TypeOK', PrepareVblankIRQFromSpr0 PROVE FrameInv'
  OBVIOUS
<1> USE LineFacts
DEF FrameInv, TypeOK, InHandler, Under, PrepareVblankIRQFromSpr0, VCountHandler,
    Return, game
<1>0. /\ VbStart \in 0..Byte - 1
      /\ vtime' = VbStart
      /\ irq' => irq \/ VbStart = line
      /\ irq => irq'
      /\ ~astray' =>
          ~astray /\ (IF line < VbStart THEN line < VbStart /\ VbStart <= VbStart
                        ELSE VbStart = 0 /\ (nmis = 0 => irq))
  BY SprLineType, SetTimerFacts
<1>1. NoWrap'
  BY <1>0 DEF NoWrap, Latched, Planning, Served, NmiDone, SoundDone, OnItsWay
<1>2. Latched'
  BY <1>0 DEF NoWrap, Latched, Planning, Served, NmiDone, SoundDone, OnItsWay
<1>3. Planning'
  BY <1>0 DEF NoWrap, Latched, Planning, Served, NmiDone, SoundDone, OnItsWay
<1>4. Served'
  BY <1>0 DEF NoWrap, Latched, Planning, Served, NmiDone, SoundDone, OnItsWay
<1>5. NmiDone'
  BY <1>0 DEF NoWrap, Latched, Planning, Served, NmiDone, SoundDone, OnItsWay
<1>6. SoundDone'
  BY <1>0 DEF NoWrap, Latched, Planning, Served, NmiDone, SoundDone, OnItsWay
<1>7. OnItsWay'
  BY <1>0 DEF NoWrap, Latched, Planning, Served, NmiDone, SoundDone, OnItsWay
<1> QED BY <1>1, <1>2, <1>3, <1>4, <1>5, <1>6, <1>7

LEMMA PrepareSpr0IRQFromSoundLineFrame ==
  FrameInv /\ TypeOK' /\ PrepareSpr0IRQFromSoundLine => FrameInv'
<1> SUFFICES ASSUME FrameInv, TypeOK', PrepareSpr0IRQFromSoundLine PROVE FrameInv'
  OBVIOUS
<1> USE LineFacts
DEF FrameInv, TypeOK, InHandler, Under, PrepareSpr0IRQFromSoundLine,
    VCountHandler, Return, game, ProgramSpr0
<1>0. /\ SprLine \in 0..Byte - 1
      /\ vtime' = SprLine
      /\ irq' => irq \/ SprLine = line
      /\ irq => irq'
      /\ ~astray' =>
          ~astray /\ (IF line < VbStart THEN line < SprLine /\ SprLine <= VbStart
                        ELSE SprLine = 0 /\ (nmis = 0 => irq))
  BY SprLineType, SetTimerFacts
<1>1. NoWrap'
  BY <1>0 DEF NoWrap, Latched, Planning, Served, NmiDone, SoundDone, OnItsWay
<1>2. Latched'
  BY <1>0 DEF NoWrap, Latched, Planning, Served, NmiDone, SoundDone, OnItsWay
<1>3. Planning'
  BY <1>0 DEF NoWrap, Latched, Planning, Served, NmiDone, SoundDone, OnItsWay
<1>4. Served'
  BY <1>0 DEF NoWrap, Latched, Planning, Served, NmiDone, SoundDone, OnItsWay
<1>5. NmiDone'
  BY <1>0 DEF NoWrap, Latched, Planning, Served, NmiDone, SoundDone, OnItsWay
<1>6. SoundDone'
  BY <1>0 DEF NoWrap, Latched, Planning, Served, NmiDone, SoundDone, OnItsWay
<1>7. OnItsWay'
  BY <1>0 DEF NoWrap, Latched, Planning, Served, NmiDone, SoundDone, OnItsWay
<1> QED BY <1>1, <1>2, <1>3, <1>4, <1>5, <1>6, <1>7

LEMMA PrepareVblankIRQFrame == FrameInv /\ TypeOK' /\ PrepareVblankIRQ => FrameInv'
<1> SUFFICES ASSUME FrameInv, TypeOK', PrepareVblankIRQ PROVE FrameInv'
  OBVIOUS
<1> USE LineFacts
DEF FrameInv, TypeOK, InHandler, Under, PrepareVblankIRQ, VCountHandler, Return,
    game
<1>0. /\ VbStart \in 0..Byte - 1
      /\ vtime' = VbStart
      /\ irq' => irq \/ VbStart = line
      /\ irq => irq'
      /\ ~astray' =>
          ~astray /\ (IF line < VbStart THEN line < VbStart /\ VbStart <= VbStart
                        ELSE VbStart = 0 /\ (nmis = 0 => irq))
  BY SprLineType, SetTimerFacts
<1>1. NoWrap'
  BY <1>0 DEF NoWrap, Latched, Planning, Served, NmiDone, SoundDone, OnItsWay
<1>2. Latched'
  BY <1>0 DEF NoWrap, Latched, Planning, Served, NmiDone, SoundDone, OnItsWay
<1>3. Planning'
  BY <1>0 DEF NoWrap, Latched, Planning, Served, NmiDone, SoundDone, OnItsWay
<1>4. Served'
  BY <1>0 DEF NoWrap, Latched, Planning, Served, NmiDone, SoundDone, OnItsWay
<1>5. NmiDone'
  BY <1>0 DEF NoWrap, Latched, Planning, Served, NmiDone, SoundDone, OnItsWay
<1>6. SoundDone'
  BY <1>0 DEF NoWrap, Latched, Planning, Served, NmiDone, SoundDone, OnItsWay
<1>7. OnItsWay'
  BY <1>0 DEF NoWrap, Latched, Planning, Served, NmiDone, SoundDone, OnItsWay
<1> QED BY <1>1, <1>2, <1>3, <1>4, <1>5, <1>6, <1>7

LEMMA ProgramVcounterFrame == FrameInv /\ TypeOK' /\ ProgramVcounter => FrameInv'
<1> SUFFICES ASSUME FrameInv, TypeOK', ProgramVcounter PROVE FrameInv'
  OBVIOUS
<1> USE LineFacts DEF FrameInv, TypeOK, InHandler, Under, ProgramVcounter, game
<1> DEFINE l == FirstLine(vcount, oamY + SprAdd)
<1>0. /\ l \in 0..Byte - 1
      /\ vtime' = l
      /\ irq' => irq \/ l = line
      /\ irq => irq'
      /\ ~astray' =>
          ~astray /\ (IF line < VbStart THEN line < l /\ l <= VbStart
                        ELSE l = 0 /\ (nmis = 0 => irq))
  <2>1. vcount \in Nat /\ oamY + SprAdd \in Nat
    BY TimerAssumption
  <2>2. l \in 0..Byte - 1
    BY <2>1, FirstLineType
  <2> HIDE DEF l
  <2>3. SetTimer(l)
    BY DEF l
  <2> QED BY <2>2, <2>3, SetTimerFacts
<1>9. vcount >= VbStart => l = 0
  BY DEF FirstLine
<1> HIDE DEF l
<1>1. NoWrap'
  BY <1>0, <1>9 DEF NoWrap, Latched, Planning, Served, NmiDone, SoundDone, OnItsWay
<1>2. Latched'
  BY <1>0, <1>9 DEF NoWrap, Latched, Planning, Served, NmiDone, SoundDone, OnItsWay
<1>3. Planning'
  BY <1>0, <1>9 DEF NoWrap, Latched, Planning, Served, NmiDone, SoundDone, OnItsWay
<1>4. Served'
  BY <1>0, <1>9 DEF NoWrap, Latched, Planning, Served, NmiDone, SoundDone, OnItsWay
<1>5. NmiDone'
  BY <1>0, <1>9 DEF NoWrap, Latched, Planning, Served, NmiDone, SoundDone, OnItsWay
<1>6. SoundDone'
  BY <1>0, <1>9 DEF NoWrap, Latched, Planning, Served, NmiDone, SoundDone, OnItsWay
<1>7. OnItsWay'
  BY <1>0, <1>9 DEF NoWrap, Latched, Planning, Served, NmiDone, SoundDone, OnItsWay
<1> QED BY <1>1, <1>2, <1>3, <1>4, <1>5, <1>6, <1>7

LEMMA InitFrame == Init /\ TypeOK => FrameInv
<1> SUFFICES ASSUME Init, TypeOK PROVE FrameInv
  OBVIOUS
<1> USE LineFacts DEF Init, InHandler, TypeOK
<1>1. vtime = FirstLine(line, oamY + SprAdd) /\ oamY + SprAdd \in Nat
  BY TimerAssumption
<1>2. line < VbStart => line < vtime /\ vtime <= VbStart
  BY <1>1 DEF FirstLine
<1>3. line >= VbStart => vtime = 0
  BY <1>1 DEF FirstLine
<1>4. NoWrap /\ Latched /\ Planning /\ Served
  BY DEF NoWrap, Latched, Planning, Served
<1>5. NmiDone /\ SoundDone /\ OnItsWay
  BY <1>2, <1>3 DEF NmiDone, SoundDone, OnItsWay
<1> QED BY <1>4, <1>5 DEF FrameInv

\* What the frame does not depend on.
LEMMA StillFrame ==
  ASSUME FrameInv, TypeOK',
         UNCHANGED <<line, vtime, irq, late, pc, vcount, spr0, nmis, sounds, astray, replan>>
  PROVE  FrameInv'
  BY DEF FrameInv, NoWrap, Latched, Planning, Served, NmiDone, SoundDone, OnItsWay,
     InHandler, Under

LEMMA FrameStep == FrameInv /\ [Next]_vars => FrameInv'
<1> SUFFICES ASSUME FrameInv, [Next]_vars PROVE FrameInv'
  OBVIOUS
<1>0. TypeOK'
  BY TypeStep DEF FrameInv
<1>1. CASE Mask \/ Unmask
  BY <1>0, <1>1, StillFrame DEF Mask, Unmask, chain, game, history
<1>2. CASE (\E y \in SprYs : WriteSprite(y)) \/ (\E n \in BOOLEAN : WriteControl1(n))
  BY <1>0, <1>2, StillFrame DEF WriteSprite, WriteControl1, chain, game, history
<1>3. CASE ReadStatusBoot
  BY <1>0, <1>3, StillFrame DEF ReadStatusBoot, history
<1>4. CASE Tick
  BY <1>0, <1>4, TickFrame
<1>5. CASE \E s \in BOOLEAN : WriteControl2(s)
  BY <1>0, <1>5, WriteControl2Frame
<1>6. CASE ProgramVcounter
  BY <1>0, <1>6, ProgramVcounterFrame
<1>7. CASE EnterIrq
  BY <1>0, <1>7, EnterIrqFrame
<1>8. CASE Handler
  BY <1>0, <1>8, NesNmiFrame, PrepareSoundIRQFromVblankEndFrame, PrepareSpr0IRQFrame,
     PrepareSoundIRQFromSpr0Frame, PrepareVblankIRQFromSpr0Frame, SoundAPURegUpdateFrame,
     PrepareSpr0IRQFromSoundLineFrame, PrepareVblankIRQFrame
  DEF Handler
<1>9. CASE UNCHANGED vars
  BY <1>0, <1>9, StillFrame DEF vars
<1> QED BY <1>1, <1>2, <1>3, <1>4, <1>5, <1>6, <1>7, <1>8, <1>9 DEF Next

LEMMA FrameInvariant == Spec => []FrameInv
  BY TypeInit, InitFrame, FrameStep, PTL DEF Spec

\* OncePerFrame: no order of ticks, writes and handlers gives a second NMI in a
\* frame, nor a second sound update without InitSprite0, for any frame.
THEOREM OncePerFrameCorrect == Spec => []OncePerFrame
<1>1. FrameInv => OncePerFrame
  <2> SUFFICES ASSUME FrameInv PROVE OncePerFrame
    OBVIOUS
  <2>1. nmis <= 1
    BY DEF FrameInv, NmiDone
  <2>2. sounds > 1 => replan
    BY DEF FrameInv, SoundDone, TypeOK
  <2> QED BY <2>1, <2>2 DEF OncePerFrame
<1> QED BY <1>1, FrameInvariant, PTL

\* MissedOnlyAstray: at the last line of a frame whose timer was set right, the
\* NMI can neither be pending nor ahead, so it was called.
THEOREM MissedOnlyAstrayCorrect == Spec => MissedOnlyAstray
<1>1. FrameInv /\ [Next]_vars => [line' < line /\ nmis = 0 => astray]_vars
  <2> SUFFICES ASSUME FrameInv, Next, line' < line, nmis = 0, ~astray PROVE FALSE
    OBVIOUS
  <2>1. Tick
    BY DEF FrameInv, TypeOK, Next, Mask, Unmask, WriteSprite, WriteControl1,
       WriteControl2, ProgramVcounter, ReadStatusBoot, EnterIrq, Handler, NesNmi,
       PrepareSoundIRQFromVblankEnd, PrepareSpr0IRQ, PrepareSoundIRQFromSpr0,
       PrepareVblankIRQFromSpr0, SoundAPURegUpdate, PrepareSpr0IRQFromSoundLine,
       PrepareVblankIRQ, ProgramSpr0, Return
  <2>2. line = Lines - 1 /\ (irq \/ InHandler => late < MaxLate)
    BY <2>1, LineFacts DEF Tick, FrameInv, TypeOK, Busy, InHandler
  <2>3. irq \/ InHandler \/ (line < vtime /\ vtime <= VbStart)
    BY DEF FrameInv, OnItsWay
  <2> QED BY <2>2, <2>3, LineFacts DEF FrameInv, TypeOK, NoWrap
<1> QED BY <1>1, FrameInvariant, PTL DEF Spec, MissedOnlyAstray
-----------------------------------------------------------------------------
(* The chain at rest: the half of RestedNmiRecurs that needs no fairness.  *)

\* A step during which sprite 0 rests, and $2001 is written early in vblank only.
Rests ==
  /\ oamY' = oamY /\ oamY \in RestYs
  /\ pc' = "init" => vcount' \in RestLines

\* The line of sprite 0 the handlers use is its line, or one they never wait for.
Settled == spr0 = SprLine \/ spr0 = 0 \/ spr0 >= VbStart

\* Line l is at most n after the line that raised the interrupt.  InitSprite0
\* may have set the timer to 0 since the start of vblank raised it.
Since(l, n) ==
  \/ vtime <= l /\ l <= vtime + n
  \/ vtime = 0 /\ VbStart <= l /\ l <= VbStart + n

\* Before the NMI of the frame: each line of the chain comes after the handler
\* of the one before has ended.
OnTime ==
  /\ ~astray
  /\ ~irq /\ ~InHandler => line < vtime
  /\ irq => ~InHandler /\ Since(line, late)
  /\ InHandler => Since(vcount, MaxLate) /\ vcount <= line /\ line <= vcount + late
  /\ pc = "sound" => vtime = SoundLine

Calm ==
  /\ oamY \in RestYs /\ Settled
  /\ pc = "init" => vcount \in RestLines /\ vcount <= line /\ line <= vcount + late
  /\ vtime \in {0, SoundLine, VbStart} \/ (vtime = spr0 /\ spr0 < VbStart)
  /\ nmis = 0 => OnTime

\* What rest says of the lines.
LEMMA RestFacts ==
  ASSUME TypeOK, Calm
  PROVE  /\ 2 * MaxLate < SoundLine /\ SoundLine + (2 * MaxLate) < VbStart /\ VbStart + MaxLate < Byte
         /\ \/ SprLine = 0 \/ SprLine >= VbStart
            \/ 2 * MaxLate < SprLine /\ SprLine + (2 * MaxLate) < SoundLine
            \/ SoundLine + (2 * MaxLate) < SprLine /\ SprLine + (2 * MaxLate) < VbStart
         /\ SprLine \in 0..Byte - 1
         /\ \A l \in RestLines : l \in Nat /\ VbStart <= l /\ l + MaxLate < Lines
<1>1. \A l \in RestLines : l \in Nat /\ VbStart <= l /\ l + MaxLate < Lines
  BY LineFacts, RestAssumption
<1>2. SprLine \in 0..Byte - 1
  BY SprLineType
<1>3. \/ SprLine = 0 \/ SprLine >= VbStart
      \/ 2 * MaxLate < SprLine /\ SprLine + (2 * MaxLate) < SoundLine
      \/ SoundLine + (2 * MaxLate) < SprLine /\ SprLine + (2 * MaxLate) < VbStart
  BY RestAssumption DEF Calm, SprLine
<1> QED BY <1>1, <1>2, <1>3, RestAssumption

LEMMA TickCalm == FrameInv /\ Calm /\ TypeOK' /\ Tick /\ Rests => Calm'
<1> SUFFICES ASSUME FrameInv, Calm, TypeOK', Tick, Rests PROVE Calm'
  OBVIOUS
<1> USE LineFacts
<1>0. line' = (IF line + 1 = Lines THEN 0 ELSE line + 1)
  BY DEF Tick, FrameInv, TypeOK
<1>1. Settled' /\ oamY' \in RestYs
  BY DEF Tick, Rests, chain, Calm, Settled, SprLine
<1>2. pc' = "init" => vcount' \in RestLines /\ vcount' <= line' /\ line' <= vcount' + late'
  BY <1>0, RestFacts DEF Tick, Calm, FrameInv, TypeOK, Busy
<1>3. vtime' \in {0, SoundLine, VbStart} \/ (vtime' = spr0' /\ spr0' < VbStart)
  BY DEF Tick, chain, Calm
<1>4. nmis' = 0 => OnTime'
  <2>1. CASE nmis = 0
    <3>1. line' = line + 1 /\ line' # 0
      BY <1>0, <2>1, RestFacts DEF Calm, OnTime, Since, FrameInv, TypeOK, Tick, Busy, InHandler
    <3>2. astray' = astray
      BY <3>1, Zenon DEF Tick, history
    <3>3. irq' = (irq \/ line' = vtime)
      BY Zenon DEF Tick
    <3>a. ~irq' => ~irq /\ line' # vtime
      BY <3>3, Zenon
    <3>b. irq' => irq \/ line' = vtime
      BY <3>3, Zenon
    <3>4. ~astray'
      BY <2>1, <3>2, Zenon DEF Calm, OnTime
    <3>5. ~irq' /\ ~InHandler' => line' < vtime'
      BY <2>1, <3>1, <3>a DEF Calm, OnTime, InHandler, Tick, chain, FrameInv, TypeOK
    <3>6. irq' => ~InHandler' /\ (Since(line, late))'
      BY <2>1, <3>1, <3>b DEF Calm, OnTime, InHandler, Since, Tick, Busy, chain, FrameInv, TypeOK
    <3>7. InHandler' => (Since(vcount, MaxLate))' /\ vcount' <= line' /\ line' <= vcount' + late'
      BY <2>1, <3>1 DEF Calm, OnTime, InHandler, Since, Tick, Busy, chain, FrameInv, TypeOK
    <3>8. pc' = "sound" => vtime' = SoundLine
      BY <2>1 DEF Calm, OnTime, Tick, chain
    <3> QED BY <3>4, <3>5, <3>6, <3>7, <3>8 DEF OnTime, Since, InHandler
  <2>2. CASE nmis = 1
    <3> SUFFICES ASSUME nmis' = 0 PROVE OnTime'
      OBVIOUS
    <3>1. line' = 0
      BY <2>2 DEF Tick, history
    <3>2. astray' = (vtime \notin 0..VbStart)
      BY <3>1, Zenon DEF Tick
    <3>3. vtime = 0 /\ ~irq /\ ~InHandler
      BY <2>2 DEF FrameInv, NmiDone
    <3>a. vtime \in 0..VbStart
      BY <3>3
    <3>4. ~astray'
      BY <3>2, <3>a, Zenon
    <3>5. irq' = (irq \/ line' = vtime)
      BY Zenon DEF Tick
    <3>6. irq'
      BY <3>1, <3>3, <3>5, Zenon
    <3> QED BY <3>1, <3>3, <3>4, <3>6 DEF OnTime, InHandler, Since, Tick, chain, FrameInv, TypeOK
  <2> QED BY <2>1, <2>2 DEF FrameInv, NmiDone, TypeOK
<1> QED BY <1>1, <1>2, <1>3, <1>4 DEF Calm
LEMMA WriteControl2Calm ==
  FrameInv /\ Calm /\ TypeOK' /\ (\E s \in BOOLEAN : WriteControl2(s)) /\ Rests => Calm'
<1> SUFFICES ASSUME FrameInv, Calm, TypeOK', NEW s \in BOOLEAN, WriteControl2(s), Rests
             PROVE  Calm'
  OBVIOUS
<1> USE LineFacts, RestFacts DEF FrameInv, TypeOK
<1>1. line \in RestLines /\ line >= VbStart
  BY DEF WriteControl2, Rests
<1>2. oamY' \in RestYs /\ Settled'
  BY DEF WriteControl2, Rests, Settled, SprLine
<1>3. vtime' \in {0, SoundLine, VbStart} \/ (vtime' = spr0' /\ spr0' < VbStart)
  BY <1>1 DEF WriteControl2, Calm, Settled
<1>4. nmis' = 0 => OnTime'
  BY <1>1 DEF WriteControl2, Emulating, Calm, OnTime, Since, InHandler
<1> QED BY <1>1, <1>2, <1>3, <1>4 DEF WriteControl2, Calm

LEMMA ProgramVcounterCalm == FrameInv /\ Calm /\ TypeOK' /\ ProgramVcounter /\ Rests => Calm'
<1> SUFFICES ASSUME FrameInv, Calm, TypeOK', ProgramVcounter, Rests PROVE Calm'
  OBVIOUS
<1> USE LineFacts, RestFacts DEF FrameInv, TypeOK
<1>1. line >= VbStart /\ vcount >= VbStart
  BY DEF ProgramVcounter, Calm
<1>2. FirstLine(vcount, oamY + SprAdd) = 0
  BY <1>1 DEF FirstLine
<1>3. SetTimer(0)
  BY <1>2 DEF ProgramVcounter
<1>4. vtime' = 0 /\ irq' = irq
  <2>1. 0 # line
    BY <1>1
  <2> QED BY <1>3, <2>1, Zenon DEF SetTimer
<1>5. oamY' \in RestYs /\ Settled'
  BY DEF ProgramVcounter, Rests, Calm, Settled, SprLine
<1>6. nmis' = 0 => OnTime'
  <2> SUFFICES ASSUME nmis = 0 PROVE OnTime'
    BY DEF ProgramVcounter
  <2>1. ~astray /\ irq /\ ~InHandler
    BY <1>1 DEF Calm, OnTime, InHandler, ProgramVcounter
  <2>2. astray' = (astray \/ Astray(0))
    BY <1>3 DEF SetTimer
  <2>3. ~Astray(0)
    BY <1>1, <2>1 DEF Astray
  <2>4. ~astray'
    BY <2>1, <2>2, <2>3, Zenon
  <2> QED BY <1>1, <1>4, <2>1, <2>4 DEF Calm, OnTime, Since, InHandler, ProgramVcounter
<1> QED BY <1>4, <1>5, <1>6 DEF ProgramVcounter, Calm

LEMMA EnterIrqCalm == FrameInv /\ Calm /\ TypeOK' /\ EnterIrq /\ Rests => Calm'
<1> SUFFICES ASSUME FrameInv, Calm, TypeOK', EnterIrq, Rests PROVE Calm'
  OBVIOUS
<1> USE LineFacts, RestFacts DEF FrameInv, TypeOK
<1>1. oamY' \in RestYs /\ Settled'
  BY DEF EnterIrq, Rests, Calm, Settled, SprLine, chain
<1>2. nmis = 0 => line < Byte /\ vcount' = line
  BY DEF EnterIrq, Calm, OnTime, Since
<1>3. nmis' = 0 => OnTime'
  BY <1>2 DEF EnterIrq, Calm, OnTime, Since, InHandler, chain, history
<1> QED BY <1>1, <1>3 DEF EnterIrq, Calm, chain

LEMMA NesNmiCalm == FrameInv /\ FrameInv' /\ Settled /\ NesNmi /\ Rests => Calm'
<1> SUFFICES ASSUME FrameInv, FrameInv', Settled, NesNmi, Rests PROVE Calm'
  OBVIOUS
<1>1. nmis' # 0 /\ vtime' = 0
  BY DEF FrameInv, TypeOK, NesNmi, UpTo2
<1>2. oamY' \in RestYs /\ Settled'
  BY DEF NesNmi, Rests, Settled, SprLine
<1> QED BY <1>1, <1>2 DEF NesNmi, Calm

\* A handler that ends on time programs a line still to come.
LEMMA ReturnCalm ==
  ASSUME FrameInv, Calm, TypeOK', Rests, nmis = 0, InHandler, NEW l \in 0..VbStart, Return(l),
         line < l, spr0' = SprLine \/ spr0' = spr0,
         l \in {SoundLine, VbStart} \/ l = spr0'
  PROVE  Calm'
<1> USE LineFacts, RestFacts DEF FrameInv, TypeOK
<1>1. l \in 0..Byte - 1 /\ vtime' = l /\ line' = line /\ pc' = "game"
  BY DEF Return, SetTimer
<1>2. ~irq /\ ~astray /\ line < VbStart
  BY DEF Calm, OnTime, InHandler, Return
<1>3. ~irq' /\ ~astray'
  <2>1. ~Astray(l) /\ l # line
    BY <1>2 DEF Astray
  <2>2. astray' = (astray \/ Astray(l)) /\ irq' = irq
    BY <2>1, Zenon DEF Return, SetTimer
  <2> QED BY <1>2, <2>1, <2>2, Zenon
<1>4. oamY' \in RestYs /\ Settled'
  BY DEF Rests, Calm, Settled, SprLine
<1>5. vtime' \in {0, SoundLine, VbStart} \/ (vtime' = spr0' /\ spr0' < VbStart)
  BY <1>1
<1>6. OnTime'
  BY <1>1, <1>3 DEF OnTime, InHandler
<1> QED BY <1>1, <1>4, <1>5, <1>6 DEF Calm

LEMMA HandlerCalm == FrameInv /\ FrameInv' /\ Calm /\ Handler /\ Rests => Calm'
<1> SUFFICES ASSUME FrameInv, FrameInv', Calm, Handler, Rests PROVE Calm'
  OBVIOUS
<1>0. CASE NesNmi
  BY <1>0, NesNmiCalm DEF Calm
<1> SUFFICES ASSUME ~NesNmi PROVE Calm'
  BY <1>0
<1> USE LineFacts, RestFacts DEF FrameInv, TypeOK
<1>1. nmis = 0 /\ InHandler /\ OnTime /\ TypeOK'
  BY DEF NmiDone, Calm, Handler, InHandler, PrepareSoundIRQFromVblankEnd, PrepareSpr0IRQ,
     PrepareSoundIRQFromSpr0, PrepareVblankIRQFromSpr0, SoundAPURegUpdate, VCountHandler,
     PrepareSpr0IRQFromSoundLine, PrepareVblankIRQ
<1>2. CASE PrepareSoundIRQFromVblankEnd
  <2>1. line < SoundLine
    BY <1>1, <1>2 DEF PrepareSoundIRQFromVblankEnd, VCountHandler, OnTime, Since, Calm, Settled
  <2> QED BY <1>1, <1>2, <2>1, ReturnCalm DEF PrepareSoundIRQFromVblankEnd
<1>3. CASE PrepareSpr0IRQ
  <2>1. spr0 = SprLine /\ line < SprLine /\ SprLine < VbStart
    BY <1>1, <1>3 DEF PrepareSpr0IRQ, VCountHandler, OnTime, Since, Calm, Settled
  <2>2. spr0' = SprLine /\ Return(SprLine)
    BY <1>3 DEF PrepareSpr0IRQ, ProgramSpr0
  <2> QED BY <1>1, <2>1, <2>2, ReturnCalm
<1>4. CASE PrepareSoundIRQFromSpr0
  <2>1. line < SoundLine
    BY <1>1, <1>4 DEF PrepareSoundIRQFromSpr0, VCountHandler, OnTime, Since, Calm, Settled
  <2> QED BY <1>1, <1>4, <2>1, ReturnCalm DEF PrepareSoundIRQFromSpr0
<1>5. CASE PrepareVblankIRQFromSpr0
  <2>1. line < VbStart
    BY <1>1, <1>5 DEF PrepareVblankIRQFromSpr0, VCountHandler, OnTime, Since, Calm, Settled
  <2> QED BY <1>1, <1>5, <2>1, ReturnCalm DEF PrepareVblankIRQFromSpr0
<1>6. CASE SoundAPURegUpdate
  <2>1. vtime = SoundLine
    BY <1>1, <1>6 DEF SoundAPURegUpdate, VCountHandler, OnTime, Since, Calm, Settled
  <2> QED BY <1>1, <1>6, <2>1
      DEF SoundAPURegUpdate, VCountHandler, OnTime, Since, Calm, Settled, SprLine, InHandler, chain, game
<1>7. CASE PrepareSpr0IRQFromSoundLine
  <2>1. spr0 = SprLine /\ line < SprLine /\ SprLine < VbStart
    BY <1>1, <1>7 DEF PrepareSpr0IRQFromSoundLine, OnTime, Since, Calm, Settled, InHandler
  <2>2. spr0' = SprLine /\ Return(SprLine)
    BY <1>7 DEF PrepareSpr0IRQFromSoundLine, ProgramSpr0
  <2> QED BY <1>1, <2>1, <2>2, ReturnCalm
<1>8. CASE PrepareVblankIRQ
  <2>1. line < VbStart
    BY <1>1, <1>8 DEF PrepareVblankIRQ, OnTime, Since, Calm, Settled, InHandler
  <2> QED BY <1>1, <1>8, <2>1, ReturnCalm DEF PrepareVblankIRQ
<1> QED BY <1>2, <1>3, <1>4, <1>5, <1>6, <1>7, <1>8 DEF Handler

LEMMA CalmStep == FrameInv /\ FrameInv' /\ Calm /\ Next /\ Rests => Calm'
<1> SUFFICES ASSUME FrameInv, FrameInv', Calm, Next, Rests PROVE Calm'
  OBVIOUS
<1>1. CASE \/ Mask \/ Unmask \/ ReadStatusBoot
           \/ (\E y \in SprYs : WriteSprite(y)) \/ (\E n \in BOOLEAN : WriteControl1(n))
  BY <1>1
  DEF Mask, Unmask, WriteSprite, WriteControl1, ReadStatusBoot, Emulating, chain, game, history,
      Rests, Calm, Settled, SprLine, OnTime, Since, InHandler
<1>2. CASE Tick
  BY <1>2, TickCalm DEF FrameInv
<1>3. CASE \E s \in BOOLEAN : WriteControl2(s)
  BY <1>3, WriteControl2Calm DEF FrameInv
<1>4. CASE ProgramVcounter
  BY <1>4, ProgramVcounterCalm DEF FrameInv
<1>5. CASE EnterIrq
  BY <1>5, EnterIrqCalm DEF FrameInv
<1>6. CASE Handler
  BY <1>6, HandlerCalm
<1> QED BY <1>1, <1>2, <1>3, <1>4, <1>5, <1>6 DEF Next
\* At rest, an NMI that finds the line of sprite 0 settled leaves the chain
\* calm, however astray it was, and the line of sprite 0 stays settled.
NmiCalms == [][Rests /\ Settled => Settled' /\ (NesNmi => Calm')]_vars

\* From then on, as long as the rest lasts, no frame ends without its NMI.
CalmHasNmi == [](Calm /\ [][Rests]_vars => [][line' < line => nmis = 1]_vars)

\* Nothing but sprite 0 and $2001 can unsettle the line.
LEMMA SettledStep == Settled /\ [Next]_vars => [Rests => Settled']_vars
<1> SUFFICES ASSUME Settled, Next, Rests PROVE Settled'
  OBVIOUS
<1>1. SprLine' = SprLine
  BY DEF Rests, SprLine
<1>2. spr0' = spr0 \/ spr0' = SprLine
  BY DEF Next, Tick, Mask, Unmask, WriteSprite, WriteControl1, WriteControl2, ProgramVcounter,
     ReadStatusBoot, EnterIrq, Handler, NesNmi, PrepareSoundIRQFromVblankEnd, PrepareSpr0IRQ,
     PrepareSoundIRQFromSpr0, PrepareVblankIRQFromSpr0, SoundAPURegUpdate, ProgramSpr0,
     PrepareSpr0IRQFromSoundLine, PrepareVblankIRQ, chain
<1> QED BY <1>1, <1>2 DEF Settled

\* NmiCalms: one NMI is enough to put the chain right, for any late handlers.
THEOREM NmiCalmsCorrect == Spec => NmiCalms
<1>1. FrameInv /\ FrameInv' /\ [Next]_vars => [Rests /\ Settled => Settled' /\ (NesNmi => Calm')]_vars
  BY SettledStep, NesNmiCalm
<1> QED BY <1>1, FrameInvariant, PTL DEF Spec, NmiCalms

\* CalmHasNmi: what fairness adds for RestedNmiRecurs is a first NMI at rest, and
\* the lines that go by.
THEOREM CalmHasNmiCorrect == Spec => CalmHasNmi
<1>1. FrameInv /\ FrameInv' /\ Calm /\ [Next]_vars /\ [Rests]_vars => Calm'
  <2>1. ASSUME Calm, UNCHANGED vars
        PROVE  Calm'
    BY <2>1 DEF vars, Calm, Settled, SprLine, OnTime, Since, InHandler
  <2> QED BY <2>1, CalmStep
<1>2. FrameInv /\ Calm /\ [line' < line /\ nmis = 0 => astray]_vars
        => [line' < line => nmis = 1]_vars
  BY DEF FrameInv, TypeOK, NmiDone, Calm, OnTime
<1>3. Spec => [][line' < line /\ nmis = 0 => astray]_vars
  BY MissedOnlyAstrayCorrect DEF MissedOnlyAstray
<1> QED BY <1>1, <1>2, <1>3, FrameInvariant, PTL DEF Spec, CalmHasNmi
=============================================================================
