------------------------------- MODULE SpcPort -------------------------------
(***************************************************************************)
(* The two processors of the sound.  The main one uploads the program of   *)
(* the sound processor at reset (setup_spc) and sends it the registers of  *)
(* the APU once a frame, from an interrupt (update_dsp).  They share two   *)
(* ports; each has a latch in either direction, and each side waits for    *)
(* the other one in a loop with no way out.                                *)
(*                                                                         *)
(* The program of the sound processor is Memblers_2a03.bin, read from its  *)
(* binary; before that its boot rom runs, which is not part of upernes.    *)
(* A read of a port that ends a wait and the write that follows are one    *)
(* step when the port read cannot change before that write.                *)
(***************************************************************************)
EXTENDS Naturals

CONSTANTS
  Byte,     \* values of a byte: 256
  Size,     \* bytes of the program, NesAPUEmulatorBinSize: $2C00
  Program,  \* the bytes
  NReg,     \* registers sent: $17
  HELLO0, HELLO1, \* $AA and $BB: the boot rom is there
  KICK,     \* $CC
  READY,    \* $7D
  GO,       \* $D7
  Tables    \* what SNDTMP4000 and the following bytes may hold

Bytes == 0..Byte - 1
Regs  == 0..NReg - 1

\* What is left of an index in a byte.
Low(a) == a % Byte

ASSUME SpcAssumption ==
  /\ Byte \in Nat /\ Byte >= 4
  /\ Size \in Nat \ {0}
  /\ Program \in [0..Size - 1 -> Bytes]
  /\ NReg \in Nat \ {0}
  /\ {HELLO0, HELLO1, KICK} \subseteq Bytes \ {0} /\ KICK # HELLO0
  /\ {READY, GO} \subseteq NReg..Byte - 1 /\ READY # GO
  /\ Low(Size - 1) # READY /\ Low(Size + 2) # READY
  /\ Tables \subseteq [Regs -> Bytes]

VARIABLES
  in0, in1,   \* $2140 and $2141 as the sound processor reads them
  out0, out1, \* $2140 and $2141 as the main processor reads them
  cpu,        \* where the main processor is
  y,          \* its index in setup_spc
  x,          \* its index in update_dsp
  APUInit,
  snd,        \* SNDTMP4000 and the following bytes, as update_dsp sends them
  spc,        \* where the sound processor is
  k,          \* its index
  ram,        \* what it has of its program
  apu,        \* its copy of the registers, at $40
  last        \* history: the last byte of the update before

cpuVars == <<cpu, y, x, APUInit, snd, last>>
spcVars == <<spc, k, ram, apu>>
vars    == <<in0, in1, out0, out1, cpu, y, x, APUInit, snd, spc, k, ram, apu, last>>

CpuStates == {"hello", "block", "kick", "kicked", "send", "index", "sent", "stop",
              "end", "game", "ready", "go", "xfer", "reply"}
SpcStates == {"reset", "boot", "first", "data", "start", "main", "poll", "xfer"}

TypeOK ==
  /\ in0 \in Bytes /\ in1 \in Bytes /\ out0 \in Bytes /\ out1 \in Bytes
  /\ cpu \in CpuStates /\ spc \in SpcStates
  /\ y \in 0..Size + 2 /\ x \in Regs /\ APUInit \in BOOLEAN
  /\ snd \in [Regs -> Bytes] /\ last \in Bytes
  /\ k \in 0..Size \cup 0..NReg /\ ram \in [0..Size - 1 -> Bytes]
  /\ apu \in [Regs -> Bytes]

Init ==
  /\ in0 = 0 /\ in1 = 0 /\ out0 = 0 /\ out1 = 0
  /\ cpu = "hello" /\ y = 0 /\ x = 0 /\ APUInit = FALSE
  /\ snd = [r \in Regs |-> 0] /\ last = 0
  /\ spc = "reset" /\ k = 0
  /\ ram = [a \in 0..Size - 1 |-> 0] /\ apu = [r \in Regs |-> 0]

-----------------------------------------------------------------------------
(* The main processor, at reset: setup_spc.                                *)

Cpu(from, to) == cpu = from /\ cpu' = to

Reads   == UNCHANGED <<in0, in1>>
Writes0(v) == in0' = v /\ UNCHANGED in1
Writes1(v) == in1' = v /\ UNCHANGED in0
FromSpc == <<out0, out1, spcVars>>

WaitSPCEq ==
  /\ Cpu("hello", "block")
  /\ out0 = HELLO0 /\ out1 = HELLO1
  /\ Reads
  /\ UNCHANGED <<FromSpc, y, x, APUInit, snd, last>>

\* Not 0: a block of data follows.
SendBlock ==
  /\ Cpu("block", "kick")
  /\ Writes1(1)
  /\ UNCHANGED <<FromSpc, y, x, APUInit, snd, last>>

SendKick ==
  /\ Cpu("kick", "kicked")
  /\ Writes0(KICK)
  /\ UNCHANGED <<FromSpc, y, x, APUInit, snd, last>>

WaitSPC700Start ==
  /\ Cpu("kicked", "send")
  /\ out0 = KICK
  /\ Reads
  /\ UNCHANGED <<FromSpc, y, x, APUInit, snd, last>>

SendData ==
  /\ Cpu("send", "index")
  /\ Writes1(Program[y])
  /\ UNCHANGED <<FromSpc, y, x, APUInit, snd, last>>

SendIndex ==
  /\ Cpu("index", "sent")
  /\ Writes0(Low(y))
  /\ UNCHANGED <<FromSpc, y, x, APUInit, snd, last>>

\* Mutant of WaitSPCReply: no wait.
NoSPCReply ==
  /\ cpu = "sent"
  /\ y' = y + 1
  /\ cpu' = IF y' = Size THEN "stop" ELSE "send"
  /\ Reads
  /\ UNCHANGED <<FromSpc, x, APUInit, snd, last>>

WaitSPCReply ==
  /\ cpu = "sent"
  /\ out0 = Low(y)
  /\ y' = y + 1
  /\ cpu' = IF y' = Size THEN "stop" ELSE "send"
  /\ Reads
  /\ UNCHANGED <<FromSpc, x, APUInit, snd, last>>

\* 0: no other block, and an index ahead of the one that is expected.
SendStop ==
  /\ Cpu("stop", "end")
  /\ Writes1(0)
  /\ y' = y + 2
  /\ UNCHANGED <<FromSpc, x, APUInit, snd, last>>

Spc700FwEnd ==
  /\ Cpu("end", "game")
  /\ Writes0(Low(y))
  /\ APUInit' = TRUE
  /\ UNCHANGED <<FromSpc, y, x, snd, last>>

SetupSpc ==
  \/ WaitSPCEq \/ SendBlock \/ SendKick \/ WaitSPC700Start
  \/ SendData \/ SendIndex \/ WaitSPCReply \/ SendStop \/ Spc700FwEnd

-----------------------------------------------------------------------------
(* The main processor, in each frame: update_dsp.                          *)

\* Called from the handlers; the registers are those of this frame.
CallUpdateDsp(table) ==
  /\ Cpu("game", "ready")
  /\ APUInit
  /\ snd' = table
  /\ last' = in1
  /\ Reads
  /\ UNCHANGED <<FromSpc, y, x, APUInit>>

WaitSPC700Ready ==
  /\ Cpu("ready", "go")
  /\ out0 = READY
  /\ Writes0(GO)
  /\ UNCHANGED <<FromSpc, y, x, APUInit, snd, last>>

\* The index of the first register is written before its value.
WSPC700Reply ==
  /\ Cpu("go", "xfer")
  /\ out0 = GO
  /\ x' = 0
  /\ Writes0(0)
  /\ UNCHANGED <<FromSpc, y, APUInit, snd, last>>

Xfer ==
  /\ Cpu("xfer", "reply")
  /\ Writes1(snd[x])
  /\ UNCHANGED <<FromSpc, y, x, APUInit, snd, last>>

\* Mutant of WSPC700Reply2: there is no last register.
WSPC700ReplyForEver ==
  /\ Cpu("reply", "xfer")
  /\ out0 = x
  /\ x' = x + 1
  /\ Writes0(x')
  /\ UNCHANGED <<FromSpc, y, APUInit, snd, last>>

\* So is that of the next ones.
WSPC700Reply2 ==
  /\ Cpu("reply", "xfer")
  /\ out0 = x
  /\ x + 1 < NReg
  /\ x' = x + 1
  /\ Writes0(x')
  /\ UNCHANGED <<FromSpc, y, APUInit, snd, last>>

\* Mutant of NesRegLoadEnds: it waits for the index past the last one.
NesRegLoadEndsLate ==
  /\ Cpu("reply", "game")
  /\ x + 1 = NReg
  /\ out0 = NReg
  /\ Reads
  /\ UNCHANGED <<FromSpc, y, x, APUInit, snd, last>>

\* Mutant of NesRegLoadEnds: the last reply is not waited for.
NesRegLoadEndsEarly ==
  /\ Cpu("reply", "game")
  /\ x + 1 = NReg
  /\ Reads
  /\ UNCHANGED <<FromSpc, y, x, APUInit, snd, last>>

NesRegLoadEnds ==
  /\ Cpu("reply", "game")
  /\ x + 1 = NReg
  /\ out0 = x
  /\ Reads
  /\ UNCHANGED <<FromSpc, y, x, APUInit, snd, last>>

UpdateDsp == WaitSPC700Ready \/ WSPC700Reply \/ Xfer \/ WSPC700Reply2 \/ NesRegLoadEnds

-----------------------------------------------------------------------------
(* The sound processor: its boot rom.                                      *)

Spc(from, to) == spc = from /\ spc' = to

BootHello ==
  /\ Spc("reset", "boot")
  /\ out0' = HELLO0 /\ out1' = HELLO1
  /\ UNCHANGED <<in0, in1, cpuVars, k, ram, apu>>

\* a comes 1 to Byte / 2 after b: the negative flag of b - a.
Ahead(a, b) == (IF a >= b THEN a - b ELSE a + Byte - b) \in 1..(Byte \div 2)

\* The main processor gives an address: after its hello, or with an index ahead.
BootCalled ==
  \/ spc = "boot" /\ in0 = KICK
  \/ spc = "data" /\ Ahead(in0, Low(k))

BootBlock ==
  /\ BootCalled /\ in1 # 0
  /\ spc' = "first"
  /\ out0' = in0
  /\ UNCHANGED <<in0, in1, out1, cpuVars, k, ram, apu>>

BootRun ==
  /\ BootCalled /\ in1 = 0
  /\ spc' = "start"
  /\ out0' = in0
  /\ UNCHANGED <<in0, in1, out1, cpuVars, k, ram, apu>>

BootFirst ==
  /\ Spc("first", "data")
  /\ in0 = 0
  /\ k' = 0
  /\ UNCHANGED <<in0, in1, out0, out1, cpuVars, ram, apu>>

BootTake ==
  /\ spc = "data"
  /\ in0 = Low(k)
  /\ ram' = [ram EXCEPT ![k] = in1]
  /\ out0' = in0
  /\ k' = k + 1
  /\ UNCHANGED <<in0, in1, out1, cpuVars, spc, apu>>

-----------------------------------------------------------------------------
(* The sound processor: Memblers_2a03.bin.                                 *)

\* $0400: the latches of what the main processor wrote are cleared.
Start ==
  /\ Spc("start", "main")
  /\ in0' = 0 /\ in1' = 0
  /\ UNCHANGED <<out0, out1, cpuVars, k, ram, apu>>

\* The main processor is about to read the reply to a register.
Replied == cpu \in {"xfer", "reply"} /\ out0 = x

\* $0471.  The sound is computed before it, for much longer than the main
\* processor takes to read a port: the reply to the last register is seen.
SpcReady ==
  /\ Spc("main", "poll")
  /\ ~Replied
  /\ out0' = READY
  /\ UNCHANGED <<in0, in1, out1, cpuVars, k, ram, apu>>

SpcGo ==
  /\ Spc("poll", "xfer")
  /\ in0 = GO
  /\ out0' = GO
  /\ k' = 0
  /\ UNCHANGED <<in0, in1, out1, cpuVars, ram, apu>>

\* $0487: the value is read as soon as its index is there.
SpcTake ==
  /\ spc = "xfer"
  /\ in0 = k
  /\ apu' = [apu EXCEPT ![k] = in1]
  /\ out0' = k
  /\ k' = k + 1
  /\ spc' = IF k' = NReg THEN "main" ELSE "xfer"
  /\ UNCHANGED <<in0, in1, out1, cpuVars, ram>>

SoundProcessor ==
  \/ BootHello \/ BootBlock \/ BootRun \/ BootFirst \/ BootTake
  \/ Start \/ SpcReady \/ SpcGo \/ SpcTake

-----------------------------------------------------------------------------

\* A port is read and does not hold what the loop waits for.
Spin ==
  /\ \/ cpu \in {"hello", "kicked", "sent", "ready", "go", "reply"}
     \/ spc \in {"boot", "first", "data", "poll", "xfer"}
  /\ UNCHANGED vars

Next ==
  \/ SetupSpc
  \/ \E table \in Tables : CallUpdateDsp(table)
  \/ UpdateDsp
  \/ SoundProcessor
  \/ Spin

\* Both processors run; when the game is interrupted next is its own affair.
Fairness == WF_vars(SetupSpc \/ UpdateDsp) /\ WF_vars(SoundProcessor)

Spec == Init /\ [][Next]_vars /\ Fairness

-----------------------------------------------------------------------------
(* Correctness.                                                            *)

\* The program runs once it is there, every byte of it at its place: the index
\* counts modulo a byte, and nothing but the order of the writes to the two
\* ports tells a byte from the one before it.
UploadExact == spc \in {"start", "main", "poll", "xfer"} => ram = Program

\* The byte sent before that of register r.
Before(r) == IF r = 0 THEN last ELSE snd[r - 1]

\* After an update each register of the sound processor has the value of this
\* frame or that of the register sent before it, never one that is further
\* away nor that of an older frame: update_dsp writes the index of a register
\* before its value, and the sound processor may be faster.
HeardWithinOne ==
  cpu = "game" => \A r \in Regs : apu[r] \in {snd[r], Before(r)}

\* No handler waits for the sound processor for ever, though none of the loops
\* has a way out: the game always runs again.
GameGoesOn == []<>(cpu = "game")
=============================================================================
