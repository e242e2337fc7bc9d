------------------------------ MODULE PatchPrg ------------------------------
(***************************************************************************)
(* The patched PRG rom: every access to an IO port and every indirect jump *)
(* of the listing becomes a jsr (a jmp) to a stub in ram, and the stub     *)
(* calls the emulation routine in another bank.  Recompilation (re), the   *)
(* list of the routines, the layout of the stubs in the ram image and the  *)
(* patching of the instructions (patchPrgRom).                             *)
(***************************************************************************)
EXTENDS Naturals, Sequences, FiniteSets, SequencesExt

CONSTANTS
  Programs,   \* the listings considered
  Byte        \* values of a byte: 256

ASSUME ByteAssumption == Byte \in Nat \ {0}

\* IO ports, with their NES addresses.
PPUCTRL == 8192     \* $2000
PPUSTATUS == 8194   \* $2002
PPUADDR == 8198     \* $2006
SND_FIRST == 16384  \* $4000
SND_LAST == 16403   \* $4013
SNDSTATUS == 16405  \* $4015
JOY1 == 16406       \* $4016
JOY2 == 16407       \* $4017

Sound(port) == port \in SND_FIRST..SND_LAST \/ port = SNDSTATUS
Joypad(port) == port \in {JOY1, JOY2}

Mnemonics == {"lda", "ldx", "ldy", "bit", "sta", "stx", "sty", "cmp", "jmp"}
Modes     == {"abs", "absx", "absy", "ind"}

\* An instruction of the listing that isreplaced reports, in address order;
\* mn and mode stand for the opcode. Only jmp is indirect, and only when it
\* is indirect is it reported.
Instr == {i \in [mn : Mnemonics, mode : Modes, operand : Nat] : i.mode = "ind" <=> i.mn = "jmp"}

\* code:     the replaced instructions
\* jumps:    the operands of m_jmplist
\* disabled: DisableIndJumpPatching
ProgramType == [code : Seq(Instr), jumps : Seq(Nat), disabled : BOOLEAN]

ASSUME ProgramsAssumption == Programs \subseteq ProgramType

VARIABLES
  prog,      \* the listing and the configuration file, fixed
  phase,     \* recompile, layout, patch, done, aborted or notfound
  routines,  \* PatchRoutines, sorted
  stubs,     \* ramOffset and ramSize of the routines laid out so far
  ramLen,    \* size of RamBuffer
  copied,    \* bytes of it init.asm copies to ram
  calls      \* calls[n]: what becomes of the n-th instruction

vars == <<prog, phase, routines, stubs, ramLen, copied, calls>>

Init ==
  /\ prog \in Programs /\ phase = "recompile" /\ routines = <<>> /\ stubs = <<>>
  /\ ramLen = 0 /\ copied = 0 /\ calls = <<>>

TypeOK ==
  /\ phase \in {"recompile", "layout", "patch", "done", "aborted", "notfound"}
  /\ \A n \in DOMAIN routines : routines[n] \in Instr
  /\ \A n \in DOMAIN stubs : stubs[n] \in [offset : Nat, size : Nat]
  /\ Len(stubs) <= Len(routines)
  /\ ramLen \in Nat /\ copied \in Nat
  /\ \A n \in DOMAIN calls : calls[n] \in [kind : {"kept", "stub"}, offset : Nat]
  /\ Len(calls) <= Len(prog.code)

-----------------------------------------------------------------------------
(* The routines.                                                           *)

IsJump(i) == i.mode = "ind"
Accesses  == {i \in ToSet(prog.code) : ~IsJump(i)}

\* The items of s that are in S; and the items of s, without those already
\* met. Recursive functions, for the proofs.
Only(s, S) ==
  LET only[n \in 0..Len(s)] == IF n = 0 THEN <<>>
                               ELSE IF s[n] \in S THEN Append(only[n - 1], s[n]) ELSE only[n - 1]
  IN only[Len(s)]
Distinct(s) ==
  LET distinct[n \in 0..Len(s)] ==
        IF n = 0 THEN <<>>
        ELSE IF s[n] \in ToSet(distinct[n - 1]) THEN distinct[n - 1] ELSE Append(distinct[n - 1], s[n])
  IN distinct[Len(s)]

\* The accesses of a port with a mnemonic, as list_IO_accessed pushes them:
\* last one first.
AccessesOf(mn, port) ==
  Only(Reverse(prog.code), {i \in Accesses : i.mn = mn /\ i.operand = port})

FirstOnly(s) == IF s = <<>> THEN s ELSE <<Head(s)>>

\* Mutant of FindInstr: one routine to a mnemonic.
FindFirst(mn, port) == FirstOnly(Distinct(AccessesOf(mn, port)))

\* findinstr, and the only instruction writeiop_routines uses for stx and sty.
FindInstr(mn, port) ==
  LET found == Distinct(AccessesOf(mn, port)) IN
  IF mn \in {"stx", "sty"} THEN FirstOnly(found) ELSE found

EmulatedMnemonics == <<"lda", "ldx", "ldy", "bit", "sta", "stx", "sty">>

\* writeiop_routines: port after port, mnemonic after mnemonic.
Ascending(S) ==
  CHOOSE s \in [1..Cardinality(S) -> S] : \A a, b \in DOMAIN s : a < b => s[a] < s[b]
Ports == Ascending({i.operand : i \in Accesses})
OfPort(port) ==
  FlattenSeq([m \in DOMAIN EmulatedMnemonics |-> FindInstr(EmulatedMnemonics[m], port)])
IoRoutines == FlattenSeq([n \in DOMAIN Ports |-> OfPort(Ports[n])])

\* Addressing modes writeiop_routines asserts it never meets.
NotProgrammed(i) ==
  \/ i.mn = "lda" /\ i.mode = "absy"
  \/ i.mn \in {"ldx", "ldy", "bit", "stx", "sty"} /\ i.mode # "abs"

\* writeIndJumproutines: one per operand of the configuration file.
JumpRoutines ==
  IF prog.disabled THEN <<>>
  ELSE [n \in 1..Len(prog.jumps) |->
          [mn |-> "jmp", mode |-> "ind", operand |-> prog.jumps[n]]]

IsRead(i)  == i.mn \in {"lda", "ldx", "ldy", "bit"}
IsWrite(i) == ~IsRead(i) /\ ~IsJump(i)

\* sortRoutines: writes, reads, indirect jumps.
Sorted(s) ==
  LET Those(Test(_)) == Only(s, {i \in ToSet(s) : Test(i)})
  IN Those(IsWrite) \o Those(IsRead) \o Those(IsJump)

\* isreplaced throws: in the range of the ports, but no port.
IsPort(a) == \/ a \in 8192..8199
             \/ a \in 16384..16407 \ {16393, 16397}
UnknownPort(i) == i.operand \in 8192..20479 /\ ~IsPort(i.operand)

Refused(i) == UnknownPort(i) \/ NotProgrammed(i)

Unfinished == UNCHANGED <<prog, stubs, ramLen, copied, calls>>

\* re and the first half of patchPrgRom.
Recompile ==
  /\ phase = "recompile"
  /\ \A i \in Accesses : ~Refused(i)
  /\ routines' = Sorted(IoRoutines \o JumpRoutines)
  /\ phase' = "layout"
  /\ Unfinished

\* An unknown port, or an assertion on an addressing mode.
RecompileAborts ==
  /\ phase = "recompile"
  /\ \E i \in Accesses : Refused(i)
  /\ phase' = "aborted"
  /\ UNCHANGED routines
  /\ Unfinished

-----------------------------------------------------------------------------
(* The ram image (writeRamRoutineBinary).                                  *)

\* Bytes a stub occupies in RamBuffer.
StubLen(r) ==
  IF Sound(r.operand) THEN 4
  ELSE IF Joypad(r.operand) THEN IF r.mn = "lda" THEN 10 ELSE 12
  ELSE IF IsJump(r) THEN 6
  ELSE IF r.operand = PPUSTATUS /\ r.mn = "lda" /\ r.mode = "abs" THEN 23
  ELSE IF r.mn = "lda" THEN 11
  ELSE IF IsRead(r) THEN 12
  ELSE 9

\* The size recorded for it: 0 for the unused stubs of the sound registers.
StubSize(r) == IF Sound(r.operand) THEN 0 ELSE StubLen(r)

\* The opcodes a joypad stub can hold: lda, lda absx and sta.
JoypadOpcode(r) == r.mn = "lda" \/ (r.mn = "sta" /\ r.mode = "abs")

QuickLen == 37   \* the quick routine for sta PPUADDR, after the stubs

Next1 == routines[Len(stubs) + 1]

LayStub ==
  /\ phase = "layout"
  /\ Len(stubs) < Len(routines)
  /\ Joypad(Next1.operand) => JoypadOpcode(Next1)
  /\ stubs' = Append(stubs, [offset |-> ramLen, size |-> StubSize(Next1)])
  /\ ramLen' = ramLen + StubLen(Next1)
  /\ UNCHANGED <<prog, phase, routines, copied, calls>>

LayStubAborts ==
  /\ phase = "layout"
  /\ Len(stubs) < Len(routines)
  /\ Joypad(Next1.operand) /\ ~JoypadOpcode(Next1)
  /\ phase' = "aborted"
  /\ UNCHANGED <<prog, routines, stubs, ramLen, copied, calls>>

\* Mutant of EndOfStubs: the wrong sign.
BeforeLast == Last(stubs).offset - Last(stubs).size

\* The end of the last stub, as writeRoutineVector and patchBRK compute it.
EndOfStubs == Last(stubs).offset + Last(stubs).size

\* Mutant of WordsOf: an odd byte is forgotten.
WordsDown(size) == size \div 2

\* RAMBINWSIZE
WordsOf(size) == (size \div 2) + (size % 2)

\* copyRamCode counts words and compares the low byte of the count.
BytesCopied(size) ==
  2 * (IF WordsOf(size) % Byte = 0 THEN Byte ELSE WordsOf(size) % Byte)

\* The quick routine is appended; writeRoutineVector defines RAMBINSIZE, but
\* only when there is a routine.
FinishRam ==
  /\ phase = "layout"
  /\ Len(stubs) = Len(routines)
  /\ ramLen' = ramLen + QuickLen
  /\ copied' = IF Len(routines) = 0 THEN 0 ELSE BytesCopied(EndOfStubs + QuickLen)
  /\ phase' = "patch"
  /\ UNCHANGED <<prog, routines, stubs, calls>>

-----------------------------------------------------------------------------
(* The PRG (the second half of patchPrgRom, patchBRK).                     *)

ThisInstr == prog.code[Len(calls) + 1]

\* Left as it is: the sound registers are ram written as such, and indirect
\* jumps when their patching is disabled.
Kept(i) == Sound(i.operand) \/ (IsJump(i) /\ prog.disabled)

\* Mutant of RoutinesFor: by mnemonic and operand.
RoutinesLike(i) ==
  {n \in 1..Len(routines) : routines[n].mn = i.mn /\ routines[n].operand = i.operand}

RoutinesFor(i) == {n \in 1..Len(routines) : routines[n] = i}

\* The ram offset patched into the instruction; sta PPUADDR gets the quick
\* routine "at the end of the code".
CallOf(i, n) ==
  IF i.mn = "sta" /\ i.mode = "abs" /\ i.operand = PPUADDR
  THEN EndOfStubs ELSE stubs[n].offset

Patching == phase = "patch" /\ Len(calls) < Len(prog.code)

Keep ==
  /\ Patching
  /\ Kept(ThisInstr)
  /\ calls' = Append(calls, [kind |-> "kept", offset |-> 0])
  /\ UNCHANGED <<prog, phase, routines, stubs, ramLen, copied>>

Patch ==
  /\ Patching
  /\ ~Kept(ThisInstr)
  /\ \E n \in RoutinesFor(ThisInstr) :
       /\ \A m \in RoutinesFor(ThisInstr) : m <= n
       /\ calls' = Append(calls, [kind |-> "stub", offset |-> CallOf(ThisInstr, n)])
  /\ UNCHANGED <<prog, phase, routines, stubs, ramLen, copied>>

\* "Patch routine not found!"
RoutineNotFound ==
  /\ Patching
  /\ ~Kept(ThisInstr)
  /\ RoutinesFor(ThisInstr) = {}
  /\ phase' = "notfound"
  /\ UNCHANGED <<prog, routines, stubs, ramLen, copied, calls>>

Done ==
  /\ phase = "patch"
  /\ Len(calls) = Len(prog.code)
  /\ phase' = "done"
  /\ UNCHANGED <<prog, routines, stubs, ramLen, copied, calls>>

Next ==
  \/ Recompile
  \/ RecompileAborts
  \/ LayStub
  \/ LayStubAborts
  \/ FinishRam
  \/ Keep
  \/ Patch
  \/ RoutineNotFound
  \/ Done

Spec == Init /\ [][Next]_vars

-----------------------------------------------------------------------------
(* Correctness.                                                            *)

QuickCall(i) == i.mn = "sta" /\ i.mode = "abs" /\ i.operand = PPUADDR

\* The stub of m is in ram, all of it.
WholeInRam(m) == stubs[m].offset + StubLen(routines[m]) <= copied

\* A patched instruction calls the stub written for its own opcode and
\* operand, and init.asm copies the whole of that stub to ram, although the
\* copied size is computed from the last stub only. sta PPUADDR calls the
\* quick routine that ends the image instead, all of it copied too, unless the
\* last stub is the unused one of a sound register. The image has to be
\* smaller than the words a byte can count.
CallsItsStub ==
  ramLen < 2 * Byte =>
    \A n \in DOMAIN calls : calls[n].kind = "stub" =>
      IF QuickCall(prog.code[n])
      THEN \/ Sound(Last(routines).operand)
           \/ calls[n].offset = ramLen - QuickLen /\ ramLen <= copied
      ELSE \E m \in DOMAIN stubs : /\ routines[m] = prog.code[n]
                                   /\ calls[n].offset = stubs[m].offset
                                   /\ WholeInRam(m)

\* The tables built from the listing cover what is patched from the listing:
\* a routine is missing only for a mnemonic that has no emulation or an
\* indirect jump that is not in the configuration.
RoutineFound ==
  phase = "notfound" =>
    \/ ThisInstr.mn \notin ToSet(EmulatedMnemonics) \cup {"jmp"}
    \/ IsJump(ThisInstr) /\ ThisInstr.operand \notin ToSet(prog.jumps)
=============================================================================
