------------------------------ MODULE CodeFlow ------------------------------
(***************************************************************************)
(* A NES program as the disassembler sees it: what the bytes at each       *)
(* address of the PRG rom decode to, the three interrupt vectors, and the  *)
(* indirect jumps the configuration file of the rom already knows.         *)
(*                                                                         *)
(* An address is a 16 bit value scaled down to 0..Top; Top is $FFFF, Base  *)
(* is the address the mapper gives to the first byte of the PRG.           *)
(***************************************************************************)
EXTENDS Naturals, Sequences, FiniteSets

CONSTANTS
  Base,      \* first address of the PRG rom (Cmapper::m_cprgbase)
  Top        \* last address ($FFFF)

Addr    == 0..Top
Prg     == Base..Top
PrgSize == Top - Base + 1

\* What get_next_instruction tells apart in an opcode.
Kinds == {"invalid", "plain", "jmp", "jmpind", "branch", "jsr", "ret"}

\* target is the operand of jmp, jmpind and jsr, and the resolved
\* destination of a relative branch.
Instr == [kind : Kinds, size : 1..3, target : Addr]

\* code[a]: the instruction whose opcode is the byte at a.
\* word[a]: the 16 bit word stored at a.
\* reset, nmi, irq: the entry points read from the three vectors.
\* fileOps: the indirect jump operands declared in the configuration file.
\* known:   the <<operand, destination>> pairs of that file, in the order
\*          the disassembler walks them.
ProgramType ==
  [code    : [Prg -> Instr],
   word    : [Prg -> Addr],
   reset   : Addr,
   nmi     : Addr,
   irq     : Addr,
   fileOps : SUBSET Addr,
   known   : Seq(Addr \X Addr)]

ASSUME AddrAssumption == Base \in Nat \ {0} /\ Top \in Nat /\ Base <= Top

KnownAddrs(p, operand) ==
  {p.known[i][2] : i \in {j \in DOMAIN p.known : p.known[j][1] = operand}}

KnownDests(p) == {p.known[i][2] : i \in DOMAIN p.known}

\* The entry points of a program: its vectors and every known destination of
\* an indirect jump.
Roots(p) == {p.reset, p.nmi, p.irq} \cup KnownDests(p)

\* Where a 6502 can go after the instruction at a (the destinations of an
\* indirect jump through ram being the known ones).
Succ(p, a) ==
  LET i == p.code[a] IN
  CASE i.kind = "jmp"     -> {i.target}
    [] i.kind = "branch"  -> {i.target, a + i.size}
    [] i.kind = "jsr"     -> {i.target, a + i.size}
    [] i.kind = "plain"   -> {a + i.size}
    [] i.kind = "jmpind"  -> IF i.target < Base THEN KnownAddrs(p, i.target)
                                                ELSE {p.word[i.target]}
    [] OTHER              -> {}

\* What p can enter, once the instructions at D are known.
Entered(p, D) == Roots(p) \cup UNION {Succ(p, a) : a \in D}

\* An address an instruction can be read from. The last byte of the address
\* space is refused (disasm.cpp tests >= 0xFFFF).
Decodable(p, a) ==
  /\ a \in Base..(Top - 1)
  /\ p.code[a].kind # "invalid"
=============================================================================
