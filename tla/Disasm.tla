------------------------------- MODULE Disasm -------------------------------
(***************************************************************************)
(* The recursive descent disassembler: class Cdisasm of disasm.cpp, with   *)
(* the part of the listing (class Cprogramlisting) it builds.              *)
(*                                                                         *)
(* One action is one turn of the loop of disasm_addr: a whole call of      *)
(* get_next_instruction and the pop of the jump stack that follows when it *)
(* reports an error or a known address.  disasm_addr is run once per entry *)
(* point; the jump stack and the exploration buffer live across the calls. *)
(***************************************************************************)
EXTENDS CodeFlow

CONSTANT Programs   \* the programs considered

ASSUME ProgramsAssumption == \A p \in Programs : p \in ProgramType

VARIABLES
  prog,      \* the rom and its configuration file, fixed
  phase,     \* where disasm() is
  todo,      \* entry points disasm() has still to hand to disasm_addr
  running,   \* inside disasm_addr
  cur,       \* m_cur_addr
  stack,     \* JUMP_stack[0..JUMP_stack_sz-1], the top first
  explore,   \* pexplore
  listed,    \* addresses of the listing with a decoded opcode
  nodes,     \* every address of the listing: placeholders (opcode -1) too
  branches,  \* <<jump, destination>> pairs: branchaddr and pbranches
  newOps     \* jump operands added to m_jmplist with bnew set

vars == <<prog, phase, todo, running, cur, stack, explore, listed, nodes,
          branches, newOps>>

Marks  == {"new", "op", "arg"}
Phases == {"vectors", "extra", "done", "failed", "aborted"}

TypeOK ==
  /\ prog \in ProgramType /\ phase \in Phases /\ todo \in Seq(Addr)
  /\ running \in BOOLEAN /\ cur \in Addr /\ stack \in Seq(Addr)
  /\ explore \in [Prg -> Marks] /\ listed \subseteq Prg /\ nodes \subseteq Addr
  /\ branches \subseteq Prg \X Addr /\ newOps \subseteq Addr

Init ==
  /\ prog \in Programs /\ phase = "vectors"
  /\ todo = <<prog.reset, prog.nmi, prog.irq>>
  /\ running = FALSE /\ cur = 0 /\ stack = <<>> /\ explore = [a \in Prg |-> "new"]
  /\ listed = {} /\ nodes = {} /\ branches = {} /\ newOps = {}

-----------------------------------------------------------------------------
(* The entry points.                                                       *)

StartEntry ==
  /\ phase \in {"vectors", "extra"}
  /\ ~running
  /\ todo # <<>>
  /\ cur' = Head(todo)
  /\ todo' = Tail(todo)
  /\ running' = TRUE
  /\ UNCHANGED <<prog, phase, stack, explore, listed, nodes, branches, newOps>>

\* The vectors are done: the known destinations of the indirect jumps follow.
StartExtra ==
  /\ phase = "vectors" /\ ~running /\ todo = <<>>
  /\ phase' = "extra"
  /\ todo' = [i \in 1..Len(prog.known) |-> prog.known[i][2]]
  /\ UNCHANGED <<prog, running, cur, stack, explore, listed, nodes, branches,
                 newOps>>

\* update_indjump_file worked: placeholders nothing decoded are removed.
Finish ==
  /\ phase = "extra" /\ ~running /\ todo = <<>>
  /\ phase' = "done"
  /\ nodes' = listed
  /\ UNCHANGED <<prog, todo, running, cur, stack, explore, listed, branches,
                 newOps>>

\* The configuration file could not be opened to add the new jumps.
FinishFails ==
  /\ phase = "extra" /\ ~running /\ todo = <<>>
  /\ newOps # {}
  /\ phase' = "failed"
  /\ UNCHANGED <<prog, todo, running, cur, stack, explore, listed, nodes,
                 branches, newOps>>

-----------------------------------------------------------------------------
(* get_next_instruction.                                                   *)

OutOfPrg(a) == a < Base \/ a >= Top
Cur         == prog.code[cur]

\* The jump stack after an error or a known address: the most recent address
\* is tried next, and disasm_addr returns when there is none.
Pop(s) ==
  IF s # <<>>
  THEN cur' = Head(s) /\ stack' = Tail(s) /\ UNCHANGED running
  ELSE running' = FALSE /\ stack' = s /\ UNCHANGED cur

Unread ==
  UNCHANGED <<prog, phase, todo, explore, listed, nodes, branches, newOps>>

\* Mutant of Skip: a known address is skipped without a pop.
SkipStays ==
  /\ running
  /\ ~OutOfPrg(cur) => Cur.kind = "invalid" \/ explore[cur] # "new"
  /\ IF OutOfPrg(cur) THEN Pop(stack) ELSE UNCHANGED <<running, cur, stack>>
  /\ Unread

\* An address out of the PRG, an invalid opcode, or an address already
\* explored (as an opcode or in the middle of a previous instruction).
Skip ==
  /\ running
  /\ \/ OutOfPrg(cur)
     \/ ~OutOfPrg(cur) /\ Cur.kind = "invalid"
     \/ ~OutOfPrg(cur) /\ explore[cur] # "new"
  /\ Pop(stack)
  /\ Unread

Fresh(kind) ==
  /\ running
  /\ ~OutOfPrg(cur)
  /\ Cur.kind = kind
  /\ explore[cur] = "new"

\* Mutants of Teint: the mark goes one byte too far; the opcode has none.
TeintFar ==
  [a \in Prg |-> CASE a = cur                  -> "op"
                   [] a \in cur + 1..cur + Cur.size -> "arg"
                   [] OTHER                    -> explore[a]]
TeintArgs ==
  [a \in Prg |-> IF a \in cur + 1..cur + Cur.size - 1 THEN "arg" ELSE explore[a]]

\* The exploration buffer once the instruction at cur is read.
Teint ==
  [a \in Prg |-> CASE a = cur                      -> "op"
                   [] a \in cur + 1..cur + Cur.size - 1 -> "arg"
                   [] OTHER                        -> explore[a]]

\* The instruction enters the listing with branches to dests.
Insert(dests) ==
  /\ explore' = Teint
  /\ listed' = listed \cup {cur}
  /\ nodes' = nodes \cup {cur} \cup dests
  /\ branches' = branches \cup {<<cur, d>> : d \in dests}

\* Mutant of Advance: no test for the end of the address space.
AdvanceAlways == cur' = cur + Cur.size /\ UNCHANGED running

\* Past the instruction, or the end of the address space.
Advance ==
  IF cur > Top - Cur.size
  THEN running' = FALSE /\ UNCHANGED cur
  ELSE cur' = cur + Cur.size /\ UNCHANGED running

Plain ==
  /\ Fresh("plain")
  /\ Insert({})
  /\ Advance
  /\ UNCHANGED <<prog, phase, todo, stack, newOps>>

Branch ==
  /\ Fresh("branch")
  /\ Insert({Cur.target})
  /\ stack' = <<Cur.target>> \o stack
  /\ Advance
  /\ UNCHANGED <<prog, phase, todo, newOps>>

\* Mutant of Jsr: the subroutine is not pushed.
JsrOver ==
  /\ Fresh("jsr")
  /\ Insert({Cur.target})
  /\ Advance
  /\ UNCHANGED <<prog, phase, todo, stack, newOps>>

Jsr ==
  /\ Fresh("jsr")
  /\ Insert({Cur.target})
  /\ stack' = <<Cur.target>> \o stack
  /\ Advance
  /\ UNCHANGED <<prog, phase, todo, newOps>>

\* Mutant of Return: disassembly goes on past it.
ReturnThrough ==
  /\ Fresh("ret")
  /\ Insert({})
  /\ Advance
  /\ UNCHANGED <<prog, phase, todo, stack, newOps>>

\* rts and rti leave cur where it is: the next turn finds it already read.
Return ==
  /\ Fresh("ret")
  /\ Insert({})
  /\ UNCHANGED <<prog, phase, todo, running, cur, stack, newOps>>

\* A jump to the rom is followed at once (pushed, then popped); a jump out of
\* it is reported and left without a branch.
FollowJump(dest) ==
  \/ /\ dest >= Base
     /\ Insert({dest})
     /\ Pop(<<dest>> \o stack)
  \/ /\ dest < Base
     /\ Insert({})
     /\ Pop(stack)

Jump ==
  /\ Fresh("jmp")
  /\ FollowJump(Cur.target)
  /\ UNCHANGED <<prog, phase, todo, newOps>>

\* The indirect address is stored in the rom.
JumpIndirectRom ==
  /\ Fresh("jmpind")
  /\ Cur.target >= Base
  /\ FollowJump(prog.word[Cur.target])
  /\ UNCHANGED <<prog, phase, todo, newOps>>

\* addjmpoperand
AddJmpOperand(op) ==
  newOps' = IF op \in prog.fileOps THEN newOps ELSE newOps \cup {op}

\* The indirect address is in ram: the operand joins the list of the
\* configuration file and its known destinations become branches.
JumpIndirectRam ==
  /\ Fresh("jmpind")
  /\ Cur.target < Base
  /\ \A d \in KnownAddrs(prog, Cur.target) : d >= Base
  /\ AddJmpOperand(Cur.target)
  /\ Insert(KnownAddrs(prog, Cur.target))
  /\ Pop(stack)
  /\ UNCHANGED <<prog, phase, todo>>

\* A known destination out of the rom: assert(false) in add_known_branches.
JumpIndirectAbort ==
  /\ Fresh("jmpind")
  /\ Cur.target < Base
  /\ \E d \in KnownAddrs(prog, Cur.target) : d < Base
  /\ AddJmpOperand(Cur.target)
  /\ Insert({})
  /\ phase' = "aborted"
  /\ running' = FALSE
  /\ UNCHANGED <<prog, todo, cur, stack>>

DisasmAddr ==
  \/ Skip
  \/ Plain
  \/ Branch
  \/ Jsr
  \/ Return
  \/ Jump
  \/ JumpIndirectRom
  \/ JumpIndirectRam
  \/ JumpIndirectAbort

Next ==
  \/ StartEntry
  \/ StartExtra
  \/ Finish
  \/ FinishFails
  \/ DisasmAddr

\* A single threaded program: while it can take a step, it takes it.
Spec == Init /\ [][Next]_vars /\ WF_vars(Next)

-----------------------------------------------------------------------------
(* Correctness.                                                            *)

Ended == phase \in {"done", "failed", "aborted"}

\* The abstract disassembler this one implements.
R == INSTANCE Reach WITH decoded <- listed

\* Only code is decoded: every instruction of the listing is entered from a
\* vector, from a known indirect destination or from a listed instruction,
\* although the addresses come through a stack that outlives the entry point
\* that filled it (disasm_addr returns at the end of the PRG with jumps left).
DecodesOnlyCode == R!Spec

\* The jump stack never outgrows the 3 * PRG_size words Cdisasm::init gives
\* it; pushes (jmp, jsr, branches) are nowhere checked against that size.
JumpStackFits == Len(stack) <= 3 * PrgSize

\* The exploration buffer and the listing agree, overlapped instructions
\* included: an opcode mark is a listed instruction, an argument mark is a
\* byte of a listed instruction, and a listed instruction is never taken for
\* an unexplored address (it would be decoded, and inserted, twice).
MarksAgree ==
  /\ \A a \in Prg : explore[a] = "op" => a \in listed
  /\ \A a \in Prg : explore[a] = "arg" =>
       \E b \in listed : a \in b + 1..b + prog.code[b].size - 1
  /\ \A a \in listed : explore[a] # "new"

\* An address needs no further work.
Settled(a) == Decodable(prog, a) => explore[a] # "new"

Stacked(a) == \E i \in 1..Len(stack) : stack[i] = a
Planned(a) == \/ \E i \in 1..Len(todo) : todo[i] = a
              \/ phase = "vectors" /\ a \in KnownDests(prog)
Tracked(a) == Settled(a) \/ Stacked(a) \/ Planned(a) \/ (running /\ cur = a)

\* Nothing is forgotten: as long as no assertion ended the program, every
\* address the listed code can go to is explored, cannot be decoded, or is
\* still waiting (on the stack, among the entry points, or being looked at).
NothingForgotten ==
  phase # "aborted" =>
    \A a \in Entered(prog, listed) : Tracked(a)

\* Every address the disassembler holds was entered by the program, and a
\* push is paid for by an instruction nobody had listed: with MarksAgree, the
\* inductive strengthening of the safety properties above.
Reached ==
  /\ \A i \in 1..Len(todo) : todo[i] \in Roots(prog)
  /\ running => cur \in Entered(prog, listed)
  /\ \A i \in 1..Len(stack) : stack[i] \in Entered(prog, listed)
StackPaid == Len(stack) <= Cardinality(listed)
IInv == TypeOK /\ MarksAgree /\ Reached /\ StackPaid

\* Disassembly ends, whatever the loops and overlaps of the program.
Terminates == <>Ended

\* The comment on Cdisasm::JUMP_stack, "JUMPs to be explored": when the
\* disassembly is done no jump left on it leads to code nobody decoded.
JumpsExplored == phase = "done" => \A a \in Addr : Stacked(a) => Settled(a)
=============================================================================
