------------------------------ MODULE MCDisasm ------------------------------
(* Small programs for Disasm: a PRG of eight bytes at 2..9.                *)
EXTENDS Disasm

MCBase == 2
MCTop  == 9

I(k, n, t) == [kind |-> k, size |-> n, target |-> t]
Plain1 == I("plain", 1, 0)
Plain2 == I("plain", 2, 0)
Ret    == I("ret", 1, 0)
Bad    == I("invalid", 1, 0)

\* One instruction of each kind and outcome: loops, overlaps (targets 3 and 4
\* fall in the operands of instructions at 2), jumps out of the PRG, indirect
\* jumps through ram and through the rom.
Menu == {Plain1, Plain2, Ret, Bad, I("jmp", 3, 5), I("jmp", 3, 0),
         I("jsr", 3, 6), I("branch", 2, 2), I("branch", 2, 8),
         I("jmpind", 3, 0), I("jmpind", 3, 3)}

MenuAt == [a \in 2..9 |->
  CASE a \in {2, 3} -> Menu
    [] a = 4 -> {Plain1, Ret}
    [] a = 5 -> {I("jmp", 3, 2), I("branch", 2, 4), I("jmpind", 3, 1), Ret}
    [] a = 6 -> {I("jmpind", 3, 1), I("branch", 2, 3)}
    [] a = 7 -> {Plain2, I("plain", 3, 0)}
    [] a = 8 -> {Ret, I("plain", 3, 0)}
    [] a = 9 -> {Plain1}]

\* Configuration files: none, one known jump, one with an address in ram.
Files == {[fileOps |-> {},     known |-> <<>>],
          [fileOps |-> {0, 1}, known |-> <<<<0, 6>>, <<1, 4>>>>],
          [fileOps |-> {1},    known |-> <<<<1, 7>>, <<1, 0>>>>]}

MCPrograms ==
  {[code |-> [a \in 2..9 |->
                CASE a = 2 -> c2 [] a = 3 -> c3 [] a = 4 -> c4 [] a = 5 -> c5
                  [] a = 6 -> c6 [] a = 7 -> c7 [] a = 8 -> c8
                  [] OTHER -> Plain1],
    word |-> [a \in 2..9 |-> IF a = 3 THEN 7 ELSE 1],
    reset |-> 2, nmi |-> 5, irq |-> 9,
    fileOps |-> f.fileOps, known |-> f.known] :
     c2 \in MenuAt[2], c3 \in MenuAt[3], c4 \in MenuAt[4], c5 \in MenuAt[5],
     c6 \in MenuAt[6], c7 \in MenuAt[7], c8 \in MenuAt[8], f \in Files}

\* The same programs with an irq vector just before the end of the PRG.
MCTailPrograms ==
  {[p EXCEPT !.irq = 6] : p \in {q \in MCPrograms : q.known = <<>>}}
=============================================================================
