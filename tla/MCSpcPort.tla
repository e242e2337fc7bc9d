------------------------------ MODULE MCSpcPort ------------------------------
(* A byte of eight values, a program that wraps its index, three registers. *)
EXTENDS SpcPort

MCProgram == [a \in 0..Size - 1 |-> (a * 3) % 4]

MCTables == [Regs -> {0, 1, 2}]
=============================================================================
