------------------------------- MODULE Reach --------------------------------
(***************************************************************************)
(* What a disassembler promises: an address is decoded as an instruction   *)
(* only if the program can get there, from an interrupt vector or from a   *)
(* known destination of an indirect jump.                                  *)
(***************************************************************************)
EXTENDS CodeFlow

VARIABLES
  prog,     \* the program, fixed
  decoded   \* the addresses decoded as instructions

vars == <<prog, decoded>>

Init == prog \in ProgramType /\ decoded = {}

Decode(a) ==
  /\ a \in Entered(prog, decoded) \ decoded
  /\ Decodable(prog, a)
  /\ decoded' = decoded \cup {a}
  /\ UNCHANGED prog

Next == \E a \in Prg : Decode(a)

Spec == Init /\ [][Next]_vars
=============================================================================
