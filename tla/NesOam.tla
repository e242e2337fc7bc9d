------------------------------- MODULE NesOam -------------------------------
(***************************************************************************)
(* The sprite memory of the NES behind ports $2003, $2004 and $4014, as    *)
(* the comments of iopemulation.asm describe it, with a screen that shows  *)
(* it from one vertical blanking or another.                               *)
(***************************************************************************)
EXTENDS Naturals

CONSTANTS
  Size,    \* bytes of the sprite memory, four for each sprite: 256
  Bytes,   \* values the game writes
  Shows    \* Shows[field][v]: how the screen shows v as a byte of this field

VARIABLES
  pointer, \* the address of the next access
  memory,  \* the bytes, as they are to be shown
  screen

vars == <<pointer, memory, screen>>

Places == 0..Size - 1

Init == pointer = 0

Point == pointer' \in Places /\ UNCHANGED <<memory, screen>>

\* Nothing is said of the address after the last byte.
Advance == pointer' \in Places /\ (pointer + 1 < Size => pointer' = pointer + 1)

Write ==
  /\ \E v \in Bytes :
       memory' = [memory EXCEPT ![pointer] = Shows[pointer % 4][v]]
  /\ Advance
  /\ UNCHANGED screen

\* A read may spoil the byte read, and no other one.
Read ==
  /\ \A a \in Places \ {pointer} : memory'[a] = memory[a]
  /\ Advance
  /\ UNCHANGED screen

Copy ==
  /\ \A a \in Places : \E v \in Bytes : memory'[a] = Shows[a % 4][v]
  /\ UNCHANGED <<pointer, screen>>

\* The screen takes all the sprites, never a part of them.
Vblank == screen' = memory /\ UNCHANGED <<pointer, memory>>

Next == Point \/ Write \/ Read \/ Copy \/ Vblank

Spec == Init /\ [][Next]_vars
=============================================================================
