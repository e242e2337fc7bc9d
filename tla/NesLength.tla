------------------------------ MODULE NesLength ------------------------------
(***************************************************************************)
(* One channel of the sound unit of the NES, as far as its length counter  *)
(* goes: a note is heard for as many updates as its length index says, none *)
(* if its length is zero, whatever the other channels do.                   *)
(***************************************************************************)
EXTENDS Naturals

CONSTANTS
  Indexes,  \* values of the length register; 0 is not a note
  Length    \* Length[i]: how many updates the note of index i lasts

VARIABLES
  note,     \* the note written since the last update that took one
  halted,   \* the counter is stopped: the channel is heard for ever
  switched, \* bit of $4015
  left,     \* updates to come; nothing is said of it at reset
  dirty,    \* no update was made since the reset
  heard

vars == <<note, halted, switched, left, dirty, heard>>

Init ==
  /\ note = 0 /\ halted = FALSE /\ switched = FALSE /\ heard = FALSE
  /\ left \in Nat /\ dirty \in BOOLEAN

Play  == note' \in Indexes /\ UNCHANGED <<halted, switched, left, dirty, heard>>
Halt  == halted' \in BOOLEAN /\ UNCHANGED <<note, switched, left, dirty, heard>>
Switch == switched' \in BOOLEAN /\ UNCHANGED <<note, halted, left, dirty, heard>>

\* A note waits for the counter to run.
Hold ==
  /\ halted
  /\ heard' = switched
  /\ dirty \/ left' = left
  /\ left' \in Nat /\ dirty' = FALSE
  /\ UNCHANGED <<note, halted, switched>>

Start ==
  /\ ~halted /\ note # 0
  /\ left' = IF Length[note] = 0 THEN 0 ELSE Length[note] - 1
  /\ heard' = (switched /\ Length[note] # 0)
  /\ note' = 0 /\ dirty' = FALSE
  /\ UNCHANGED <<halted, switched>>

Continue ==
  /\ ~halted /\ note = 0 /\ left > 0
  /\ left' = left - 1 /\ dirty' = FALSE
  /\ heard' = switched
  /\ UNCHANGED <<note, halted, switched>>

Silence ==
  /\ ~halted /\ note = 0 /\ left = 0
  /\ heard' = FALSE /\ dirty' = FALSE
  /\ UNCHANGED <<note, halted, switched, left>>

Next == Play \/ Halt \/ Switch \/ Hold \/ Start \/ Continue \/ Silence

Spec == Init /\ [][Next]_vars
=============================================================================
