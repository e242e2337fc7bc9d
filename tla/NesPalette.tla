----------------------------- MODULE NesPalette -----------------------------
(***************************************************************************)
(* What the palettes promise: the game writes colours at any time, one at  *)
(* an entry or one at the first entry of every palette, and the screen     *)
(* changes at once, in the vertical blanking, to all that was written.     *)
(***************************************************************************)
CONSTANTS
  Palettes, Entries, Colours,
  First,    \* the entry mirrored
  Black,    \* the colour of the screen after the reset
  Reset,    \* the byte of the palettes after the reset
  Convert   \* the colour of the screen for a colour of the game

VARIABLES
  colours,  \* colours[p][e]: what the game wrote
  screen    \* screen[p][e]

Init ==
  /\ colours = [p \in Palettes |-> [e \in Entries |-> Reset]]
  /\ screen = [p \in Palettes |-> [e \in Entries |-> Black]]

Write ==
  /\ \E p \in Palettes, e \in Entries, c \in Colours :
       colours' = [colours EXCEPT ![p] = [@ EXCEPT ![e] = c]]
  /\ UNCHANGED screen

WriteFirst ==
  /\ \E c \in Colours :
       colours' = [p \in Palettes |-> [colours[p] EXCEPT ![First] = c]]
  /\ UNCHANGED screen

\* The palettes that still hold what the reset left may stay black.
Untouched(p) == colours[p] = [e \in Entries |-> Reset]

Vblank ==
  /\ \E shown \in SUBSET Palettes :
       /\ \A p \in Palettes \ shown :
            /\ Untouched(p)
            /\ screen[p] = [e \in Entries |-> Black]
       /\ screen' = [p \in Palettes |->
                       IF p \in shown THEN [e \in Entries |-> Convert[colours[p][e]]]
                                      ELSE screen[p]]
  /\ UNCHANGED colours

Next == Write \/ WriteFirst \/ Vblank

Spec == Init /\ [][Next]_<<colours, screen>>
=============================================================================
