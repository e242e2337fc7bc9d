------------------------------ MODULE MCVblank -------------------------------
(* Two palettes of one entry, the first one mirrored on the other; a sprite. *)
EXTENDS Vblank

MCTable == [c \in Colours |-> c + 1]

MCPages == {[a \in Places |-> a % 2], [a \in Places |-> 1 - (a % 2)]}

MCSpriteFlags == [v \in Bytes |-> 3 * v]

MCGarbage == [a \in Places |-> 9]
=============================================================================
