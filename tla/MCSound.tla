------------------------------- MODULE MCSound -------------------------------
(* An empty register, a note shorter than the byte of the game read for 0, and *)
(* one whose byte is zero.                                                    *)
EXTENDS Sound

MCLength == [i \in Indexes |-> CASE i = 0 -> 2 [] i = 1 -> 1 [] i = 2 -> 0]

MCSwitches == {Channels, {}}

\* An accumulator of zero, and another one.
MCGarbage == {[counter |-> [c \in Channels |-> 0], flags |-> {}],
              [counter |-> [c \in Channels |-> 1], flags |-> {"noise", "tria"}]}
=============================================================================
