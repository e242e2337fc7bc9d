----------------------------- MODULE MCJmpCycle -----------------------------
(* Small roms for JmpCycle: three destinations, and jumps through the first *)
(* and the last byte of the direct page or through $0200.                   *)
EXTENDS JmpCycle

MCOperands == {0, 255, 512}
MCDests    == {1, 2, 3}

\* Destination 3 uncovers nothing destination 2 does not.
GamesOf(ops, dests) ==
  {g \in [first  : SUBSET ops,
          behind : [MCDests -> SUBSET ops],
          takes  : {[o \in MCOperands |-> IF o \in ops THEN t[o] ELSE {}] :
                      t \in [ops -> SUBSET dests]}] :
     g.first # {} /\ g.behind[3] \subseteq g.behind[2]}

MCNarrowGames == GamesOf({0, 255}, MCDests)
MCWideGames   == GamesOf({255, 512}, {1, 2})
MCGames       == MCNarrowGames \cup MCWideGames
=============================================================================
