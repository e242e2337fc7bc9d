--------------------------- MODULE JmpCycleProofs ---------------------------
(***************************************************************************)
(* Machine checked proofs about JmpCycle, for every rom.                   *)
(***************************************************************************)
EXTENDS JmpCycle, TLAPS

\* What a disassembly can find.
LEMMA FoundType == TypeOK => FoundNow \subseteq Operands
<1> SUFFICES ASSUME TypeOK PROVE FoundNow \subseteq Operands
  OBVIOUS
<1>1. \A r : KnownOf(r) \subseteq Dests
  BY DEF TypeOK, KnownOf, Declared
<1>2. game.first \subseteq Operands /\ \A d \in Dests : game.behind[d] \subseteq Operands
  BY DEF TypeOK, GameType
<1> QED BY <1>1, <1>2 DEF FoundNow, Found

\* Every state has its type.
THEOREM CycleTypeCorrect == Spec => []TypeOK
<1>1. Init => TypeOK
  BY CycleAssumption DEF Init, TypeOK, Phases
<1>2. TypeOK /\ [Next]_vars => TypeOK'
  <2> SUFFICES ASSUME TypeOK, [Next]_vars PROVE TypeOK'
    OBVIOUS
  <2>1. CASE Refuse
    BY <2>1 DEF Refuse, TypeOK, Phases
  <2>2. CASE Convert
    <3>1. lines' \in [Operands -> Nat]
      BY <2>2 DEF Convert, TypeOK
    <3>2. \A r : KnownOf(r) \subseteq Dests
      BY DEF TypeOK, KnownOf, Declared
    <3>3. table' \in [Operands -> SUBSET Dests]
      BY <2>2, <3>2 DEF Convert
    <3> QED BY <2>2, <3>1, <3>3, FoundType DEF Convert, TypeOK, Phases
  <2>3. CASE Abort
    BY <2>3 DEF Abort, TypeOK, Phases
  <2>8. CASE ConvertFails
    BY <2>8 DEF ConvertFails, TypeOK, Phases
  <2>4. ASSUME NEW o \in Operands, NEW d \in Dests, Stop(o, d) PROVE TypeOK'
    BY <2>4 DEF Stop, TypeOK, Phases
  <2>5. ASSUME NEW o \in Operands, NEW d \in Dests, AddByHand(o, d) PROVE TypeOK'
    <3>1. lines' \in [Operands -> Nat] /\ addrs' \in [Operands -> SUBSET Dests]
      BY <2>5 DEF AddByHand, TypeOK
    <3> QED BY <2>5, <3>1 DEF AddByHand, TypeOK, Phases
  <2>6. CASE Retry
    BY <2>6 DEF Retry, TypeOK, Phases
  <2>7. CASE UNCHANGED vars
    BY <2>7 DEF vars, TypeOK
  <2> QED BY <2>1, <2>2, <2>3, <2>4, <2>5, <2>6, <2>7, <2>8 DEF Next
<1>3. QED BY <1>1, <1>2, PTL DEF Spec

-----------------------------------------------------------------------------
(* The file.                                                               *)

\* With every operand in the direct page, the file reads back as written.
LEMMA ReadsBack ==
  ASSUME TypeOK, FileInv, Narrow
  PROVE  /\ Readable
         /\ Listed = Declared
         /\ \A o \in Operands : addrs[o] = IF o \in Listed THEN KnownOf(o) ELSE {}
<1>1. \A o \in Declared : ReadBack(o) = o
  BY DEF Narrow, ReadBack
<1>2. \A o \in Declared : lines[o] = 1 /\ IsByte(o)
  BY CycleAssumption DEF FileInv, Declared, Narrow, IsByte
<1>3. Readable
  BY <1>1, <1>2 DEF Readable
<1>4. Listed = Declared
  BY <1>1 DEF Listed
<1>5. \A o \in Declared : KnownOf(o) = addrs[o]
  <2> TAKE o \in Declared
  <2>1. {p \in Declared : ReadBack(p) = o} = {o}
    BY <1>1
  <2> QED BY <2>1 DEF KnownOf
<1> QED BY <1>3, <1>4, <1>5 DEF FileInv

LEMMA FileInvStep == TypeOK /\ FileInv /\ [Next]_vars => FileInv'
<1> SUFFICES ASSUME TypeOK, FileInv, [Next]_vars PROVE FileInv'
  OBVIOUS
<1>1. CASE UNCHANGED <<lines, addrs, table, asked>> /\ (phase' \in {"built", "stopped"} => phase \in {"built", "stopped"})
  BY <1>1 DEF FileInv, Narrow, Declared
<1>2. CASE Convert \/ Abort
  <2>1. \A o \in Operands : lines'[o] = lines[o] + IF o \in NewOps THEN 1 ELSE 0
    BY <1>2 DEF Convert, Abort
  <2>2. Declared \subseteq Declared'
    BY <2>1 DEF Declared, TypeOK
  <2>3. Narrow' => Narrow
    BY <2>2 DEF Narrow
  <2>4. Narrow => \A o \in Operands : lines'[o] \in {0, 1}
    <3> SUFFICES ASSUME Narrow, NEW o \in Operands PROVE lines'[o] \in {0, 1}
      OBVIOUS
    <3>1. Listed = Declared
      BY ReadsBack
    <3>2. CASE o \in NewOps
      <4>1. lines[o] = 0
        BY <3>1, <3>2 DEF NewOps, Declared, TypeOK
      <4> QED BY <2>1, <3>2, <4>1
    <3>3. CASE o \notin NewOps
      BY <2>1, <3>3 DEF FileInv, TypeOK
    <3> QED BY <3>2, <3>3
  <2>5. Narrow /\ phase' \in {"built", "stopped"} => \A o \in Operands : table'[o] = addrs[o]
    BY <1>2, ReadsBack DEF Convert, Abort
  <2> QED BY <1>2, <2>2, <2>3, <2>4, <2>5 DEF Convert, Abort, FileInv
<1>3. ASSUME NEW o \in Operands, NEW d \in Dests, AddByHand(o, d) PROVE FileInv'
  <2>1. /\ lines' = [lines EXCEPT ![o] = IF @ = 0 THEN 1 ELSE @]
        /\ addrs' = [addrs EXCEPT ![o] = @ \cup {d}]
        /\ asked' = asked \cup {<<o, d>>} /\ phase' = "convert"
    BY <1>3 DEF AddByHand
  <2>2. Declared' = Declared \cup {o}
    BY <2>1 DEF Declared, TypeOK
  <2>3. Narrow' => Narrow
    BY <2>2 DEF Narrow
  <2>4. \A p \in Operands : lines[p] \in {0, 1} => lines'[p] \in {0, 1}
    BY <2>1 DEF TypeOK
  <2>5. \A p \in Operands : addrs'[p] = {e \in Dests : <<p, e>> \in asked'}
    <3> SUFFICES ASSUME NEW p \in Operands
                 PROVE  addrs'[p] = {e \in Dests : <<p, e>> \in asked'}
      OBVIOUS
    <3>1. addrs[p] = {e \in Dests : <<p, e>> \in asked}
      BY DEF FileInv
    <3>2. CASE p = o
      BY <2>1, <3>1, <3>2 DEF TypeOK
    <3>3. CASE p # o
      BY <2>1, <3>1, <3>3 DEF TypeOK
    <3> QED BY <3>2, <3>3
  <2>6. \A p \in Operands : addrs'[p] # {} => p \in Declared'
    BY <2>1, <2>2 DEF FileInv, TypeOK
  <2> QED BY <2>1, <2>3, <2>4, <2>5, <2>6 DEF FileInv
<1> QED
  BY <1>1, <1>2, <1>3
  DEF Next, Refuse, ConvertFails, Stop, Retry, vars

LEMMA FileInvCorrect == Spec => []FileInv
<1>1. Init => FileInv
  BY DEF Init, FileInv, Declared
<1>2. QED BY <1>1, FileInvStep, CycleTypeCorrect, PTL DEF Spec

\* A configuration file is refused only when it declares a jump out of the
\* direct page.
LEMMA NeverRefusedCorrect == Spec => []NeverRefused
<1>1. Init => NeverRefused
  BY DEF Init, NeverRefused
<1>2. TypeOK /\ FileInv /\ NeverRefused /\ [Next]_vars => NeverRefused'
  <2> SUFFICES ASSUME TypeOK, FileInv, NeverRefused, [Next]_vars, phase' = "refused"
               PROVE  ~Narrow'
    BY DEF NeverRefused
  <2>1. CASE Refuse
    BY <2>1, ReadsBack DEF Refuse, Narrow, Declared
  <2>2. CASE UNCHANGED vars
    BY <2>2 DEF NeverRefused, vars, Narrow, Declared
  <2> QED
    BY <2>1, <2>2 DEF Next, Convert, Abort, ConvertFails, Stop, AddByHand, Retry
<1>3. QED
  BY <1>1, <1>2, CycleTypeCorrect, FileInvCorrect, PTL DEF Spec

\* The operands found with all that is in the file, whatever its lines declare.
Reached == Found(UNION {addrs[o] : o \in Operands})

LEMMA FoundIs ==
  ASSUME TypeOK, FileInv
  PROVE  FoundNow = Reached
<1>1. \A o \in Operands : addrs[o] \subseteq UNION {KnownOf(r) : r \in Listed}
  <2> SUFFICES ASSUME NEW o \in Operands, NEW d \in addrs[o]
               PROVE  d \in UNION {KnownOf(r) : r \in Listed}
    OBVIOUS
  <2>1. o \in Declared /\ ReadBack(o) \in Listed
    BY DEF FileInv, Listed
  <2>2. d \in KnownOf(ReadBack(o))
    BY <2>1 DEF KnownOf
  <2> QED BY <2>1, <2>2
<1>2. \A r : KnownOf(r) \subseteq UNION {addrs[o] : o \in Operands}
  BY DEF KnownOf, Declared
<1>3. UNION {KnownOf(r) : r \in Listed} = UNION {addrs[o] : o \in Operands}
  BY <1>1, <1>2
<1> QED BY <1>3 DEF FoundNow, Reached

\* A jump the game stopped on, or may stop on, is found by every later conversion.
FoundAgain ==
  /\ \A o \in Operands : addrs[o] # {} => o \in Reached
  /\ phase \in {"built", "stopped"} => patched \subseteq Reached
  /\ phase = "stopped" => screen \subseteq patched \X Dests

LEMMA FoundAgainStep == TypeOK /\ FileInv /\ FoundAgain /\ [Next]_vars => FoundAgain'
<1> SUFFICES ASSUME TypeOK, FileInv, FoundAgain, [Next]_vars PROVE FoundAgain'
  OBVIOUS
<1>1. CASE /\ UNCHANGED <<game, addrs, patched, screen>>
           /\ phase' \in {"built", "stopped"} => phase' = phase
  BY <1>1 DEF FoundAgain, Reached, Found
<1>2. CASE Convert
  <2>1. patched' = Reached /\ game' = game /\ addrs' = addrs /\ phase' = "built"
    BY <1>2, FoundIs DEF Convert
  <2> QED BY <2>1 DEF FoundAgain, Reached, Found
<1>3. ASSUME NEW o \in Operands, NEW d \in Dests, Stop(o, d) PROVE FoundAgain'
  BY <1>3 DEF Stop, FoundAgain, Reached, Found
<1>4. ASSUME NEW o \in Operands, NEW d \in Dests, AddByHand(o, d) PROVE FoundAgain'
  <2>1. /\ addrs' = [addrs EXCEPT ![o] = @ \cup {d}] /\ game' = game /\ phase' = "convert"
        /\ o \in Reached
    BY <1>4 DEF AddByHand, FoundAgain
  <2>2. \A p \in Operands : addrs[p] \subseteq addrs'[p] /\ (p # o => addrs'[p] = addrs[p])
    BY <2>1 DEF TypeOK
  <2>3. Reached \subseteq Reached'
    BY <2>1, <2>2 DEF Reached, Found
  <2> QED BY <2>1, <2>2, <2>3 DEF FoundAgain
<1> QED
  BY <1>1, <1>2, <1>3, <1>4
  DEF Next, Refuse, Abort, ConvertFails, Retry, vars

\* The assertions of the labels hold whatever the game and its user do, as long as
\* the jumps are in the direct page.
LEMMA NeverAbortedCorrect == Spec => []NeverAborted
<1>1. Init => NeverAborted /\ FoundAgain
  BY DEF Init, NeverAborted, FoundAgain
<1>2. ASSUME TypeOK, FileInv, FoundAgain, Narrow
      PROVE  AllLabelled
  <2>1. \A o \in Operands : addrs[o] = IF o \in Listed THEN KnownOf(o) ELSE {}
    BY <1>2, ReadsBack
  <2> SUFFICES ASSUME NEW o \in Listed, NEW d \in KnownOf(o) PROVE d \in Labelled
    BY DEF AllLabelled
  <2>2. o \in Operands
    BY <1>2, ReadsBack DEF Declared
  <2>3. o \in FoundNow
    BY <1>2, <2>1, <2>2, FoundIs DEF FoundAgain
  <2> QED BY <2>3 DEF Labelled
<1>3. TypeOK /\ FileInv /\ FoundAgain /\ NeverAborted /\ [Next]_vars => NeverAborted'
  <2> SUFFICES ASSUME TypeOK, FileInv, FoundAgain, NeverAborted, [Next]_vars, phase' = "aborted"
               PROVE  ~Narrow'
    BY DEF NeverAborted
  <2>1. CASE Abort
    <3>1. ~Narrow
      BY <1>2, <2>1 DEF Abort
    <3>2. Declared \subseteq Declared'
      BY <2>1 DEF Abort, Declared, TypeOK
    <3> QED BY <3>1, <3>2 DEF Narrow
  <2>2. CASE UNCHANGED vars
    BY <2>2 DEF NeverAborted, vars, Narrow, Declared
  <2> QED
    BY <2>1, <2>2 DEF Next, Refuse, Convert, ConvertFails, Stop, AddByHand, Retry
<1>4. QED
  BY <1>1, <1>3, FoundAgainStep, CycleTypeCorrect, FileInvCorrect, PTL DEF Spec

\* Whatever the game and its user do, a file without jumps out of the direct page is
\* read back, and the destinations in it all have their labels.
THEOREM AlwaysConvertedCorrect == Spec => []AlwaysConverted
<1>1. NeverRefused /\ NeverAborted => AlwaysConverted
  BY DEF AlwaysConverted
<1>2. QED BY <1>1, NeverRefusedCorrect, NeverAbortedCorrect, PTL

\* The built rom knows exactly the destinations it once stopped on.
THEOREM TableExactCorrect == Spec => []TableExact
<1>1. FileInv => TableExact
  BY DEF FileInv, TableExact
<1>2. QED BY <1>1, FileInvCorrect, PTL

-----------------------------------------------------------------------------
(* The cycle gets somewhere.                                               *)

\* The destination on the screen was never asked for before.
ScreenIsNew == phase = "stopped" /\ Narrow => screen \cap asked = {}

\* The same destination is never added twice.
AskedOnce ==
  [][\A o \in Operands, d \in Dests : AddByHand(o, d) /\ Narrow => <<o, d>> \notin asked]_vars

LEMMA ScreenStep == TypeOK /\ FileInv /\ ScreenIsNew /\ [Next]_vars => ScreenIsNew'
<1> SUFFICES ASSUME TypeOK, FileInv, ScreenIsNew, [Next]_vars, phase' = "stopped", Narrow'
             PROVE  screen' \cap asked' = {}
  BY DEF ScreenIsNew
<1>1. ASSUME NEW o \in Operands, NEW d \in Dests, Stop(o, d)
      PROVE  screen' \cap asked' = {}
  <2>1. /\ phase = "built" /\ d \notin table[o] /\ screen' = {<<o, d>>} /\ asked' = asked
        /\ lines' = lines
    BY <1>1 DEF Stop
  <2>2. Narrow
    BY <2>1 DEF Narrow, Declared
  <2>3. table[o] = {e \in Dests : <<o, e>> \in asked}
    BY <2>1, <2>2 DEF FileInv
  <2> QED BY <2>1, <2>3
<1>2. CASE UNCHANGED vars
  BY <1>2 DEF ScreenIsNew, vars, Narrow, Declared
<1> QED
  BY <1>1, <1>2 DEF Next, Refuse, Convert, Abort, ConvertFails, AddByHand, Retry

\* Each turn of the cycle adds a pair of an operand and a destination that no
\* turn before it added, as long as the jumps are in the direct page: with
\* finitely many of them there are finitely many turns.
THEOREM AskedOnceCorrect == Spec => AskedOnce
<1>1. Init => ScreenIsNew
  BY DEF Init, ScreenIsNew
<1>2. ScreenIsNew => \A o \in Operands, d \in Dests : AddByHand(o, d) /\ Narrow => <<o, d>> \notin asked
  BY DEF ScreenIsNew, AddByHand
<1>3. ScreenIsNew /\ [Next]_vars =>
        [\A o \in Operands, d \in Dests : AddByHand(o, d) /\ Narrow => <<o, d>> \notin asked]_vars
  BY <1>2
<1> QED BY <1>1, <1>3, ScreenStep, CycleTypeCorrect, FileInvCorrect, PTL DEF Spec, AskedOnce

\* The built rom has a stub for whatever its disassembly found.
Explored ==
  phase \in {"built", "stopped"} =>
    /\ game.first \subseteq patched
    /\ \A o \in Operands : \A d \in table[o] : game.behind[d] \subseteq patched

LEMMA ExploredStep == TypeOK /\ Explored /\ [Next]_vars => Explored'
<1> SUFFICES ASSUME TypeOK, Explored, [Next]_vars PROVE Explored'
  OBVIOUS
<1>1. CASE Convert
  <2>1. /\ patched' = FoundNow /\ game' = game
        /\ table' = [o \in Operands |-> IF o \in Listed THEN KnownOf(o) ELSE {}]
    BY <1>1 DEF Convert
  <2>2. \A o \in Operands : table'[o] \subseteq UNION {KnownOf(r) : r \in Listed}
    BY <2>1
  <2>3. game.first \subseteq FoundNow
    BY DEF FoundNow, Found
  <2>4. \A d \in UNION {KnownOf(r) : r \in Listed} : game.behind[d] \subseteq FoundNow
    BY DEF FoundNow, Found
  <2> QED BY <2>1, <2>2, <2>3, <2>4 DEF Explored
<1>2. CASE /\ UNCHANGED <<game, patched, table>>
           /\ phase' \in {"built", "stopped"} => phase \in {"built", "stopped"}
  BY <1>2 DEF Explored
<1> QED
  BY <1>1, <1>2 DEF Next, Refuse, Abort, ConvertFails, Stop, AddByHand, Retry, vars

\* A rom on which the game no longer stops is complete, whatever its operands
\* are: an indirect jump hidden behind a destination was found when that
\* destination was converted.
THEOREM QuietIsComplete ==
  Spec => [](phase = "built" /\ (\A o \in patched : game.takes[o] \subseteq table[o]) => Complete)
<1>1. Init => Explored
  BY DEF Init, Explored
<1>2. TypeOK /\ Explored =>
        (phase = "built" /\ (\A o \in patched : game.takes[o] \subseteq table[o]) => Complete)
  BY DEF TypeOK, Explored, Complete
<1> QED BY <1>1, <1>2, ExploredStep, CycleTypeCorrect, PTL DEF Spec
=============================================================================
