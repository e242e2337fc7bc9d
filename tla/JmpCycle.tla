------------------------------ MODULE JmpCycle ------------------------------
(***************************************************************************)
(* The indirect jump conversion cycle (the comment at the head of          *)
(* indirectJmp.cpp): a conversion reads the configuration file of the rom, *)
(* disassembles, appends the indirect jumps it discovers to the file and   *)
(* builds a rom that stops on an unknown destination; its operand and its  *)
(* destination are added to the file by hand, and the rom converted again. *)
(*                                                                         *)
(* The disassembly itself is module Disasm; here only the operands of the  *)
(* indirect jumps through ram that it finds matter.  The file is abstracted*)
(* to the blocks that declare jumps: an "IndirectJump:" line and the       *)
(* "addr:" lines below it.                                                 *)
(***************************************************************************)
EXTENDS Naturals, FiniteSets

CONSTANTS
  Operands,   \* operands of indirect jumps: addresses in ram
  Dests,      \* addresses of code in the PRG rom
  Games       \* the roms considered

\* first:  operands of the jumps the disassembly finds from the vectors
\* behind: operands of those it finds in the code at a destination
\* takes:  the destinations the game really jumps to
GameType == [first  : SUBSET Operands,
             behind : [Dests -> SUBSET Operands],
             takes  : [Operands -> SUBSET Dests]]

ASSUME CycleAssumption ==
  /\ Operands \subseteq Nat
  /\ \A g \in Games : g \in GameType

VARIABLES
  game,     \* the rom, fixed
  phase,    \* convert, built, stopped, failed, aborted or refused
  lines,    \* lines[o]: number of IndirectJump lines written for operand o
  addrs,    \* addrs[o]: addr lines below them
  table,    \* table[o]: destinations the built rom knows for operand o
  patched,  \* operands of the indirect jumps of the built rom
  screen,   \* the <<operand, destination>> the rom stopped on
  asked     \* history: all that was ever shown and added by hand

vars == <<game, phase, lines, addrs, table, patched, screen, asked>>

Phases == {"convert", "built", "stopped", "failed", "aborted", "refused"}

TypeOK ==
  /\ game \in GameType /\ phase \in Phases /\ lines \in [Operands -> Nat]
  /\ addrs \in [Operands -> SUBSET Dests]
  /\ table \in [Operands -> SUBSET Dests]
  /\ patched \subseteq Operands
  /\ screen \subseteq Operands \X Dests
  /\ asked \subseteq Operands \X Dests

\* No configuration file yet: open_data fails and init goes on without one.
Init ==
  /\ game \in Games /\ phase = "convert" /\ lines = [o \in Operands |-> 0]
  /\ addrs = [o \in Operands |-> {}] /\ table = [o \in Operands |-> {}]
  /\ patched = {} /\ screen = {} /\ asked = {}

-----------------------------------------------------------------------------
(* Reading the file.                                                       *)

\* writenewjumps prints an operand with %02X: two digits or more.  The lexer
\* takes two digits for a byte and four for a word: of three digits it takes
\* the first two and echoes the last one.
ReadBack(o) == IF o < 256 THEN o ELSE o \div 16
IsByte(o)   == o < 4096

Declared == {o \in Operands : lines[o] > 0}

\* The operand of an IndirectJump line must be a byte, and no operand may be
\* declared twice (list_add_jopaddr).
Readable ==
  /\ \A o \in Declared : IsByte(o) /\ lines[o] = 1
  /\ \A o, p \in Declared : ReadBack(o) = ReadBack(p) => o = p

\* Mutant of KnownOf: the addr lines of every operand.
KnownOfAny(r) == UNION {addrs[o] : o \in Declared}

\* m_jmplist once the file is read: its operands, and the destinations of each.
Listed     == {ReadBack(o) : o \in Declared}
KnownOf(r) == UNION {addrs[o] : o \in {p \in Declared : ReadBack(p) = r}}

\* Mutant of Found: the known destinations are not disassembled.
FoundFirst(D) == game.first

\* The operands of the jumps a disassembly finds with destinations D known.
Found(D) == game.first \cup UNION {game.behind[d] : d \in D}

FoundNow == Found(UNION {KnownOf(r) : r \in Listed})
NewOps   == FoundNow \ Listed

\* Mutant of Labelled: only the jumps found from the vectors give labels.
LabelledFirst == UNION {KnownOf(r) : r \in Listed \cap game.first}

\* The destinations that get the label of an indirect jump: those the file gives
\* for the operand of a jump that is found (add_known_branches).
Labelled == UNION {KnownOf(r) : r \in Listed \cap FoundNow}

\* What writeIndJumproutines asserts of the destinations of every operand listed.
AllLabelled == \A r \in Listed : KnownOf(r) \subseteq Labelled

-----------------------------------------------------------------------------
(* A conversion: init, disasm, update_indjump_file, recompile.             *)

\* build_list throws: init reports an error and nothing is converted.
Refuse ==
  /\ phase = "convert"
  /\ ~Readable
  /\ phase' = "refused"
  /\ UNCHANGED <<game, lines, addrs, table, patched, screen, asked>>

\* Mutants of Convert: every jump is appended, not the new ones only; the
\* built rom has no entry for an operand without destination.
ConvertAll ==
  /\ phase = "convert"
  /\ Readable /\ AllLabelled
  /\ lines' = [o \in Operands |-> lines[o] + IF o \in FoundNow THEN 1 ELSE 0]
  /\ table' = [o \in Operands |-> IF o \in Listed THEN KnownOf(o) ELSE {}]
  /\ patched' = FoundNow
  /\ phase' = "built"
  /\ UNCHANGED <<game, addrs, screen, asked>>
ConvertListed ==
  /\ phase = "convert"
  /\ Readable /\ AllLabelled
  /\ lines' = [o \in Operands |-> lines[o] + IF o \in NewOps THEN 1 ELSE 0]
  /\ table' = [o \in Listed |-> KnownOf(o)]
  /\ patched' = FoundNow
  /\ phase' = "built"
  /\ UNCHANGED <<game, addrs, screen, asked>>

\* The new jumps are appended without destinations, the rom knows what the
\* file gave.
Convert ==
  /\ phase = "convert"
  /\ Readable /\ AllLabelled
  /\ lines' = [o \in Operands |-> lines[o] + IF o \in NewOps THEN 1 ELSE 0]
  /\ table' = [o \in Operands |-> IF o \in Listed THEN KnownOf(o) ELSE {}]
  /\ patched' = FoundNow
  /\ phase' = "built"
  /\ UNCHANGED <<game, addrs, screen, asked>>

\* An operand listed that is not the operand of any jump found, as $20 read back
\* for $200, has destinations without a label: upernes dies on its assertion, after
\* the new jumps were appended, and convert.sh makes no rom.
Abort ==
  /\ phase = "convert"
  /\ Readable /\ ~AllLabelled
  /\ lines' = [o \in Operands |-> lines[o] + IF o \in NewOps THEN 1 ELSE 0]
  /\ phase' = "aborted"
  /\ UNCHANGED <<game, addrs, table, patched, screen, asked>>

\* The file cannot be opened to add the new jumps: disasm gives up before it
\* lists the port accesses, and the recompilation misses their routines.
ConvertFails ==
  /\ phase = "convert"
  /\ Readable
  /\ NewOps # {}
  /\ phase' = "failed"
  /\ UNCHANGED <<game, lines, addrs, table, patched, screen, asked>>

-----------------------------------------------------------------------------
(* The game and its user.                                                  *)

\* The game jumps to a destination its IndJmp routine does not know.
Stop(o, d) ==
  /\ phase = "built"
  /\ o \in patched
  /\ d \in game.takes[o] \ table[o]
  /\ phase' = "stopped"
  /\ screen' = {<<o, d>>}
  /\ UNCHANGED <<game, lines, addrs, table, patched, asked>>

\* The destination is added below the line of the operand (which is written
\* too when the file has none), and the rom converted again.
AddByHand(o, d) ==
  /\ phase = "stopped"
  /\ screen = {<<o, d>>}
  /\ lines' = [lines EXCEPT ![o] = IF @ = 0 THEN 1 ELSE @]
  /\ addrs' = [addrs EXCEPT ![o] = @ \cup {d}]
  /\ asked' = asked \cup screen
  /\ screen' = {}
  /\ phase' = "convert"
  /\ UNCHANGED <<game, table, patched>>

Retry ==
  /\ phase \in {"failed", "aborted"}
  /\ phase' = "convert"
  /\ UNCHANGED <<game, lines, addrs, table, patched, screen, asked>>

Next ==
  \/ Refuse
  \/ Convert
  \/ Abort
  \/ ConvertFails
  \/ \E o \in Operands, d \in Dests : Stop(o, d) \/ AddByHand(o, d)
  \/ Retry

\* The file can be opened in the end, the game is played and the user keeps
\* the cycle going.
Spec == Init /\ [][Next]_vars /\ WF_vars(Next) /\ SF_vars(Convert)

-----------------------------------------------------------------------------
(* Correctness.                                                            *)

\* Every operand declared so far is in the direct page.
Narrow == \A o \in Declared : o < 256

\* A file only the program and its user wrote is read back, as long as its
\* jumps are in the direct page: the appended lines never clash with the ones
\* of a previous conversion.
NeverRefused == phase = "refused" => ~Narrow

\* The assertions of the labels hold as long as the jumps are in the direct page:
\* a jump the game once stopped on is found again by every later conversion,
\* behind whatever destination it was hidden.
NeverAborted == phase = "aborted" => ~Narrow

\* As long as the jumps are in the direct page a conversion only fails to give a rom
\* because its files cannot be written: never because of what former ones, or the
\* user, have left in the file.
AlwaysConverted == NeverRefused /\ NeverAborted

\* The built rom knows, for each operand, exactly the destinations it once
\* stopped on for that operand: none is lost between the conversions, none
\* is attached to another jump.
TableExact ==
  phase \in {"built", "stopped"} /\ Narrow =>
    \A o \in Operands : table[o] = {d \in Dests : <<o, d>> \in asked}

\* The inductive strengthening of both: the file holds what was asked, one
\* line to an operand.
FileInv ==
  /\ \A o \in Operands : addrs[o] = {d \in Dests : <<o, d>> \in asked}
  /\ Narrow => \A o \in Operands : lines[o] \in {0, 1}
  /\ \A o \in Operands : addrs[o] # {} => o \in Declared
  /\ phase \in {"built", "stopped"} /\ Narrow =>
       \A o \in Operands : table[o] = addrs[o]

Complete ==
  /\ phase = "built"
  /\ game.first \subseteq patched
  /\ \A o \in patched : /\ game.takes[o] \subseteq table[o]
                        /\ \A d \in game.takes[o] : game.behind[d] \subseteq patched

\* The cycle ends, with a rom that knows every destination of every jump it
\* can come to: what README.md promises, for jumps in the direct page.
Converges ==
  (game.first \cup UNION {game.behind[d] : d \in Dests} \subseteq 0..255)
    => <>[]Complete

\* README.md, for every game: convert again "until all the indirect jumps are
\* known".
AllJumpsKnown == <>[]Complete
=============================================================================
