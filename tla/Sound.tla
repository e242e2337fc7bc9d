-------------------------------- MODULE Sound --------------------------------
(***************************************************************************)
(* The length counters of the sound unit.  The game writes its registers   *)
(* straight into the ram; once a frame SoundAPURegUpdate, called from the  *)
(* vertical timer handler, finds the notes written (detect_changes), runs  *)
(* the counters (emulate_length_counter) and sends the registers to the    *)
(* sound processor (update_dsp).  The game is interrupted between two      *)
(* instructions, so that each write, and each update, is one step.         *)
(* Volumes, pitches and sweeps are left out.                               *)
(***************************************************************************)
EXTENDS Naturals

CONSTANTS
  Indexes,   \* values of the length registers: 0 for an empty one
  Length,    \* by value of the register, the byte read for length_d3_0 or
             \* length_d3_1.  TOWRAMBANK has set the data bank to $7E by then: it
             \* is a byte of the game, of its copy at $7E8000, and not of the tables
  Switches,  \* values the game writes to $4015
  SNDTMP4013, \* nothing writes this variable after the reset
  Garbage    \* what the reset may leave in the counters and in SNDTMP4016

Channels == {"sqr1", "sqr2", "tria", "noise"}

ASSUME SoundAssumption ==
  /\ Indexes \subseteq Nat /\ 0 \in Indexes
  /\ Length \in [Indexes -> Nat]
  /\ Switches \subseteq SUBSET Channels
  /\ SNDTMP4013 \in Indexes
  /\ Garbage \subseteq [counter : [Channels -> Nat], flags : SUBSET Channels]

VARIABLES
  len,       \* SNDSQR1LENPH4003, SNDSQR2LENPH4007, SNDNOISECTRL400B, SNDDMCDAC400F
  halt,      \* the bit of SNDSQR1CTRL4000 and the others that stops the counter
  switch,    \* SNDCHANSW4015
  counter,   \* square0_length, square1_length, triangle_length, noise_length
  flags,     \* SNDTMP4016, bits 0 to 3, between two updates
  status     \* SNDTMP4015: the channels the sound processor is told to play

lengthVars == <<len, halt, switch, counter, flags, status>>

LengthTypeOK ==
  /\ len \in [Channels -> Indexes] /\ halt \in [Channels -> BOOLEAN]
  /\ switch \in Switches \cup {{}} /\ counter \in [Channels -> Nat]
  /\ flags \subseteq Channels /\ status \subseteq Channels

\* Bank $7E is cleared at reset, but the ram of the emulation is filled with
\* an accumulator that was not loaded.  The $0F meant for $4015 is written while
\* the data bank is still 0.
LengthInit ==
  /\ len = [c \in Channels |-> 0] /\ halt = [c \in Channels |-> FALSE]
  /\ switch = {}
  /\ \E g \in Garbage : counter = g.counter /\ flags = g.flags
  /\ status = {}

-----------------------------------------------------------------------------
(* The game.                                                               *)

WriteLength(c, i) ==
  /\ len' = [len EXCEPT ![c] = i]
  /\ UNCHANGED <<halt, switch, counter, flags, status>>

WriteControl(c, h) ==
  /\ halt' = [halt EXCEPT ![c] = h]
  /\ UNCHANGED <<len, switch, counter, flags, status>>

WriteSwitch(s) ==
  /\ switch' = s
  /\ UNCHANGED <<len, halt, counter, flags, status>>

-----------------------------------------------------------------------------
(* detect_changes.                                                         *)

\* Mutant of Taken: the register of a stopped channel is taken as well.
TakenAlways(c) == len[c] # 0

\* A note is taken, and its register emptied, unless the counter is stopped.
Taken(c) == ~halt[c] /\ len[c] # 0

\* Mutant of Flagged: the noise does not clear the bit square 2 has set.
FlaggedNoise(c) ==
  \/ Taken(c)
  \/ halt[c] /\ c \in flags
  \/ c = "noise" /\ Taken("sqr2")

\* Bits 0 to 3 of SNDTMP4016.  The bit of a stopped counter stays as it was.
\* For square 2 the constant is written in decimal, 10: the bit of the noise
\* channel is set too.
Flagged(c) ==
  \/ Taken(c)
  \/ halt[c] /\ c \in flags
  \/ halt[c] /\ c = "noise" /\ Taken("sqr2")

Detected(c) == IF Taken(c) THEN 0 ELSE len[c]

-----------------------------------------------------------------------------
(* emulate_length_counter.                                                 *)

\* Square 1 reads SNDTMP4013 in place of SNDTMP4003.
Index(c) == IF c = "sqr1" THEN SNDTMP4013 ELSE len[c]

Loaded(c) == IF Flagged(c) THEN Length[Index(c)] ELSE counter[c]

\* Mutant of Counted: a counter at zero goes on.
CountedBelow(c) == IF halt[c] THEN Loaded(c) ELSE Loaded(c) - 1

Counted(c) == IF halt[c] \/ Loaded(c) = 0 THEN Loaded(c) ELSE Loaded(c) - 1

Sounding(c) == halt[c] \/ Loaded(c) # 0

SoundAPURegUpdate ==
  /\ len' = [c \in Channels |-> Detected(c)]
  /\ counter' = [c \in Channels |-> Counted(c)]
  /\ flags' = {}
  /\ status' = {c \in switch : Sounding(c)}
  /\ UNCHANGED <<halt, switch>>

LengthNext ==
  \/ \E c \in Channels, i \in Indexes : WriteLength(c, i)
  \/ \E c \in Channels, h \in BOOLEAN : WriteControl(c, h)
  \/ \E s \in Switches : WriteSwitch(s)
  \/ SoundAPURegUpdate

\* The timer chain updates the sound in every frame it is not astray in.
LengthSpec == LengthInit /\ [][LengthNext]_lengthVars /\ WF_lengthVars(SoundAPURegUpdate)

-----------------------------------------------------------------------------
(* Correctness.                                                            *)

\* All the notes of square 1 have the same length.
Square1 == INSTANCE NesLength WITH
  Length <- [i \in Indexes |-> Length[SNDTMP4013]],
  note <- len["sqr1"], halted <- halt["sqr1"], switched <- "sqr1" \in switch,
  left <- counter["sqr1"], dirty <- flags # {},
  heard <- "sqr1" \in status

Square2 == INSTANCE NesLength WITH
  note <- len["sqr2"], halted <- halt["sqr2"], switched <- "sqr2" \in switch,
  left <- counter["sqr2"], dirty <- flags # {},
  heard <- "sqr2" \in status

Triangle == INSTANCE NesLength WITH
  note <- len["tria"], halted <- halt["tria"], switched <- "tria" \in switch,
  left <- counter["tria"], dirty <- flags # {},
  heard <- "tria" \in status

\* Each of the three channels keeps its own time: the flags and the registers
\* they share with the others, and the order in which the game writes them,
\* never start, shorten or lengthen a note of theirs, that of length zero included.
LengthsLikeNes == Square1!Spec /\ Square2!Spec /\ Triangle!Spec

\* A channel whose counter runs, the noise included, falls silent once the game
\* writes it no more notes, whatever it goes on writing to the others.
NotesEnd ==
  \A c \in Channels : <>[](~halt[c] /\ len[c] = 0) => <>[](c \notin status)
=============================================================================
