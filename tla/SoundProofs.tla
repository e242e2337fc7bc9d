----------------------------- MODULE SoundProofs -----------------------------
(* Theorems about the sound: the length counters (module Sound), for any set *)
(* of length values and any lengths; then the two processors (module SpcPort), *)
(* for any program, any number of registers and any size of a byte. The two  *)
(* modules share no variable.                                                *)
EXTENDS Sound, SpcPort, TLAPS

(* A counter is loaded with a number, and does not go below zero. *)
LEMMA CountedType ==
  ASSUME LengthTypeOK, NEW c \in Channels
  PROVE  Counted(c) \in Nat
<1>1. Length[Index(c)] \in Nat
  BY SoundAssumption DEF LengthTypeOK, Index
<1>2. Loaded(c) \in Nat
  BY <1>1 DEF Loaded, LengthTypeOK
<1> QED BY <1>2 DEF Counted

(* Every step keeps the types. *)
LEMMA LengthTypeStep == LengthTypeOK /\ [LengthNext]_lengthVars => LengthTypeOK'
<1> SUFFICES ASSUME LengthTypeOK, [LengthNext]_lengthVars PROVE LengthTypeOK'
  OBVIOUS
<1>1. ASSUME NEW c \in Channels, NEW i \in Indexes, WriteLength(c, i)
      PROVE  LengthTypeOK'
  BY <1>1 DEF LengthTypeOK, WriteLength
<1>2. ASSUME NEW c \in Channels, NEW h \in BOOLEAN, WriteControl(c, h)
      PROVE  LengthTypeOK'
  BY <1>2 DEF LengthTypeOK, WriteControl
<1>3. ASSUME NEW s \in Switches, WriteSwitch(s)
      PROVE  LengthTypeOK'
  BY <1>3 DEF LengthTypeOK, WriteSwitch
<1>4. CASE SoundAPURegUpdate
  <2>1. len' \in [Channels -> Indexes]
    BY <1>4, SoundAssumption DEF LengthTypeOK, SoundAPURegUpdate, Detected
  <2>2. counter' \in [Channels -> Nat]
    BY <1>4, CountedType DEF SoundAPURegUpdate
  <2>3. status' \subseteq Channels
    BY <1>4, SoundAssumption DEF LengthTypeOK, SoundAPURegUpdate
  <2> QED BY <1>4, <2>1, <2>2, <2>3 DEF LengthTypeOK, SoundAPURegUpdate
<1>5. CASE UNCHANGED lengthVars
  BY <1>5 DEF LengthTypeOK, lengthVars
<1> QED BY <1>1, <1>2, <1>3, <1>4, <1>5 DEF LengthNext

LEMMA LengthTypeInit == LengthInit => LengthTypeOK
  BY SoundAssumption DEF LengthInit, LengthTypeOK

(* The sound emulation keeps its types: no counter goes below zero.           *)
THEOREM LengthTypeCorrect == LengthSpec => []LengthTypeOK
  BY LengthTypeInit, LengthTypeStep, PTL DEF LengthSpec

-----------------------------------------------------------------------------
(* The channels.                                                           *)

(* What one step does to one channel other than the noise, whose notes last *)
(* as Lasts says: it writes it, or it is an update of that channel alone.   *)
Lasts(c) == Length[Index(c)]

Writes(c) ==
  /\ counter'[c] = counter[c] /\ flags' = flags /\ (c \in status') = (c \in status)
  /\ \/ len'[c] \in Indexes /\ halt'[c] = halt[c] /\ (c \in switch') = (c \in switch)
     \/ halt'[c] \in BOOLEAN /\ len'[c] = len[c] /\ (c \in switch') = (c \in switch)
     \/ (c \in switch') \in BOOLEAN /\ len'[c] = len[c] /\ halt'[c] = halt[c]

Updates(c) ==
  /\ halt'[c] = halt[c] /\ (c \in switch') = (c \in switch) /\ flags' = {}
  /\ \/ /\ halt[c] /\ counter'[c] \in Nat
        /\ flags # {} \/ counter'[c] = counter[c]
        /\ len'[c] = len[c]
        /\ (c \in status') = (c \in switch)
     \/ /\ ~halt[c] /\ len[c] # 0
        /\ len'[c] = 0
        /\ counter'[c] = IF Lasts(c) = 0 THEN 0 ELSE Lasts(c) - 1
        /\ (c \in status') = (c \in switch /\ Lasts(c) # 0)
     \/ /\ ~halt[c] /\ len[c] = 0 /\ counter[c] > 0
        /\ len'[c] = len[c] /\ counter'[c] = counter[c] - 1
        /\ (c \in status') = (c \in switch)
     \/ /\ ~halt[c] /\ len[c] = 0 /\ counter[c] = 0
        /\ len'[c] = len[c] /\ counter'[c] = counter[c]
        /\ (c \in status') = FALSE

(* An update treats a channel other than the noise by its own registers. *)
LEMMA UpdateStep ==
  ASSUME LengthTypeOK, SoundAPURegUpdate, NEW c \in Channels \ {"noise"}
  PROVE  Updates(c)
<1>1. /\ len'[c] = Detected(c) /\ counter'[c] = Counted(c)
      /\ (c \in status') = (c \in switch /\ Sounding(c))
      /\ halt' = halt /\ switch' = switch /\ flags' = {}
  BY DEF SoundAPURegUpdate
<1>2. /\ ~halt[c] => (Flagged(c) <=> len[c] # 0)
      /\ flags = {} => (Flagged(c) <=> Taken(c))
  BY DEF Flagged, Taken
<1>3. Index(c) \in Indexes /\ Lasts(c) \in Nat /\ counter[c] \in Nat
  BY SoundAssumption DEF LengthTypeOK, Index, Lasts
<1>4. halt[c] \in BOOLEAN
  BY DEF LengthTypeOK
<1>5. CASE halt[c]
  <2>1. ~Taken(c) /\ Sounding(c) /\ Counted(c) \in Nat
    BY <1>5, CountedType DEF Taken, Sounding
  <2>2. Detected(c) = len[c] /\ (flags # {} \/ Counted(c) = counter[c])
    BY <1>2, <2>1, <1>5 DEF Detected, Counted, Loaded
  <2> QED BY <1>1, <1>5, <2>1, <2>2 DEF Updates
<1>6. CASE ~halt[c] /\ len[c] # 0
  <2>1. Taken(c) /\ Flagged(c)
    BY <1>2, <1>6 DEF Taken
  <2>2. Loaded(c) = Lasts(c)
    BY <2>1 DEF Loaded, Lasts
  <2>3. /\ Sounding(c) <=> Lasts(c) # 0
        /\ Counted(c) = IF Lasts(c) = 0 THEN 0 ELSE Lasts(c) - 1
        /\ Detected(c) = 0
    BY <1>3, <1>6, <2>1, <2>2 DEF Sounding, Counted, Detected
  <2> QED BY <1>1, <1>6, <2>3 DEF Updates
<1>7. CASE ~halt[c] /\ len[c] = 0
  <2>1. ~Taken(c) /\ ~Flagged(c)
    BY <1>2, <1>7 DEF Taken
  <2>2. Loaded(c) = counter[c] /\ Detected(c) = len[c]
    BY <2>1 DEF Loaded, Detected
  <2>3. CASE counter[c] = 0
    <3>1. ~Sounding(c) /\ Counted(c) = counter[c]
      BY <1>7, <2>2, <2>3 DEF Sounding, Counted
    <3> QED BY <1>1, <1>7, <2>2, <2>3, <3>1 DEF Updates
  <2>4. CASE counter[c] > 0
    <3>1. Sounding(c) /\ Counted(c) = counter[c] - 1
      BY <1>3, <1>7, <2>2, <2>4 DEF Sounding, Counted
    <3> QED BY <1>1, <1>7, <2>2, <2>4, <3>1 DEF Updates
  <2> QED BY <1>3, <2>3, <2>4
<1> QED BY <1>5, <1>6, <1>7

LEMMA ChannelStep ==
  ASSUME LengthTypeOK, LengthNext, NEW c \in Channels \ {"noise"}
  PROVE  Writes(c) \/ Updates(c)
<1>1. ASSUME NEW d \in Channels, NEW i \in Indexes, WriteLength(d, i)
      PROVE  Writes(c)
  BY <1>1 DEF LengthTypeOK, WriteLength, Writes
<1>2. ASSUME NEW d \in Channels, NEW h \in BOOLEAN, WriteControl(d, h)
      PROVE  Writes(c)
  BY <1>2 DEF LengthTypeOK, WriteControl, Writes
<1>3. ASSUME NEW s \in Switches, WriteSwitch(s)
      PROVE  Writes(c)
  BY <1>3 DEF LengthTypeOK, WriteSwitch, Writes
<1>4. CASE SoundAPURegUpdate
  BY <1>4, UpdateStep
<1> QED BY <1>1, <1>2, <1>3, <1>4 DEF LengthNext

(* Square 1, with all its notes of one length. *)
LEMMA Square1Step == LengthTypeOK /\ [LengthNext]_lengthVars => [Square1!Next]_(Square1!vars)
<1> SUFFICES ASSUME LengthTypeOK, [LengthNext]_lengthVars PROVE [Square1!Next]_(Square1!vars)
  OBVIOUS
<1>1. CASE UNCHANGED lengthVars
  BY <1>1 DEF lengthVars, Square1!vars
<1>2. CASE LengthNext
  <2>1. Writes("sqr1") \/ Updates("sqr1")
    BY <1>2, ChannelStep DEF Channels
  <2>2. len["sqr1"] \in Indexes /\ Lasts("sqr1") = Length[SNDTMP4013]
    BY DEF LengthTypeOK, Channels, Lasts, Index
  <2> QED BY <2>1, <2>2 DEF Writes, Updates, Square1!Next, Square1!Play, Square1!Halt,
       Square1!Switch, Square1!Hold, Square1!Start, Square1!Continue, Square1!Silence
<1> QED BY <1>1, <1>2

LEMMA Square2Step == LengthTypeOK /\ [LengthNext]_lengthVars => [Square2!Next]_(Square2!vars)
<1> SUFFICES ASSUME LengthTypeOK, [LengthNext]_lengthVars PROVE [Square2!Next]_(Square2!vars)
  OBVIOUS
<1>1. CASE UNCHANGED lengthVars
  BY <1>1 DEF lengthVars, Square2!vars
<1>2. CASE LengthNext
  <2>1. Writes("sqr2") \/ Updates("sqr2")
    BY <1>2, ChannelStep DEF Channels
  <2>2. Lasts("sqr2") = Length[len["sqr2"]]
    BY DEF Lasts, Index
  <2> QED BY <2>1, <2>2 DEF Writes, Updates, Square2!Next, Square2!Play, Square2!Halt,
       Square2!Switch, Square2!Hold, Square2!Start, Square2!Continue, Square2!Silence
<1> QED BY <1>1, <1>2

LEMMA TriangleStep == LengthTypeOK /\ [LengthNext]_lengthVars => [Triangle!Next]_(Triangle!vars)
<1> SUFFICES ASSUME LengthTypeOK, [LengthNext]_lengthVars PROVE [Triangle!Next]_(Triangle!vars)
  OBVIOUS
<1>1. CASE UNCHANGED lengthVars
  BY <1>1 DEF lengthVars, Triangle!vars
<1>2. CASE LengthNext
  <2>1. Writes("tria") \/ Updates("tria")
    BY <1>2, ChannelStep DEF Channels
  <2>2. Lasts("tria") = Length[len["tria"]]
    BY DEF Lasts, Index
  <2> QED BY <2>1, <2>2 DEF Writes, Updates, Triangle!Next, Triangle!Play, Triangle!Halt,
       Triangle!Switch, Triangle!Hold, Triangle!Start, Triangle!Continue, Triangle!Silence
<1> QED BY <1>1, <1>2

(* Squares and triangle keep their own time, whatever is written to the other *)
(* channels: each of them implements a channel of the NES, step by step.       *)
THEOREM LengthsCorrect == LengthSpec => LengthsLikeNes
<1>1. LengthInit => Square1!Init /\ Square2!Init /\ Triangle!Init
  BY SoundAssumption DEF LengthInit, Channels, Square1!Init, Square2!Init, Triangle!Init
<1>2. LengthSpec => []LengthTypeOK
  BY LengthTypeCorrect
<1> QED
  BY <1>1, <1>2, Square1Step, Square2Step, TriangleStep, PTL
  DEF LengthSpec, LengthsLikeNes, Square1!Spec, Square2!Spec, Triangle!Spec

-----------------------------------------------------------------------------
(* Every note ends: the half of NotesEnd that needs no fairness.           *)

(* A channel whose counter runs and that has no note left. *)
LastNote(c) == ~halt[c] /\ len[c] = 0

(* Its counter is a variant: no step brings it up, an update brings it down *)
(* or finds the channel silent, and a silent channel stays so.              *)
RunsDown ==
  [][\A c \in Channels : LastNote(c) =>
       /\ counter'[c] <= counter[c]
       /\ SoundAPURegUpdate => counter'[c] < counter[c] \/ c \notin status'
       /\ counter[c] = 0 /\ c \notin status => c \notin status']_lengthVars

LEMMA RunsDownStep ==
  ASSUME LengthTypeOK, LengthNext, NEW c \in Channels, LastNote(c)
  PROVE  /\ counter'[c] <= counter[c]
         /\ SoundAPURegUpdate => counter'[c] < counter[c] \/ c \notin status'
         /\ counter[c] = 0 /\ c \notin status => c \notin status'
<1>1. counter[c] \in Nat
  BY DEF LengthTypeOK
<1>2. CASE SoundAPURegUpdate
  <2>1. ~Flagged(c) /\ Loaded(c) = counter[c]
    BY DEF LastNote, Flagged, Taken, Loaded
  <2>2. counter'[c] = IF counter[c] = 0 THEN counter[c] ELSE counter[c] - 1
    BY <1>2, <2>1 DEF SoundAPURegUpdate, Counted, LastNote
  <2>3. c \in status' => counter[c] # 0
    BY <1>2, <2>1 DEF SoundAPURegUpdate, Sounding, LastNote
  <2> QED BY <1>1, <2>2, <2>3
<1>3. CASE ~SoundAPURegUpdate
  <2>1. counter' = counter /\ status' = status
    BY <1>3 DEF LengthNext, WriteLength, WriteControl, WriteSwitch
  <2> QED BY <1>1, <1>3, <2>1
<1> QED BY <1>2, <1>3

(* NotesEnd but for the fairness, for the noise as for the others: after as   *)
(* many updates as its counter counts, and one, a channel is silent, whatever *)
(* flags are left and whatever the game writes to the others.                 *)
THEOREM RunsDownCorrect == LengthSpec => RunsDown
<1>1. LengthTypeOK /\ [LengthNext]_lengthVars =>
        [\A c \in Channels : LastNote(c) =>
           /\ counter'[c] <= counter[c]
           /\ SoundAPURegUpdate => counter'[c] < counter[c] \/ c \notin status'
           /\ counter[c] = 0 /\ c \notin status => c \notin status']_lengthVars
  BY RunsDownStep
<1> QED BY <1>1, LengthTypeCorrect, PTL DEF LengthSpec, RunsDown

-----------------------------------------------------------------------------
(* The two processors.                                                     *)

Stored(n) == \A a \in 0..n - 1 : ram[a] = Program[a]

Late == {"stop", "end", "game", "ready", "go", "xfer", "reply"}

(* The boot rom waits to be called.                                          *)
Hello ==
  cpu \in {"hello", "block", "kick"} =>
    /\ spc \in {"reset", "boot"} /\ in0 = 0
    /\ (cpu # "hello" => spc = "boot")
    /\ (spc = "reset" => out0 = 0) /\ (spc = "boot" => out0 = HELLO0)
    /\ y = 0 /\ (cpu = "kick" => in1 = 1)

Kicked ==
  cpu = "kicked" =>
    /\ y = 0 /\ in0 = KICK /\ in1 = 1
    /\ \/ spc = "boot" /\ out0 = HELLO0
       \/ spc = "first" /\ out0 = KICK

(* Bytes 0 to y - 1 are there; the sound processor waits for byte y.         *)
Sending ==
  cpu \in {"send", "index"} =>
    /\ y < Size /\ Stored(y)
    /\ (cpu = "index" => in1 = Program[y])
    /\ \/ y = 0 /\ spc = "first" /\ in0 = KICK /\ out0 = KICK
       \/ y > 0 /\ spc = "data" /\ k = y /\ in0 = Low(y - 1) /\ out0 = Low(y - 1)

(* It has byte y or it has not yet, and the main processor sees which.       *)
Sent ==
  cpu = "sent" =>
    /\ y < Size /\ Stored(y) /\ in0 = Low(y) /\ in1 = Program[y]
    /\ \/ y = 0 /\ spc = "first" /\ out0 # Low(y)
       \/ spc = "data" /\ k = y /\ out0 # Low(y)
       \/ spc = "data" /\ k = y + 1 /\ out0 = Low(y) /\ Stored(y + 1)

Ending ==
  cpu \in {"stop", "end"} =>
    /\ spc = "data" /\ k = Size /\ in0 = Low(Size - 1) /\ out0 = Low(Size - 1)
    /\ IF cpu = "stop" THEN y = Size ELSE y = Size + 2 /\ in1 = 0

Uploaded == cpu \in Late => ram = Program

(* Between two updates: the program is about to start, or it computes.       *)
Idle ==
  cpu \in {"game", "ready"} =>
    /\ cpu = "ready" => last = in1
    /\ \/ spc = "data" /\ k = Size /\ in0 = Low(Size + 2) /\ in1 = 0 /\ out0 = Low(Size - 1)
       \/ spc = "start" /\ in1 = 0 /\ out0 = Low(Size + 2)
       \/ spc = "main" /\ in0 \in Regs /\ out0 # READY
       \/ spc = "poll" /\ in0 \in Regs /\ out0 = READY

Going ==
  cpu = "go" =>
    /\ in0 = GO /\ last = in1
    /\ \/ spc = "poll" /\ out0 = READY
       \/ spc = "xfer" /\ k = 0 /\ out0 = GO

Heard(n) == \A r \in 0..n - 1 : apu[r] \in {snd[r], Before(r)}

(* The sound processor has taken register x or it has not yet.               *)
Transfer ==
  cpu \in {"xfer", "reply"} =>
    /\ in0 = x
    /\ in1 = IF cpu = "xfer" THEN Before(x) ELSE snd[x]
    /\ \/ spc = "xfer" /\ k = x /\ out0 # x /\ Heard(x)
       \/ k = x + 1 /\ out0 = x /\ Heard(x + 1)
          /\ spc = IF k = NReg THEN "main" ELSE "xfer"

(* Nothing is sent yet, or all of it is.                                     *)
Settled == cpu \notin {"ready", "go", "xfer", "reply"} => Heard(NReg)

IInv ==
  /\ TypeOK
  /\ Hello /\ Kicked /\ Sending /\ Sent /\ Ending /\ Uploaded
  /\ Idle /\ Going /\ Transfer /\ Settled

(* An index and the one before it differ in a byte of any size.             *)
LEMMA LowFacts ==
  ASSUME NEW a \in Nat
  PROVE  /\ Low(a) \in Bytes
         /\ Low(a + 1) = IF Low(a) = Byte - 1 THEN 0 ELSE Low(a) + 1
<1>0. Byte \in Nat /\ Byte >= 4
  BY SpcAssumption
<1> DEFINE q == a \div Byte
<1> DEFINE r == a % Byte
<1>1. a = (Byte * q) + r /\ r \in 0..Byte - 1 /\ q \in Nat
  BY <1>0
<1> HIDE DEF q, r
<1>2. ASSUME NEW n \in Nat, NEW s \in 0..Byte - 1
      PROVE  ((Byte * n) + s) % Byte = s
  BY <1>0
<1>3. CASE r = Byte - 1
  <2>1. a + 1 = (Byte * (q + 1)) + 0 /\ q + 1 \in Nat
    BY <1>0, <1>1, <1>3
  <2>2. (a + 1) % Byte = 0
    BY <1>0, <1>2, <2>1
  <2> QED BY <1>1, <1>3, <2>2 DEF Low, Bytes, r
<1>4. CASE r # Byte - 1
  <2>1. a + 1 = (Byte * q) + (r + 1) /\ r + 1 \in 0..Byte - 1
    BY <1>0, <1>1, <1>4
  <2>2. (a + 1) % Byte = r + 1
    BY <1>0, <1>1, <1>2, <2>1
  <2> QED BY <1>1, <1>4, <2>2 DEF Low, Bytes, r
<1> QED BY <1>3, <1>4

LEMMA LowZero == Low(0) = 0
  BY SpcAssumption DEF Low

(* Only an index two further calls the boot rom.                             *)
LEMMA AheadFacts ==
  ASSUME NEW a \in Nat
  PROVE  /\ Low(a) # Low(a + 1) /\ Low(a) # Low(a + 2)
         /\ ~Ahead(Low(a), Low(a)) /\ ~Ahead(Low(a), Low(a + 1))
         /\ Ahead(Low(a + 2), Low(a))
<1>1. Low(a) \in Bytes
      /\ Low(a + 1) = (IF Low(a) = Byte - 1 THEN 0 ELSE Low(a) + 1)
      /\ Low(a + 2) = (IF Low(a + 1) = Byte - 1 THEN 0 ELSE Low(a + 1) + 1)
  <2>1. (a + 1) \in Nat /\ (a + 1) + 1 = a + 2
    OBVIOUS
  <2> QED BY <2>1, LowFacts
<1>2. Byte \in Nat /\ Byte >= 4 /\ Byte \div 2 \in 2..Byte - 2
  <2>1. Byte \in Nat /\ Byte >= 4
    BY SpcAssumption
  <2>2. Byte = (2 * (Byte \div 2)) + (Byte % 2) /\ (Byte % 2) \in 0..1 /\ Byte \div 2 \in Nat
    BY <2>1
  <2> QED BY <2>1, <2>2
<1> QED BY <1>1, <1>2 DEF Bytes, Ahead

(* What the bytes and the indices are.                                       *)
LEMMA Consts ==
  /\ Size \in Nat \ {0} /\ NReg \in Nat \ {0}
  /\ 0 \in Bytes /\ 1 \in Bytes /\ 0 \in Regs
  /\ HELLO0 \in Bytes /\ HELLO1 \in Bytes /\ KICK \in Bytes
  /\ READY \in Bytes /\ GO \in Bytes
  /\ \A r \in Regs : r \in Bytes
  /\ \A a \in 0..Size - 1 : Program[a] \in Bytes
  BY SpcAssumption DEF Bytes, Regs

LEMMA InitInv == Init => IInv
<1> SUFFICES ASSUME Init PROVE IInv
  OBVIOUS
<1>1. TypeOK
  <2>1. 0 \in 0..Size + 2 /\ 0 \in 0..Size \cup 0..NReg
    BY Consts
  <2>2. ram \in [0..Size - 1 -> Bytes] /\ snd \in [Regs -> Bytes] /\ apu \in [Regs -> Bytes]
    BY Consts DEF Init
  <2> QED BY <2>1, <2>2, Consts DEF Init, TypeOK, CpuStates, SpcStates
<1>2. Hello /\ Kicked /\ Sending /\ Sent /\ Ending /\ Uploaded
  BY DEF Init, Hello, Kicked, Sending, Sent, Ending, Uploaded, Late
<1>3. Idle /\ Going /\ Transfer /\ Settled
  BY Consts DEF Init, Idle, Going, Transfer, Settled, Heard, Before, Regs
<1> QED BY <1>1, <1>2, <1>3 DEF IInv

(* What the boot rom answers to: the byte the main processor sends, and the  *)
(* index it sends at the end.                                                *)
LEMMA BootAnswers ==
  ASSUME IInv, spc = "data"
  PROVE  /\ in0 = Low(k) => cpu = "sent" /\ k = y /\ y < Size
         /\ Ahead(in0, Low(k)) => cpu \in {"game", "ready"}
<1>1. y \in Nat /\ k \in Nat /\ Size \in Nat \ {0} /\ cpu \in CpuStates
  BY Consts DEF IInv, TypeOK
<1>2. CASE cpu \in {"send", "index"}
  <2>1. k = y /\ in0 = Low(y - 1) /\ y - 1 \in Nat /\ (y - 1) + 1 = y
    BY <1>1, <1>2 DEF IInv, Sending
  <2> QED BY <1>2, <2>1, AheadFacts
<1>3. CASE cpu = "sent"
  BY <1>1, <1>3, AheadFacts DEF IInv, Sent
<1>4. CASE cpu \in {"stop", "end"}
  <2>1. k = Size /\ in0 = Low(Size - 1) /\ Size - 1 \in Nat /\ (Size - 1) + 1 = Size
    BY <1>1, <1>4 DEF IInv, Ending
  <2> QED BY <1>4, <2>1, AheadFacts
<1>5. CASE cpu \in {"game", "ready"}
  BY <1>1, <1>5, AheadFacts DEF IInv, Idle
<1>6. cpu \notin {"hello", "block", "kick", "kicked", "go", "xfer", "reply"}
  BY DEF IInv, Hello, Kicked, Going, Transfer
<1> QED BY <1>1, <1>2, <1>3, <1>4, <1>5, <1>6 DEF CpuStates

(* The types, which need the phases: y, x and k stay within their ranges.    *)
LEMMA CpuTypeStep == IInv /\ (SetupSpc \/ UpdateDsp) => TypeOK'
<1> SUFFICES ASSUME IInv, SetupSpc \/ UpdateDsp PROVE TypeOK'
  OBVIOUS
<1> USE DEF TypeOK, CpuStates, SpcStates, Cpu, Reads, Writes0, Writes1, FromSpc,
   spcVars
<1>0. TypeOK /\ y \in Nat /\ (cpu \in {"send", "index", "sent"} => y \in 0..Size - 1)
  BY Consts DEF IInv, Sending, Sent
<1>1. CASE WaitSPCEq \/ SendBlock \/ SendKick \/ WaitSPC700Start
  BY <1>0, <1>1, Consts DEF WaitSPCEq, SendBlock, SendKick, WaitSPC700Start
<1>2. CASE SendData \/ SendIndex
  BY <1>0, <1>2, Consts, LowFacts DEF SendData, SendIndex
<1>3. CASE WaitSPCReply
  BY <1>0, <1>3, Consts DEF WaitSPCReply
<1>4. CASE SendStop
  <2>1. y = Size
    BY <1>4 DEF IInv, Ending, SendStop
  <2> QED BY <1>0, <1>4, <2>1, Consts DEF SendStop
<1>5. CASE Spc700FwEnd
  BY <1>0, <1>5, LowFacts DEF Spc700FwEnd
<1>6. CASE WaitSPC700Ready \/ WSPC700Reply \/ NesRegLoadEnds
  BY <1>0, <1>6, Consts DEF WaitSPC700Ready, WSPC700Reply, NesRegLoadEnds
<1>7. CASE Xfer
  BY <1>0, <1>7 DEF Xfer
<1>8. CASE WSPC700Reply2
  <2>1. x + 1 \in Regs
    BY <1>0, <1>8, Consts DEF WSPC700Reply2, Regs
  <2> QED BY <1>0, <1>8, <2>1, Consts DEF WSPC700Reply2
<1> QED BY <1>1, <1>2, <1>3, <1>4, <1>5, <1>6, <1>7, <1>8 DEF SetupSpc, UpdateDsp

LEMMA SpcTypeStep == IInv /\ SoundProcessor => TypeOK'
<1> SUFFICES ASSUME IInv, SoundProcessor PROVE TypeOK'
  OBVIOUS
<1> USE DEF TypeOK, CpuStates, SpcStates, Spc, cpuVars
<1>0. TypeOK
  BY DEF IInv
<1>1. CASE BootHello \/ BootBlock \/ BootRun \/ BootFirst \/ Start \/ SpcReady \/ SpcGo
  BY <1>0, <1>1, Consts
  DEF BootHello, BootBlock, BootRun, BootFirst, Start, SpcReady, SpcGo
<1>2. CASE BootTake
  <2>1. k \in 0..Size - 1
    BY <1>0, <1>2, Consts, BootAnswers DEF BootTake
  <2> QED BY <1>0, <1>2, <2>1, Consts DEF BootTake
<1>3. CASE SpcTake
  <2>1. k \in Regs /\ k + 1 \in 0..NReg /\ k \in Bytes
    BY <1>0, <1>3, Consts
    DEF SpcTake, IInv, Hello, Kicked, Sending, Sent, Ending, Idle, Going,
       Transfer, Regs
  <2> QED BY <1>0, <1>3, <2>1 DEF SpcTake
<1> QED BY <1>1, <1>2, <1>3 DEF SoundProcessor

(* Every action keeps the invariant: one step for the phases it does not     *)
(* reach, and one for each phase it changes.                                 *)
LEMMA WaitSPCEqStep == IInv /\ WaitSPCEq /\ TypeOK' => IInv'
<1> SUFFICES ASSUME IInv, WaitSPCEq, TypeOK' PROVE IInv'
  OBVIOUS
<1> USE DEF IInv, TypeOK, WaitSPCEq, Cpu, Reads, FromSpc, spcVars
<1>1. (Kicked /\ Sending /\ Sent /\ Ending /\ Uploaded)'
  BY Consts
  DEF Hello, Kicked, Sending, Sent, Ending, Uploaded, Idle, Going, Transfer,
      Settled, Late, Stored, Before, Heard
<1>2. (Idle /\ Going /\ Transfer /\ Settled)'
  BY Consts
  DEF Hello, Kicked, Sending, Sent, Ending, Uploaded, Idle, Going, Transfer,
      Settled, Late, Stored, Before, Heard
<1>3. Hello'
  BY SpcAssumption DEF Hello
<1> QED BY <1>1, <1>2, <1>3

LEMMA SendBlockStep == IInv /\ SendBlock /\ TypeOK' => IInv'
<1> SUFFICES ASSUME IInv, SendBlock, TypeOK' PROVE IInv'
  OBVIOUS
<1> USE DEF IInv, TypeOK, SendBlock, Cpu, Writes1, FromSpc, spcVars
<1>1. (Hello /\ Kicked /\ Sending /\ Sent /\ Ending /\ Uploaded)'
  BY Consts
  DEF Hello, Kicked, Sending, Sent, Ending, Uploaded, Idle, Going, Transfer,
      Settled, Late, Stored, Before, Heard
<1>2. (Idle /\ Going /\ Transfer /\ Settled)'
  BY Consts
  DEF Hello, Kicked, Sending, Sent, Ending, Uploaded, Idle, Going, Transfer,
      Settled, Late, Stored, Before, Heard
<1> QED BY <1>1, <1>2

LEMMA SendKickStep == IInv /\ SendKick /\ TypeOK' => IInv'
<1> SUFFICES ASSUME IInv, SendKick, TypeOK' PROVE IInv'
  OBVIOUS
<1> USE DEF IInv, TypeOK, SendKick, Cpu, Writes0, FromSpc, spcVars
<1>1. (Hello /\ Kicked /\ Sending /\ Sent /\ Ending /\ Uploaded)'
  BY Consts
  DEF Hello, Kicked, Sending, Sent, Ending, Uploaded, Idle, Going, Transfer,
      Settled, Late, Stored, Before, Heard
<1>2. (Idle /\ Going /\ Transfer /\ Settled)'
  BY Consts
  DEF Hello, Kicked, Sending, Sent, Ending, Uploaded, Idle, Going, Transfer,
      Settled, Late, Stored, Before, Heard
<1> QED BY <1>1, <1>2

LEMMA WaitSPC700StartStep == IInv /\ WaitSPC700Start /\ TypeOK' => IInv'
<1> SUFFICES ASSUME IInv, WaitSPC700Start, TypeOK' PROVE IInv'
  OBVIOUS
<1> USE DEF IInv, TypeOK, WaitSPC700Start, Cpu, Reads, FromSpc, spcVars
<1>1. (Hello /\ Kicked /\ Sent /\ Ending /\ Uploaded)'
  BY Consts
  DEF Hello, Kicked, Sending, Sent, Ending, Uploaded, Idle, Going, Transfer,
      Settled, Late, Stored, Before, Heard
<1>2. (Idle /\ Going /\ Transfer /\ Settled)'
  BY Consts
  DEF Hello, Kicked, Sending, Sent, Ending, Uploaded, Idle, Going, Transfer,
      Settled, Late, Stored, Before, Heard
<1>3. Sending'
  BY SpcAssumption DEF Kicked, Sending, Stored
<1> QED BY <1>1, <1>2, <1>3

LEMMA SendDataStep == IInv /\ SendData /\ TypeOK' => IInv'
<1> SUFFICES ASSUME IInv, SendData, TypeOK' PROVE IInv'
  OBVIOUS
<1> USE DEF IInv, TypeOK, SendData, Cpu, Writes1, FromSpc, spcVars
<1>1. (Hello /\ Kicked /\ Sending /\ Sent /\ Ending /\ Uploaded)'
  BY Consts
  DEF Hello, Kicked, Sending, Sent, Ending, Uploaded, Idle, Going, Transfer,
      Settled, Late, Stored, Before, Heard
<1>2. (Idle /\ Going /\ Transfer /\ Settled)'
  BY Consts
  DEF Hello, Kicked, Sending, Sent, Ending, Uploaded, Idle, Going, Transfer,
      Settled, Late, Stored, Before, Heard
<1> QED BY <1>1, <1>2

LEMMA SendIndexStep == IInv /\ SendIndex /\ TypeOK' => IInv'
<1> SUFFICES ASSUME IInv, SendIndex, TypeOK' PROVE IInv'
  OBVIOUS
<1> USE DEF IInv, TypeOK, SendIndex, Cpu, Writes0, FromSpc, spcVars
<1>1. (Hello /\ Kicked /\ Sending /\ Ending /\ Uploaded)'
  BY Consts
  DEF Hello, Kicked, Sending, Sent, Ending, Uploaded, Idle, Going, Transfer,
      Settled, Late, Stored, Before, Heard
<1>2. (Idle /\ Going /\ Transfer /\ Settled)'
  BY Consts
  DEF Hello, Kicked, Sending, Sent, Ending, Uploaded, Idle, Going, Transfer,
      Settled, Late, Stored, Before, Heard
<1>3. Sent'
  <2>1. y = 0 => Low(y) = 0
    BY LowZero
  <2>2. ASSUME y > 0 PROVE Low(y - 1) # Low(y)
    <3>1. y - 1 \in Nat /\ (y - 1) + 1 = y
      BY <2>2, Consts
    <3>2. Low(y - 1) # Low((y - 1) + 1)
      BY <3>1, AheadFacts
    <3> QED BY <3>1, <3>2
  <2> QED BY <2>1, <2>2, SpcAssumption, Consts DEF Sending, Sent, Stored
<1> QED BY <1>1, <1>2, <1>3

LEMMA WaitSPCReplyStep == IInv /\ WaitSPCReply /\ TypeOK' => IInv'
<1> SUFFICES ASSUME IInv, WaitSPCReply, TypeOK' PROVE IInv'
  OBVIOUS
<1> USE DEF IInv, TypeOK, WaitSPCReply, Reads, FromSpc, spcVars
<1>1. (Hello /\ Kicked /\ Sent)'
  BY Consts
  DEF Hello, Kicked, Sending, Sent, Ending, Uploaded, Idle, Going, Transfer,
      Settled, Late, Stored, Before, Heard
<1>2. (Idle /\ Going /\ Transfer /\ Settled)'
  BY Consts
  DEF Hello, Kicked, Sending, Sent, Ending, Uploaded, Idle, Going, Transfer,
      Settled, Late, Stored, Before, Heard
<1>3. Sending'
  <2>1. y \in Nat /\ y' = y + 1 /\ (y + 1) - 1 = y /\ y' - 1 = y
    BY Consts
  <2>2. cpu' = "send" => y + 1 # Size /\ y + 1 \in 0..Size - 1
    BY <2>1, Consts DEF Sent
  <2>3. spc = "data" /\ k = y + 1 /\ Stored(y + 1) /\ in0 = Low(y)
    BY DEF Sent
  <2> QED BY <2>1, <2>2, <2>3, Consts DEF Sending, Stored
<1>4. Ending'
  BY Consts DEF Sent, Ending
<1>5. Uploaded'
  BY SpcAssumption, Consts DEF Sent, Uploaded, Late, Stored
<1> QED BY <1>1, <1>2, <1>3, <1>4, <1>5

LEMMA SendStopStep == IInv /\ SendStop /\ TypeOK' => IInv'
<1> SUFFICES ASSUME IInv, SendStop, TypeOK' PROVE IInv'
  OBVIOUS
<1> USE DEF IInv, TypeOK, SendStop, Cpu, Writes1, FromSpc, spcVars
<1>1. (Hello /\ Kicked /\ Sending /\ Sent /\ Ending /\ Uploaded)'
  BY Consts
  DEF Hello, Kicked, Sending, Sent, Ending, Uploaded, Idle, Going, Transfer,
      Settled, Late, Stored, Before, Heard
<1>2. (Idle /\ Going /\ Transfer /\ Settled)'
  BY Consts
  DEF Hello, Kicked, Sending, Sent, Ending, Uploaded, Idle, Going, Transfer,
      Settled, Late, Stored, Before, Heard
<1> QED BY <1>1, <1>2

LEMMA Spc700FwEndStep == IInv /\ Spc700FwEnd /\ TypeOK' => IInv'
<1> SUFFICES ASSUME IInv, Spc700FwEnd, TypeOK' PROVE IInv'
  OBVIOUS
<1> USE DEF IInv, TypeOK, Spc700FwEnd, Cpu, Writes0, FromSpc, spcVars
<1>1. (Hello /\ Kicked /\ Sending /\ Sent /\ Ending /\ Uploaded)'
  BY Consts
  DEF Hello, Kicked, Sending, Sent, Ending, Uploaded, Idle, Going, Transfer,
      Settled, Late, Stored, Before, Heard
<1>2. (Going /\ Transfer)'
  BY Consts
  DEF Hello, Kicked, Sending, Sent, Ending, Uploaded, Idle, Going, Transfer,
      Settled, Late, Stored, Before, Heard
<1>3. Idle'
  BY Consts DEF Ending, Idle
<1>4. Settled'
  BY Consts DEF Settled, Heard, Before
<1> QED BY <1>1, <1>2, <1>3, <1>4

LEMMA WaitSPC700ReadyStep == IInv /\ WaitSPC700Ready /\ TypeOK' => IInv'
<1> SUFFICES ASSUME IInv, WaitSPC700Ready, TypeOK' PROVE IInv'
  OBVIOUS
<1> USE DEF IInv, TypeOK, WaitSPC700Ready, Cpu, Writes0, FromSpc, spcVars
<1>1. (Hello /\ Kicked /\ Sending /\ Sent /\ Ending /\ Uploaded)'
  BY Consts
  DEF Hello, Kicked, Sending, Sent, Ending, Uploaded, Idle, Going, Transfer,
      Settled, Late, Stored, Before, Heard
<1>2. (Idle /\ Transfer /\ Settled)'
  BY Consts
  DEF Hello, Kicked, Sending, Sent, Ending, Uploaded, Idle, Going, Transfer,
      Settled, Late, Stored, Before, Heard
<1>3. Going'
  BY SpcAssumption DEF Idle, Going
<1> QED BY <1>1, <1>2, <1>3

LEMMA WSPC700ReplyStep == IInv /\ WSPC700Reply /\ TypeOK' => IInv'
<1> SUFFICES ASSUME IInv, WSPC700Reply, TypeOK' PROVE IInv'
  OBVIOUS
<1> USE DEF IInv, TypeOK, WSPC700Reply, Cpu, Writes0, FromSpc, spcVars
<1>1. (Hello /\ Kicked /\ Sending /\ Sent /\ Ending /\ Uploaded)'
  BY Consts
  DEF Hello, Kicked, Sending, Sent, Ending, Uploaded, Idle, Going, Transfer,
      Settled, Late, Stored, Before, Heard
<1>2. (Idle /\ Going /\ Settled)'
  BY Consts
  DEF Hello, Kicked, Sending, Sent, Ending, Uploaded, Idle, Going, Transfer,
      Settled, Late, Stored, Before, Heard
<1>3. Transfer'
  BY SpcAssumption, Consts DEF Going, Transfer, Heard, Before, Regs
<1> QED BY <1>1, <1>2, <1>3

LEMMA XferStep == IInv /\ Xfer /\ TypeOK' => IInv'
<1> SUFFICES ASSUME IInv, Xfer, TypeOK' PROVE IInv'
  OBVIOUS
<1> USE DEF IInv, TypeOK, Xfer, Cpu, Writes1, FromSpc, spcVars
<1>1. (Hello /\ Kicked /\ Sending /\ Sent /\ Ending /\ Uploaded)'
  BY Consts
  DEF Hello, Kicked, Sending, Sent, Ending, Uploaded, Idle, Going, Transfer,
      Settled, Late, Stored, Before, Heard
<1>2. (Idle /\ Going /\ Transfer /\ Settled)'
  BY Consts
  DEF Hello, Kicked, Sending, Sent, Ending, Uploaded, Idle, Going, Transfer,
      Settled, Late, Stored, Before, Heard
<1> QED BY <1>1, <1>2

LEMMA WSPC700Reply2Step == IInv /\ WSPC700Reply2 /\ TypeOK' => IInv'
<1> SUFFICES ASSUME IInv, WSPC700Reply2, TypeOK' PROVE IInv'
  OBVIOUS
<1> USE DEF IInv, TypeOK, WSPC700Reply2, Cpu, Writes0, FromSpc, spcVars
<1>1. (Hello /\ Kicked /\ Sending /\ Sent /\ Ending /\ Uploaded)'
  BY Consts
  DEF Hello, Kicked, Sending, Sent, Ending, Uploaded, Idle, Going, Transfer,
      Settled, Late, Stored, Before, Heard
<1>2. (Idle /\ Going /\ Settled)'
  BY Consts
  DEF Hello, Kicked, Sending, Sent, Ending, Uploaded, Idle, Going, Transfer,
      Settled, Late, Stored, Before, Heard
<1>3. Transfer'
  BY Consts DEF Transfer, Heard, Before, Regs
<1> QED BY <1>1, <1>2, <1>3

LEMMA NesRegLoadEndsStep == IInv /\ NesRegLoadEnds /\ TypeOK' => IInv'
<1> SUFFICES ASSUME IInv, NesRegLoadEnds, TypeOK' PROVE IInv'
  OBVIOUS
<1> USE DEF IInv, TypeOK, NesRegLoadEnds, Cpu, Reads, FromSpc, spcVars
<1>1. (Hello /\ Kicked /\ Sending /\ Sent /\ Ending /\ Uploaded)'
  BY Consts
  DEF Hello, Kicked, Sending, Sent, Ending, Uploaded, Idle, Going, Transfer,
      Settled, Late, Stored, Before, Heard
<1>2. (Going /\ Transfer)'
  BY Consts
  DEF Hello, Kicked, Sending, Sent, Ending, Uploaded, Idle, Going, Transfer,
      Settled, Late, Stored, Before, Heard
<1>3. Idle'
  BY SpcAssumption, Consts DEF Transfer, Idle, Uploaded, Regs
<1>4. Settled'
  BY Consts DEF Transfer, Settled, Heard, Before, Regs
<1> QED BY <1>1, <1>2, <1>3, <1>4

LEMMA BootHelloStep == IInv /\ BootHello /\ TypeOK' => IInv'
<1> SUFFICES ASSUME IInv, BootHello, TypeOK' PROVE IInv'
  OBVIOUS
<1> USE DEF IInv, TypeOK, BootHello, Spc, cpuVars
<1>1. (Hello /\ Kicked /\ Sending /\ Sent /\ Ending /\ Uploaded)'
  BY Consts
  DEF Hello, Kicked, Sending, Sent, Ending, Uploaded, Idle, Going, Transfer,
      Settled, Late, Stored, Before, Heard
<1>2. (Idle /\ Going /\ Transfer /\ Settled)'
  BY Consts
  DEF Hello, Kicked, Sending, Sent, Ending, Uploaded, Idle, Going, Transfer,
      Settled, Late, Stored, Before, Heard
<1> QED BY <1>1, <1>2

LEMMA BootBlockStep == IInv /\ BootBlock /\ TypeOK' => IInv'
<1> SUFFICES ASSUME IInv, BootBlock, TypeOK' PROVE IInv'
  OBVIOUS
<1> USE DEF IInv, TypeOK, BootBlock, BootCalled, cpuVars
<1>1. (Going /\ Transfer /\ Settled)'
  BY Consts
  DEF Hello, Kicked, Sending, Sent, Ending, Uploaded, Idle, Going, Transfer,
      Settled, Late, Stored, Before, Heard
<1>2. Hello'
  BY SpcAssumption, Consts, BootAnswers DEF Hello
<1>3. Kicked'
  BY SpcAssumption, Consts, BootAnswers DEF Hello, Kicked
<1>4. Sending'
  BY SpcAssumption, Consts, BootAnswers DEF Sending
<1>5. Sent'
  BY SpcAssumption, Consts, BootAnswers DEF Sent
<1>6. Ending'
  BY SpcAssumption, Consts, BootAnswers DEF Ending
<1>7. Uploaded'
  BY SpcAssumption, Consts, BootAnswers DEF Uploaded, Late
<1>8. Idle'
  BY SpcAssumption, Consts, BootAnswers DEF Idle
<1> QED BY <1>1, <1>2, <1>3, <1>4, <1>5, <1>6, <1>7, <1>8

LEMMA BootRunStep == IInv /\ BootRun /\ TypeOK' => IInv'
<1> SUFFICES ASSUME IInv, BootRun, TypeOK' PROVE IInv'
  OBVIOUS
<1> USE DEF IInv, TypeOK, BootRun, BootCalled, cpuVars
<1>1. (Going /\ Transfer /\ Settled)'
  BY Consts
  DEF Hello, Kicked, Sending, Sent, Ending, Uploaded, Idle, Going, Transfer,
      Settled, Late, Stored, Before, Heard
<1>2. Hello'
  BY SpcAssumption, Consts, BootAnswers DEF Hello
<1>3. Kicked'
  BY SpcAssumption, Consts, BootAnswers DEF Hello, Kicked
<1>4. Sending'
  BY SpcAssumption, Consts, BootAnswers DEF Sending
<1>5. Sent'
  BY SpcAssumption, Consts, BootAnswers DEF Sent
<1>6. Ending'
  BY SpcAssumption, Consts, BootAnswers DEF Ending
<1>7. Uploaded'
  BY SpcAssumption, Consts, BootAnswers DEF Uploaded, Late
<1>8. Idle'
  BY SpcAssumption, Consts, BootAnswers DEF Idle
<1> QED BY <1>1, <1>2, <1>3, <1>4, <1>5, <1>6, <1>7, <1>8

LEMMA BootFirstStep == IInv /\ BootFirst /\ TypeOK' => IInv'
<1> SUFFICES ASSUME IInv, BootFirst, TypeOK' PROVE IInv'
  OBVIOUS
<1> USE DEF IInv, TypeOK, BootFirst, Spc, cpuVars
<1>1. (Going /\ Transfer /\ Settled)'
  BY Consts
  DEF Hello, Kicked, Sending, Sent, Ending, Uploaded, Idle, Going, Transfer,
      Settled, Late, Stored, Before, Heard
<1>2. Hello'
  BY SpcAssumption, Consts, BootAnswers DEF Hello
<1>3. Kicked'
  BY SpcAssumption, Consts, BootAnswers DEF Hello, Kicked
<1>4. Sending'
  BY SpcAssumption, Consts, BootAnswers DEF Sending
<1>5. Sent'
  <2>1. cpu = "sent" => y = 0 /\ k' = y' /\ spc' = "data" /\ out0' # Low(y')
    BY DEF Sent
  <2> QED BY <2>1 DEF Sent, Stored
<1>6. Ending'
  BY SpcAssumption, Consts, BootAnswers DEF Ending
<1>7. Uploaded'
  BY SpcAssumption, Consts, BootAnswers DEF Uploaded, Late
<1>8. Idle'
  BY SpcAssumption, Consts, BootAnswers DEF Idle
<1> QED BY <1>1, <1>2, <1>3, <1>4, <1>5, <1>6, <1>7, <1>8

LEMMA BootTakeStep == IInv /\ BootTake /\ TypeOK' => IInv'
<1> SUFFICES ASSUME IInv, BootTake, TypeOK' PROVE IInv'
  OBVIOUS
<1> USE DEF IInv, TypeOK, BootTake, cpuVars
<1>1. (Going /\ Transfer /\ Settled)'
  BY Consts
  DEF Hello, Kicked, Sending, Sent, Ending, Uploaded, Idle, Going, Transfer,
      Settled, Late, Stored, Before, Heard
<1>2. Hello'
  BY SpcAssumption, Consts, BootAnswers DEF Hello
<1>3. Kicked'
  BY SpcAssumption, Consts, BootAnswers DEF Hello, Kicked
<1>4. Sending'
  BY SpcAssumption, Consts, BootAnswers DEF Sending
<1>5. Sent'
  <2>1. cpu = "sent" /\ k = y /\ y \in 0..Size - 1
    BY BootAnswers, Consts
  <2>2. in0 = Low(y) /\ in1 = Program[y] /\ Stored(y)
    BY <2>1 DEF Sent
  <2>3. ram' = [ram EXCEPT ![y] = Program[y]] /\ k' = y + 1 /\ out0' = Low(y)
    BY <2>1, <2>2
  <2>4. Stored(y)' /\ Stored(y + 1)'
    BY <2>1, <2>2, <2>3, Consts DEF Stored
  <2> QED BY <2>1, <2>2, <2>3, <2>4 DEF Sent
<1>6. Ending'
  BY SpcAssumption, Consts, BootAnswers DEF Ending
<1>7. Uploaded'
  BY SpcAssumption, Consts, BootAnswers DEF Uploaded, Late
<1>8. Idle'
  BY SpcAssumption, Consts, BootAnswers DEF Idle
<1> QED BY <1>1, <1>2, <1>3, <1>4, <1>5, <1>6, <1>7, <1>8

LEMMA StartStep == IInv /\ Start /\ TypeOK' => IInv'
<1> SUFFICES ASSUME IInv, Start, TypeOK' PROVE IInv'
  OBVIOUS
<1> USE DEF IInv, TypeOK, Start, Spc, cpuVars
<1>1. (Hello /\ Kicked /\ Sending /\ Sent /\ Ending /\ Uploaded)'
  BY Consts
  DEF Hello, Kicked, Sending, Sent, Ending, Uploaded, Idle, Going, Transfer,
      Settled, Late, Stored, Before, Heard
<1>2. (Going /\ Transfer /\ Settled)'
  BY Consts
  DEF Hello, Kicked, Sending, Sent, Ending, Uploaded, Idle, Going, Transfer,
      Settled, Late, Stored, Before, Heard
<1>3. Idle'
  BY SpcAssumption, Consts DEF Idle, Regs
<1> QED BY <1>1, <1>2, <1>3

LEMMA SpcReadyStep == IInv /\ SpcReady /\ TypeOK' => IInv'
<1> SUFFICES ASSUME IInv, SpcReady, TypeOK' PROVE IInv'
  OBVIOUS
<1> USE DEF IInv, TypeOK, SpcReady, Spc, Replied, cpuVars
<1>1. (Hello /\ Kicked /\ Sending /\ Sent /\ Ending /\ Uploaded)'
  BY Consts
  DEF Hello, Kicked, Sending, Sent, Ending, Uploaded, Idle, Going, Transfer,
      Settled, Late, Stored, Before, Heard
<1>2. (Idle /\ Going /\ Transfer /\ Settled)'
  BY Consts
  DEF Hello, Kicked, Sending, Sent, Ending, Uploaded, Idle, Going, Transfer,
      Settled, Late, Stored, Before, Heard
<1> QED BY <1>1, <1>2

LEMMA SpcGoStep == IInv /\ SpcGo /\ TypeOK' => IInv'
<1> SUFFICES ASSUME IInv, SpcGo, TypeOK' PROVE IInv'
  OBVIOUS
<1> USE DEF IInv, TypeOK, SpcGo, Spc, cpuVars
<1>1. (Hello /\ Kicked /\ Sending /\ Sent /\ Ending /\ Uploaded)'
  BY Consts
  DEF Hello, Kicked, Sending, Sent, Ending, Uploaded, Idle, Going, Transfer,
      Settled, Late, Stored, Before, Heard
<1>2. (Settled)'
  BY Consts
  DEF Hello, Kicked, Sending, Sent, Ending, Uploaded, Idle, Going, Transfer,
      Settled, Late, Stored, Before, Heard
<1>3. Going'
  BY SpcAssumption, Consts DEF Going
<1>4. Idle'
  BY SpcAssumption, Consts DEF Idle, Regs
<1>5. Transfer'
  BY SpcAssumption, Consts DEF Transfer, Regs
<1> QED BY <1>1, <1>2, <1>3, <1>4, <1>5

LEMMA SpcTakeStep == IInv /\ SpcTake /\ TypeOK' => IInv'
<1> SUFFICES ASSUME IInv, SpcTake, TypeOK' PROVE IInv'
  OBVIOUS
<1> USE DEF IInv, TypeOK, SpcTake, cpuVars
<1>1. (Hello /\ Kicked /\ Sending /\ Sent /\ Ending /\ Uploaded)'
  BY Consts
  DEF Hello, Kicked, Sending, Sent, Ending, Uploaded, Idle, Going, Transfer,
      Settled, Late, Stored, Before, Heard
<1>2. Idle'
  BY SpcAssumption, Consts DEF Idle, Regs
<1>3. Going'
  BY SpcAssumption, Consts DEF Going, Regs
<1>4. Transfer'
  BY SpcAssumption, Consts DEF Transfer, Regs, Heard, Before
<1>5. Settled'
  <2>1. cpu \in {"go", "xfer", "reply"}
    BY DEF CpuStates, Hello, Kicked, Sending, Sent, Ending, Idle
  <2> QED BY <2>1 DEF Settled
<1> QED BY <1>1, <1>2, <1>3, <1>4, <1>5

LEMMA CallStep ==
  ASSUME IInv, NEW table \in Tables, CallUpdateDsp(table)
  PROVE  IInv'
<1> USE DEF Cpu, Reads, FromSpc, spcVars, CallUpdateDsp
<1>1. TypeOK'
  BY SpcAssumption DEF IInv, TypeOK, CpuStates
<1>2. (Hello /\ Kicked /\ Sending /\ Sent /\ Ending /\ Uploaded)'
  BY DEF IInv, Hello, Kicked, Sending, Sent, Ending, Uploaded, Late
<1>3. (Idle /\ Going /\ Transfer /\ Settled)'
  BY DEF IInv, Idle, Going, Transfer, Settled
<1> QED BY <1>1, <1>2, <1>3 DEF IInv

LEMMA Inductive == IInv /\ [Next]_vars => IInv'
<1> SUFFICES ASSUME IInv, [Next]_vars PROVE IInv'
  OBVIOUS
<1>1. CASE SetupSpc \/ UpdateDsp
  BY <1>1, CpuTypeStep, WaitSPCEqStep, SendBlockStep, SendKickStep,
     WaitSPC700StartStep, SendDataStep, SendIndexStep, WaitSPCReplyStep,
     SendStopStep, Spc700FwEndStep, WaitSPC700ReadyStep, WSPC700ReplyStep,
     XferStep, WSPC700Reply2Step, NesRegLoadEndsStep
  DEF SetupSpc, UpdateDsp
<1>2. CASE SoundProcessor
  BY <1>2, SpcTypeStep, BootHelloStep, BootBlockStep, BootRunStep,
     BootFirstStep, BootTakeStep, StartStep, SpcReadyStep, SpcGoStep,
     SpcTakeStep
  DEF SoundProcessor
<1>3. CASE \E table \in Tables : CallUpdateDsp(table)
  BY <1>3, CallStep
<1>4. CASE UNCHANGED vars
  BY <1>4 DEF vars, IInv, TypeOK, Hello, Kicked, Sending, Sent, Ending, Uploaded,
     Idle, Going, Transfer, Settled, Stored, Heard, Before
<1> QED BY <1>1, <1>2, <1>3, <1>4 DEF Next, Spin

LEMMA Invariant == Spec => []IInv
  BY InitInv, Inductive, PTL DEF Spec

(* The types, for any size of a byte, any program and any number of registers. *)
THEOREM TypeCorrect == Spec => []TypeOK
<1>1. IInv => TypeOK
  BY DEF IInv
<1> QED BY <1>1, Invariant, PTL

(* The sound processor never runs a program that is not the one of the file.  *)
THEOREM UploadCorrect == Spec => []UploadExact
<1>1. IInv => UploadExact
  BY DEF IInv, TypeOK, CpuStates, Hello, Kicked, Sending, Sent, Ending, Uploaded,
     Late, UploadExact
<1> QED BY <1>1, Invariant, PTL

(* A register of the sound processor is late by one register at most.         *)
THEOREM HeardCorrect == Spec => []HeardWithinOne
<1>1. IInv => HeardWithinOne
  BY Consts DEF IInv, Settled, Heard, Regs, HeardWithinOne
<1> QED BY <1>1, Invariant, PTL

-----------------------------------------------------------------------------
(* The game goes on: the halves of GameGoesOn that need no fairness.       *)

(* A processor reads a port that does not hold what it waits for. *)
CpuWaits ==
  \/ cpu = "hello" /\ ~(out0 = HELLO0 /\ out1 = HELLO1)
  \/ cpu = "kicked" /\ out0 # KICK
  \/ cpu = "sent" /\ out0 # Low(y)
  \/ cpu = "ready" /\ out0 # READY
  \/ cpu = "go" /\ out0 # GO
  \/ cpu = "reply" /\ out0 # x

SpcWaits ==
  \/ spc = "boot" /\ in0 # KICK
  \/ spc = "first" /\ in0 # 0
  \/ spc = "data" /\ in0 # Low(k) /\ ~Ahead(in0, Low(k))
  \/ spc = "poll" /\ in0 # GO
  \/ spc = "xfer" /\ in0 # k
  \/ spc = "main" /\ Replied

NeverBothWait == ~(CpuWaits /\ SpcWaits)

(* The answer of the boot rom stays on the second port. *)
SaidHello == spc # "reset" => out1 = HELLO1

(* The steps each processor has left until the game runs. *)
CpuLeft ==
  CASE cpu = "hello" -> (3 * Size) + 6        [] cpu = "block"  -> (3 * Size) + 5
    [] cpu = "kick"  -> (3 * Size) + 4        [] cpu = "kicked" -> (3 * Size) + 3
    [] cpu = "send"  -> (3 * (Size - y)) + 2  [] cpu = "index"  -> (3 * (Size - y)) + 1
    [] cpu = "sent"  -> 3 * (Size - y)
    [] cpu = "stop"  -> 2                     [] cpu = "end"    -> 1
    [] cpu = "ready" -> (2 * NReg) + 2        [] cpu = "go"     -> (2 * NReg) + 1
    [] cpu = "xfer"  -> 2 * (NReg - x)        [] cpu = "reply"  -> (2 * (NReg - x)) - 1
    [] cpu = "game"  -> 0

SpcLeft ==
  CASE spc = "reset" -> Size + 3   [] spc = "boot" -> Size + 2   [] spc = "first" -> Size + 1
    [] spc = "data"  -> IF cpu = "ready" THEN NReg + 4 ELSE Size - k
    [] spc = "start" -> NReg + 3
    [] spc = "main"  -> IF cpu = "ready" THEN NReg + 2 ELSE 0
    [] spc = "poll"  -> NReg + 1   [] spc = "xfer" -> NReg - k

Left == IF cpu = "game" THEN 0 ELSE CpuLeft + SpcLeft
InUpdate == cpu \in {"ready", "go", "xfer", "reply"}

LeftInRange ==
  /\ Left \in Nat /\ (cpu # "game" => Left > 0)
  /\ Left <= IF InUpdate THEN (3 * NReg) + 6 ELSE (4 * Size) + 9
LeftShrinks == [][cpu # "game" => Left' < Left]_vars

LEMMA SaidHelloStep == SaidHello /\ [Next]_vars => SaidHello'
<1> SUFFICES ASSUME SaidHello, [Next]_vars PROVE SaidHello'
  OBVIOUS
<1>1. CASE SetupSpc \/ UpdateDsp
  BY <1>1
  DEF SaidHello, SetupSpc, UpdateDsp, WaitSPCEq, SendBlock, SendKick, WaitSPC700Start, SendData,
      SendIndex, WaitSPCReply, SendStop, Spc700FwEnd, WaitSPC700Ready, WSPC700Reply, Xfer,
      WSPC700Reply2, NesRegLoadEnds, FromSpc, spcVars
<1>2. CASE SoundProcessor
  BY <1>2
  DEF SaidHello, SoundProcessor, BootHello, BootBlock, BootRun, BootFirst, BootTake, Start,
      SpcReady, SpcGo, SpcTake, BootCalled, Spc
<1>3. ASSUME NEW table \in Tables, CallUpdateDsp(table)
      PROVE  SaidHello'
  BY <1>3 DEF SaidHello, CallUpdateDsp, FromSpc, spcVars
<1>4. CASE UNCHANGED vars
  BY <1>4 DEF SaidHello, vars
<1> QED BY <1>1, <1>2, <1>3, <1>4 DEF Next, Spin

(* The two processors never wait for each other: whatever the interleaving,  *)
(* when one reads a port that does not hold what it waits for, the other can *)
(* go on.                                                                    *)
THEOREM NeverBothWaitCorrect == Spec => []NeverBothWait
<1>1. ASSUME IInv, SaidHello, CpuWaits, SpcWaits
      PROVE  FALSE
  <2>1. CASE cpu = "hello"
    BY <1>1, <2>1, SpcAssumption DEF IInv, Hello, SaidHello, CpuWaits, SpcWaits
  <2>2. CASE cpu = "kicked"
    BY <1>1, <2>2 DEF IInv, Kicked, CpuWaits, SpcWaits
  <2>3. CASE cpu = "sent"
    BY <1>1, <2>3, LowZero DEF IInv, Sent, CpuWaits, SpcWaits
  <2>4. CASE cpu = "ready"
    <3>1. spc = "data" => k = Size /\ in0 = Low(Size + 2)
      BY <1>1, <2>4 DEF IInv, Idle
    <3>2. Ahead(Low(Size + 2), Low(Size))
      BY Consts, AheadFacts
    <3> QED BY <1>1, <2>4, <3>1, <3>2 DEF IInv, Idle, CpuWaits, SpcWaits, Replied
  <2>5. CASE cpu = "go"
    BY <1>1, <2>5 DEF IInv, Going, CpuWaits, SpcWaits
  <2>6. CASE cpu = "reply"
    BY <1>1, <2>6 DEF IInv, Transfer, CpuWaits, SpcWaits
  <2> QED BY <1>1, <2>1, <2>2, <2>3, <2>4, <2>5, <2>6 DEF CpuWaits
<1>2. Init => SaidHello
  BY DEF Init, SaidHello
<1>3. IInv /\ SaidHello => NeverBothWait
  BY <1>1 DEF NeverBothWait
<1> QED BY <1>2, <1>3, SaidHelloStep, Invariant, PTL DEF Spec

LEMMA LeftType == IInv => LeftInRange
<1> SUFFICES ASSUME IInv PROVE LeftInRange
  OBVIOUS
<1>1. /\ cpu \in CpuStates /\ spc \in SpcStates /\ Size \in Nat \ {0} /\ NReg \in Nat \ {0}
      /\ y \in Nat /\ k \in Nat /\ x \in 0..NReg - 1
  BY Consts DEF IInv, TypeOK, Regs
<1>2. CASE cpu \in {"hello", "block", "kick", "kicked"}
  <2>1. spc \in {"reset", "boot", "first"}
    BY <1>2 DEF IInv, Hello, Kicked
  <2> QED BY <1>1, <1>2, <2>1 DEF LeftInRange, Left, CpuLeft, SpcLeft, InUpdate
<1>3. CASE cpu \in {"send", "index", "sent"}
  <2>1. y < Size /\ spc \in {"first", "data"} /\ (spc = "data" => k \in 0..Size)
    BY <1>1, <1>3 DEF IInv, Sending, Sent
  <2> QED BY <1>1, <1>3, <2>1 DEF LeftInRange, Left, CpuLeft, SpcLeft, InUpdate
<1>4. CASE cpu \in {"stop", "end"}
  BY <1>1, <1>4 DEF IInv, Ending, LeftInRange, Left, CpuLeft, SpcLeft, InUpdate
<1>5. CASE cpu = "game"
  BY <1>1, <1>5 DEF LeftInRange, Left, InUpdate
<1>6. CASE cpu = "ready"
  <2>1. spc \in {"data", "start", "main", "poll"}
    BY <1>6 DEF IInv, Idle
  <2> QED BY <1>1, <1>6, <2>1 DEF LeftInRange, Left, CpuLeft, SpcLeft, InUpdate
<1>7. CASE cpu = "go"
  BY <1>1, <1>7 DEF IInv, Going, LeftInRange, Left, CpuLeft, SpcLeft, InUpdate
<1>8. CASE cpu \in {"xfer", "reply"}
  <2>1. (spc = "xfer" /\ k \in 0..NReg) \/ spc = "main"
    BY <1>1, <1>8 DEF IInv, Transfer
  <2> QED BY <1>1, <1>8, <2>1 DEF LeftInRange, Left, CpuLeft, SpcLeft, InUpdate
<1> QED BY <1>1, <1>2, <1>3, <1>4, <1>5, <1>6, <1>7, <1>8 DEF CpuStates

LEMMA LeftStep ==
  IInv /\ TypeOK' /\ LeftInRange /\ LeftInRange' /\ [Next]_vars => [cpu # "game" => Left' < Left]_vars
<1> SUFFICES ASSUME IInv, TypeOK', LeftInRange, LeftInRange', cpu # "game", Next, ~UNCHANGED vars
             PROVE  Left' < Left
  OBVIOUS
<1>1. /\ cpu \in CpuStates /\ spc \in SpcStates /\ Size \in Nat \ {0} /\ NReg \in Nat \ {0}
      /\ y \in Nat /\ k \in Nat /\ x \in 0..NReg - 1 /\ y' \in Nat /\ k' \in Nat /\ x' \in 0..NReg - 1
  BY Consts DEF IInv, TypeOK, Regs
<1>2. Left' \in Nat /\ Left \in Nat /\ Left > 0
  BY DEF LeftInRange
<1>3. CASE cpu' = "game"
  BY <1>2, <1>3 DEF Left
<1> SUFFICES ASSUME cpu' # "game" PROVE Left' < Left
  BY <1>3
<1>4. CASE WaitSPCEq \/ SendBlock \/ SendKick \/ WaitSPC700Start
  <2>1. /\ spc' = spc /\ k' = k /\ y' = y
        /\ \/ cpu = "hello" /\ cpu' = "block"
           \/ cpu = "block" /\ cpu' = "kick"
           \/ cpu = "kick" /\ cpu' = "kicked"
           \/ cpu = "kicked" /\ cpu' = "send" /\ y = 0
    BY <1>4 DEF WaitSPCEq, SendBlock, SendKick, WaitSPC700Start, Cpu, FromSpc, spcVars, IInv, Kicked
  <2>2. spc \in {"reset", "boot", "first"}
    BY <2>1 DEF IInv, Hello, Kicked
  <2> QED BY <1>1, <2>1, <2>2 DEF Left, CpuLeft, SpcLeft
<1>5. CASE SendData \/ SendIndex \/ WaitSPCReply
  <2>1. /\ spc' = spc /\ k' = k
        /\ \/ cpu = "send" /\ cpu' = "index" /\ y' = y
           \/ cpu = "index" /\ cpu' = "sent" /\ y' = y
           \/ cpu = "sent" /\ cpu' = "send" /\ y' = y + 1
           \/ cpu = "sent" /\ cpu' = "stop" /\ y' = y + 1
    BY <1>5 DEF SendData, SendIndex, WaitSPCReply, Cpu, FromSpc, spcVars
  <2>2. y < Size /\ spc \in {"first", "data"} /\ (spc = "data" => k \in 0..Size)
    BY <1>1, <2>1 DEF IInv, Sending, Sent
  <2> QED BY <1>1, <2>1, <2>2 DEF Left, CpuLeft, SpcLeft
<1>6. CASE SendStop \/ Spc700FwEnd
  <2>1. cpu = "stop" /\ cpu' = "end" /\ spc' = spc /\ k' = k /\ spc = "data" /\ k = Size
    BY <1>6 DEF SendStop, Spc700FwEnd, Cpu, FromSpc, spcVars, IInv, Ending
  <2> QED BY <1>1, <2>1 DEF Left, CpuLeft, SpcLeft
<1>7. CASE WaitSPC700Ready
  <2>1. cpu = "ready" /\ cpu' = "go" /\ spc' = spc /\ k' = k /\ spc = "poll"
    BY <1>7, SpcAssumption DEF WaitSPC700Ready, Cpu, FromSpc, spcVars, IInv, Idle, IInv, Going
  <2> QED BY <1>1, <2>1 DEF Left, CpuLeft, SpcLeft
<1>8. CASE WSPC700Reply
  <2>1. cpu = "go" /\ cpu' = "xfer" /\ spc' = spc /\ k' = k /\ x' = 0 /\ spc = "xfer" /\ k = 0
    BY <1>8, SpcAssumption DEF WSPC700Reply, Cpu, FromSpc, spcVars, IInv, Going
  <2> QED BY <1>1, <2>1 DEF Left, CpuLeft, SpcLeft
<1>9. CASE Xfer \/ WSPC700Reply2 \/ NesRegLoadEnds
  <2>1. /\ spc' = spc /\ k' = k
        /\ \/ cpu = "xfer" /\ cpu' = "reply" /\ x' = x
           \/ cpu = "reply" /\ cpu' = "xfer" /\ x' = x + 1
    BY <1>9 DEF Xfer, WSPC700Reply2, NesRegLoadEnds, Cpu, FromSpc, spcVars
  <2>2. (spc = "xfer" /\ k \in 0..NReg) \/ spc = "main"
    BY <1>1, <2>1 DEF IInv, Transfer
  <2> QED BY <1>1, <2>1, <2>2 DEF Left, CpuLeft, SpcLeft
<1>10. ASSUME SoundProcessor
       PROVE  cpu' = cpu /\ y' = y /\ x' = x
  BY <1>10
  DEF SoundProcessor, BootHello, BootBlock, BootRun, BootFirst, BootTake, Start, SpcReady, SpcGo,
      SpcTake, cpuVars
<1>11. ASSUME SoundProcessor, SpcLeft' < SpcLeft, SpcLeft \in Nat, SpcLeft' \in Nat
       PROVE  Left' < Left
  <2>1. CpuLeft' = CpuLeft
    BY <1>10, <1>11 DEF CpuLeft
  <2>2. CpuLeft \in Nat
    <3>1. cpu \in {"send", "index", "sent"} => y < Size
      BY DEF IInv, Sending, Sent
    <3> QED BY <1>1, <3>1 DEF CpuLeft, CpuStates
  <2>3. Left' = CpuLeft' + SpcLeft' /\ Left = CpuLeft + SpcLeft
    BY DEF Left
  <2>4. \A a, b, c \in Nat : b < c => a + b < a + c
    OBVIOUS
  <2> QED BY <1>11, <2>1, <2>2, <2>3, <2>4, Zenon
<1>12. CASE BootHello \/ BootBlock \/ BootFirst
  <2>1. \/ spc = "reset" /\ spc' = "boot"
        \/ spc = "boot" /\ spc' = "first"
        \/ spc = "first" /\ spc' = "data" /\ k' = 0 /\ cpu # "ready"
    <3>1. BootBlock => spc = "boot"
      BY BootAnswers DEF BootBlock, BootCalled, IInv, Idle
    <3> QED BY <1>12, <3>1 DEF BootHello, BootBlock, BootFirst, BootCalled, Spc, IInv, Idle
  <2> QED BY <1>1, <1>10, <1>11, <1>12, <2>1 DEF SpcLeft, SoundProcessor
<1>13. CASE BootTake
  <2>1. spc = "data" /\ spc' = "data" /\ k' = k + 1 /\ cpu = "sent" /\ k < Size
    BY <1>13, BootAnswers DEF BootTake
  <2> QED BY <1>1, <1>10, <1>11, <1>13, <2>1 DEF SpcLeft, SoundProcessor
<1>14. CASE BootRun \/ Start
  <2>1. /\ cpu = "ready"
        /\ \/ spc = "data" /\ spc' = "start"
           \/ spc = "start" /\ spc' = "main"
    <3>1. BootRun => cpu = "ready" /\ spc = "data"
      BY BootAnswers, SpcAssumption DEF BootRun, BootCalled, IInv, TypeOK, CpuStates, Hello, Kicked, Sending, Sent, Ending, Idle, Going, Transfer
    <3>2. Start => cpu = "ready"
      BY DEF Start, Spc, IInv, TypeOK, CpuStates, Hello, Kicked, Sending, Sent, Ending, Idle, Going, Transfer
    <3> QED BY <1>14, <3>1, <3>2 DEF BootRun, Start, Spc
  <2> QED BY <1>1, <1>10, <1>11, <1>14, <2>1 DEF SpcLeft, SoundProcessor
<1>15. CASE SpcReady
  <2>1. cpu = "ready" /\ spc = "main" /\ spc' = "poll"
    BY <1>15 DEF SpcReady, Spc, Replied, IInv, TypeOK, CpuStates, Hello, Kicked, Sending, Sent, Ending, Idle, Going, Transfer
  <2> QED BY <1>1, <1>10, <1>11, <1>15, <2>1 DEF SpcLeft, SoundProcessor
<1>16. CASE SpcGo
  <2>1. spc = "poll" /\ spc' = "xfer" /\ k' = 0
    BY <1>16 DEF SpcGo, Spc
  <2> QED BY <1>1, <1>10, <1>11, <1>16, <2>1 DEF SpcLeft, SoundProcessor
<1>17. CASE SpcTake
  <2>1. /\ spc = "xfer" /\ k' = k + 1 /\ (spc' = "xfer" \/ spc' = "main") /\ cpu # "ready"
    BY <1>17 DEF SpcTake, IInv, Idle
  <2>2. k < NReg /\ (spc' = "xfer" => k + 1 < NReg)
    BY <1>1, <1>17 DEF SpcTake, IInv, TypeOK, CpuStates, Hello, Kicked, Sending, Sent, Ending, Idle, Going, Transfer
  <2> QED BY <1>1, <1>10, <1>11, <1>17, <2>1, <2>2 DEF SpcLeft, SoundProcessor
<1>18. ~\E table \in Tables : CallUpdateDsp(table)
  BY DEF CallUpdateDsp, Cpu
<1> QED
  BY <1>4, <1>5, <1>6, <1>7, <1>8, <1>9, <1>12, <1>13, <1>14, <1>15, <1>16, <1>17, <1>18
  DEF Next, Spin, SetupSpc, UpdateDsp, SoundProcessor

(* No wait is long: away from the game every step of either processor, the   *)
(* reads of a loop apart, brings both closer to it, and in an update there   *)
(* are at most three steps to a register and six more, in whatever order     *)
(* they come. With NeverBothWait, fairness is all GameGoesOn still needs.     *)
THEOREM UpdateEnds == Spec => []LeftInRange /\ LeftShrinks
<1>1. IInv => LeftInRange
  BY LeftType
<1>2. IInv => TypeOK
  BY DEF IInv
<1> QED BY <1>1, <1>2, LeftStep, Invariant, PTL DEF Spec, LeftShrinks
=============================================================================
