--------------------------- MODULE PatchPrgProofs ----------------------------
(* Theorems about module PatchPrg: for any listings and any configuration,  *)
(* whatever the number of stubs, and for any width of the counter of        *)
(* init.asm.                                                                *)
EXTENDS PatchPrg, SequenceTheorems, FiniteSetTheorems, WellFoundedInduction, TLAPS

Stub == [offset : Nat, size : Nat]
Call == [kind : {"kept", "stub"}, offset : Nat]

(* The byte after stub m. *)
Ends(m) == stubs[m].offset + StubLen(routines[m])

Laid == phase \in {"patch", "done", "notfound"}

Types ==
  /\ phase \in {"recompile", "layout", "patch", "done", "aborted", "notfound"}
  /\ stubs \in Seq(Stub)
  /\ calls \in Seq(Call)
  /\ ramLen \in Nat /\ copied \in Nat

Early ==
  /\ phase = "recompile" => stubs = <<>> /\ ramLen = 0
  /\ ~Laid => calls = <<>>

(* The stubs follow each other up to size: none ends after it, the last one *)
(* ends there.                                                              *)
LaidUpTo(size) ==
  /\ \A m \in 1..Len(stubs) : /\ stubs[m].size = StubSize(routines[m])
                              /\ Ends(m) <= size
  /\ stubs # <<>> => Ends(Len(stubs)) = size

Growing == phase = "layout" => LaidUpTo(ramLen)

(* The image is the stubs and the quick routine, and the copy is computed   *)
(* from the last stub.                                                      *)
Image ==
  Laid => /\ Len(stubs) = Len(routines)
          /\ ramLen - QuickLen \in Nat
          /\ LaidUpTo(ramLen - QuickLen)
          /\ stubs # <<>> => copied = BytesCopied(EndOfStubs + QuickLen)

(* Each call was taken from a routine of the instruction it replaces. *)
Called ==
  \A n \in 1..Len(calls) : calls[n].kind = "stub" =>
    \E m \in 1..Len(stubs) : /\ routines[m] = prog.code[n]
                             /\ calls[n].offset = CallOf(prog.code[n], m)

IInv == Types /\ Early /\ Growing /\ Image /\ Called

-----------------------------------------------------------------------------
(* Arithmetic.                                                             *)

(* A stub takes room; the size recorded is that room or none. *)
LEMMA StubFacts ==
  ASSUME NEW r
  PROVE  /\ StubLen(r) \in 4..23
         /\ StubSize(r) = IF Sound(r.operand) THEN 0 ELSE StubLen(r)
         /\ Sound(r.operand) => StubLen(r) = 4
         /\ StubSize(r) \in Nat
<1>1. StubLen(r) \in 4..23
  BY DEF StubLen
<1>2. Sound(r.operand) => StubLen(r) = 4
  BY DEF StubLen
<1> QED BY <1>1, <1>2 DEF StubSize

(* The copy of a non empty image is whole, unless its words outnumber the   *)
(* values of a byte.                                                        *)
LEMMA WholeCopy ==
  ASSUME NEW size \in Nat \ {0}
  PROVE  /\ BytesCopied(size) \in Nat
         /\ size < 2 * Byte => size <= BytesCopied(size)
<1>0. Byte \in Nat \ {0}
  BY ByteAssumption
<1> DEFINE w == WordsOf(size)
<1>1. w \in Nat \ {0} /\ size <= 2 * w /\ 2 * w <= size + 1
  BY DEF WordsOf
<1> HIDE DEF w
<1>2. w % Byte \in 0..Byte - 1
  BY <1>0, <1>1
<1>3. w < Byte => w % Byte = w
  <2>1. \A s \in 0..Byte - 1 : s % Byte = s
    BY <1>0
  <2> QED BY <1>0, <1>1, <2>1
<1>4. Byte % Byte = 0
  BY <1>0
<1>5. BytesCopied(size) = 2 * (IF w % Byte = 0 THEN Byte ELSE w % Byte)
  BY DEF BytesCopied, w
<1>6. BytesCopied(size) \in Nat
  BY <1>0, <1>2, <1>5
<1>7. ASSUME size < 2 * Byte
      PROVE  size <= BytesCopied(size)
  <2>1. w <= Byte
    BY <1>0, <1>1, <1>7
  <2>2. CASE w = Byte
    BY <1>0, <1>1, <1>4, <1>5, <2>2
  <2>3. CASE w < Byte
    BY <1>0, <1>1, <1>3, <1>5, <2>3
  <2> QED BY <1>0, <1>1, <2>1, <2>2, <2>3
<1> QED BY <1>6, <1>7

-----------------------------------------------------------------------------
(* The steps.                                                              *)

LEMMA InitStep == Init => IInv
<1> SUFFICES ASSUME Init PROVE IInv
  OBVIOUS
<1>1. <<>> \in Seq(Stub) /\ <<>> \in Seq(Call) /\ Len(<<>>) = 0
  BY EmptySeq
<1> QED BY <1>1 DEF Init, IInv, Types, Early, Growing, Image, Called, Laid, LaidUpTo

(* Where a stub ends is a number. *)
LEMMA EndsType ==
  ASSUME stubs \in Seq(Stub), NEW m \in 1..Len(stubs)
  PROVE  Ends(m) \in Nat
<1>1. stubs[m] \in Stub
  BY ElementOfSeq
<1>2. stubs[m].offset \in Nat
  BY <1>1 DEF Stub
<1>3. StubLen(routines[m]) \in Nat
  BY StubFacts
<1>4. \A a, b \in Nat : a + b \in Nat
  OBVIOUS
<1>5. stubs[m].offset + StubLen(routines[m]) \in Nat
  BY <1>2, <1>3, <1>4, Zenon
<1> QED BY <1>5 DEF Ends

(* Laying a stub lengthens the image by that stub. *)
LEMMA LayStep == IInv /\ LayStub => IInv'
<1> SUFFICES ASSUME IInv, LayStub PROVE IInv'
  OBVIOUS
<1> DEFINE new == [offset |-> ramLen, size |-> StubSize(Next1)]
<1>1. StubLen(Next1) \in 4..23 /\ StubSize(Next1) \in Nat
  BY StubFacts
<1>2. new \in Stub /\ stubs \in Seq(Stub) /\ stubs' = Append(stubs, new)
  BY <1>1 DEF IInv, Types, LayStub, Stub
<1>3. /\ stubs' \in Seq(Stub) /\ Len(stubs') = Len(stubs) + 1 /\ Len(stubs) \in Nat
      /\ \A m \in 1..Len(stubs) : stubs'[m] = stubs[m]
      /\ stubs'[Len(stubs) + 1] = new
  BY <1>2, AppendProperties, LenProperties
<1>4. /\ UNCHANGED <<prog, phase, routines, copied, calls>>
      /\ phase = "layout" /\ ramLen \in Nat /\ ramLen' = ramLen + StubLen(Next1)
  BY DEF LayStub, IInv, Types
<1>5. Types'
  <2>1. ramLen' \in Nat
    BY <1>1, <1>4
  <2> QED BY <1>3, <1>4, <2>1 DEF IInv, Types
<1>6. Early' /\ Image'
  BY <1>4 DEF IInv, Early, Image, Laid
<1>7. Growing'
  <2>1. LaidUpTo(ramLen)
    BY <1>4 DEF IInv, Growing
  <2>2. ASSUME NEW m \in 1..Len(stubs)
        PROVE  stubs'[m].size = StubSize(routines'[m]) /\ Ends(m)' <= ramLen'
    <3>1. Ends(m) <= ramLen /\ stubs[m].size = StubSize(routines[m])
      BY <2>1 DEF LaidUpTo
    <3>2. Ends(m) \in Nat
      BY <1>2, EndsType
    <3>3. stubs'[m] = stubs[m] /\ routines' = routines
      BY <1>3, <1>4
    <3>4. Ends(m)' = Ends(m)
      BY <3>3 DEF Ends
    <3>5. Ends(m) <= ramLen'
      <4>1. \A e, l \in Nat, k \in 4..23 : e <= l => e <= l + k
        OBVIOUS
      <4> QED BY <1>1, <1>4, <3>1, <3>2, <4>1, Zenon
    <3> QED BY <3>1, <3>3, <3>4, <3>5
  <2>3. /\ stubs'[Len(stubs)'].size = StubSize(routines'[Len(stubs)'])
        /\ Ends(Len(stubs))' = ramLen'
    <3>1. Len(stubs)' = Len(stubs) + 1 /\ routines' = routines
      BY <1>3, <1>4
    <3>2. stubs'[Len(stubs)'] = new /\ routines'[Len(stubs)'] = Next1
      BY <1>3, <3>1 DEF Next1
    <3>3. Ends(Len(stubs))' = new.offset + StubLen(Next1)
      BY <3>2 DEF Ends
    <3> QED BY <1>4, <3>2, <3>3
  <2>4. \A m \in 1..Len(stubs') : m \in 1..Len(stubs) \/ m = Len(stubs)'
    BY <1>3
  <2>5. ramLen' <= ramLen'
    BY <1>1, <1>4
  <2>6. \A m \in 1..Len(stubs') : stubs'[m].size = StubSize(routines'[m]) /\ Ends(m)' <= ramLen'
    BY <2>2, <2>3, <2>4, <2>5
  <2>7. LaidUpTo(ramLen)'
    BY <2>3, <2>6 DEF LaidUpTo
  <2> QED BY <2>7 DEF Growing
<1>8. Called'
  BY <1>4, EmptySeq DEF IInv, Early, Laid, Called
<1> QED BY <1>5, <1>6, <1>7, <1>8 DEF IInv

(* The last stub is where EndOfStubs starts from. *)
LEMMA EndFacts ==
  ASSUME IInv, NEW size \in Nat, LaidUpTo(size), stubs # <<>>, Len(stubs) = Len(routines)
  PROVE  /\ EndOfStubs \in Nat /\ size <= EndOfStubs + 4
         /\ EndOfStubs <= size
         /\ ~Sound(Last(routines).operand) => EndOfStubs = size
<1> DEFINE n == Len(stubs)
<1>1. n \in 1..n /\ n \in Nat /\ stubs[n] \in Stub
  BY EmptySeq, LenProperties, ElementOfSeq DEF IInv, Types
<1>2. Last(stubs) = stubs[n] /\ Last(routines) = routines[n]
  BY DEF Last
<1>3. stubs[n].size = StubSize(routines[n]) /\ stubs[n].offset + StubLen(routines[n]) = size
  BY <1>1 DEF LaidUpTo, Ends
<1>4. EndOfStubs = stubs[n].offset + stubs[n].size
  BY <1>2 DEF EndOfStubs
<1>5. stubs[n].offset \in Nat
  BY <1>1 DEF Stub
<1>6. /\ StubLen(routines[n]) \in 4..23
      /\ StubSize(routines[n]) = IF Sound(routines[n].operand) THEN 0 ELSE StubLen(routines[n])
      /\ Sound(routines[n].operand) => StubLen(routines[n]) = 4
  BY StubFacts
<1> HIDE DEF n
<1>7. CASE Sound(routines[n].operand)
  BY <1>2, <1>3, <1>4, <1>5, <1>6, <1>7
<1>8. CASE ~Sound(routines[n].operand)
  BY <1>2, <1>3, <1>4, <1>5, <1>6, <1>8
<1> QED BY <1>7, <1>8

(* The end of the image: the quick routine, and the size that is copied. *)
LEMMA FinishStep == IInv /\ FinishRam => IInv'
<1> SUFFICES ASSUME IInv, FinishRam PROVE IInv'
  OBVIOUS
<1>1. /\ UNCHANGED <<prog, routines, stubs, calls>>
      /\ phase = "layout" /\ phase' = "patch" /\ ramLen \in Nat
      /\ ramLen' = ramLen + QuickLen /\ Len(stubs) = Len(routines)
      /\ copied' = IF Len(routines) = 0 THEN 0 ELSE BytesCopied(EndOfStubs + QuickLen)
  BY DEF FinishRam, IInv, Types
<1>2. LaidUpTo(ramLen) /\ stubs \in Seq(Stub)
  BY <1>1 DEF IInv, Growing, Types
<1>3. stubs # <<>> => EndOfStubs \in Nat
  BY <1>1, <1>2, EndFacts
<1>4. stubs # <<>> => Len(routines) # 0
  BY <1>1, <1>2, EmptySeq
<1>5. Len(routines) # 0 => stubs # <<>>
  BY <1>1, <1>2, EmptySeq
<1>6. copied' \in Nat
  BY <1>1, <1>3, <1>5, WholeCopy DEF QuickLen
<1>7. Types'
  BY <1>1, <1>6 DEF IInv, Types, QuickLen
<1>8. Early' /\ Growing'
  BY <1>1 DEF IInv, Early, Growing, Laid
<1>9. Image'
  <2>1. ramLen' - QuickLen = ramLen
    BY <1>1 DEF QuickLen
  <2>2. LaidUpTo(ramLen - QuickLen)'
    BY <1>1, <1>2, <2>1 DEF LaidUpTo, Ends, QuickLen
  <2>3. EndOfStubs' = EndOfStubs
    BY <1>1 DEF EndOfStubs
  <2> QED BY <1>1, <1>4, <2>1, <2>2, <2>3 DEF Image
<1>10. Called'
  BY <1>1, EmptySeq DEF IInv, Early, Laid, Called
<1> QED BY <1>7, <1>8, <1>9, <1>10 DEF IInv

(* What an instruction is left with is appended to the calls: nothing else  *)
(* changes, so the invariant has only that call to be true of.              *)
LEMMA CallStep ==
  ASSUME IInv, Patching, NEW call \in Call, calls' = Append(calls, call),
         UNCHANGED <<prog, phase, routines, stubs, ramLen, copied>>,
         call.kind = "stub" =>
           \E m \in 1..Len(stubs) : /\ routines[m] = ThisInstr
                                    /\ call.offset = CallOf(ThisInstr, m)
  PROVE  IInv'
<1>1. calls \in Seq(Call) /\ phase = "patch"
  BY DEF IInv, Types, Patching
<1>2. /\ calls' \in Seq(Call) /\ Len(calls') = Len(calls) + 1 /\ Len(calls) \in Nat
      /\ \A n \in 1..Len(calls) : calls'[n] = calls[n]
      /\ calls'[Len(calls) + 1] = call
  BY <1>1, AppendProperties, LenProperties
<1>3. Types' /\ Early' /\ Growing'
  BY <1>1, <1>2 DEF IInv, Types, Early, Growing, Laid
<1>4. EndOfStubs' = EndOfStubs
  BY DEF EndOfStubs
<1>5. \A m : Ends(m)' = Ends(m)
  BY DEF Ends
<1>6. Image'
  BY <1>1, <1>4, <1>5 DEF IInv, Image, Laid, LaidUpTo
<1>7. \A i, m : CallOf(i, m)' = CallOf(i, m)
  BY <1>4 DEF CallOf
<1>8. Called'
  <2> SUFFICES ASSUME NEW n \in 1..Len(calls'), calls'[n].kind = "stub"
               PROVE  \E m \in 1..Len(stubs) : /\ routines[m] = prog.code[n]
                                               /\ calls'[n].offset = CallOf(prog.code[n], m)
    BY <1>7 DEF Called
  <2>1. CASE n \in 1..Len(calls)
    BY <1>2, <2>1 DEF IInv, Called
  <2>2. CASE n = Len(calls) + 1
    BY <1>2, <2>2 DEF ThisInstr
  <2> QED BY <1>2, <2>1, <2>2
<1> QED BY <1>3, <1>6, <1>8 DEF IInv

(* Every step keeps the invariant. *)
LEMMA InvStep == IInv /\ [Next]_vars => IInv'
<1> SUFFICES ASSUME IInv, [Next]_vars PROVE IInv'
  OBVIOUS
<1>1. CASE Recompile
  <2>1. stubs = <<>> /\ ramLen = 0 /\ calls = <<>> /\ phase = "recompile"
    BY <1>1 DEF Recompile, IInv, Early, Laid
  <2>2. UNCHANGED <<stubs, ramLen, copied, calls>> /\ phase' = "layout"
    BY <1>1 DEF Recompile, Unfinished
  <2>3. Types'
    BY <2>2 DEF IInv, Types
  <2>4. Early' /\ Image'
    BY <2>1, <2>2 DEF Early, Image, Laid
  <2>5. Growing' /\ Called'
    BY <2>1, <2>2, EmptySeq DEF Growing, Called, LaidUpTo
  <2> QED BY <2>3, <2>4, <2>5 DEF IInv
<1>2. CASE RecompileAborts \/ LayStubAborts
  <2>1. phase \in {"recompile", "layout"} /\ phase' = "aborted"
    BY <1>2 DEF RecompileAborts, LayStubAborts
  <2>2. UNCHANGED <<stubs, ramLen, copied, calls>>
    BY <1>2 DEF RecompileAborts, LayStubAborts, Unfinished
  <2>3. calls = <<>>
    BY <2>1 DEF IInv, Early, Laid
  <2>4. Types' /\ Early' /\ Growing' /\ Image'
    BY <2>1, <2>2, <2>3 DEF IInv, Types, Early, Growing, Image, Laid
  <2>5. Called'
    BY <2>2, <2>3, EmptySeq DEF Called
  <2> QED BY <2>4, <2>5 DEF IInv
<1>3. CASE LayStub
  BY <1>3, LayStep
<1>4. CASE FinishRam
  BY <1>4, FinishStep
<1>5. CASE Keep
  <2>1. [kind |-> "kept", offset |-> 0] \in Call
    BY DEF Call
  <2> QED BY <1>5, <2>1, CallStep DEF Keep
<1>6. CASE Patch
  <2>1. PICK n \in RoutinesFor(ThisInstr) :
          calls' = Append(calls, [kind |-> "stub", offset |-> CallOf(ThisInstr, n)])
    BY <1>6 DEF Patch
  <2>2. Patching /\ phase = "patch" /\ UNCHANGED <<prog, phase, routines, stubs, ramLen, copied>>
    BY <1>6 DEF Patch, Patching
  <2>3. Len(stubs) = Len(routines) /\ ramLen - QuickLen \in Nat /\ LaidUpTo(ramLen - QuickLen)
    BY <2>2 DEF IInv, Image, Laid
  <2>4. n \in 1..Len(stubs) /\ routines[n] = ThisInstr
    BY <2>1, <2>3 DEF RoutinesFor
  <2>5. CallOf(ThisInstr, n) \in Nat
    <3>1. stubs \in Seq(Stub)
      BY DEF IInv, Types
    <3>2. stubs[n] \in Stub /\ stubs # <<>>
      BY <2>4, <3>1, ElementOfSeq, EmptySeq
    <3>3. EndOfStubs \in Nat
      BY <2>3, <3>2, EndFacts
    <3>4. stubs[n].offset \in Nat
      BY <3>2 DEF Stub
    <3> QED BY <3>3, <3>4 DEF CallOf
  <2>6. [kind |-> "stub", offset |-> CallOf(ThisInstr, n)] \in Call
    BY <2>5 DEF Call
  <2> QED BY <2>1, <2>2, <2>4, <2>6, CallStep
<1>7. CASE RoutineNotFound \/ Done
  <2>1. /\ phase = "patch" /\ phase' \in {"notfound", "done"}
        /\ UNCHANGED <<prog, routines, stubs, ramLen, copied, calls>>
    BY <1>7 DEF RoutineNotFound, Done, Patching
  <2>2. Types' /\ Early' /\ Growing'
    BY <2>1 DEF IInv, Types, Early, Growing, Laid
  <2>3. Image'
    BY <2>1 DEF IInv, Image, Laid, LaidUpTo, Ends, EndOfStubs
  <2>4. Called'
    BY <2>1 DEF IInv, Called, CallOf, EndOfStubs
  <2> QED BY <2>2, <2>3, <2>4 DEF IInv
<1>8. CASE UNCHANGED vars
  <2>1. UNCHANGED <<prog, phase, routines, stubs, ramLen, copied, calls>>
    BY <1>8 DEF vars
  <2>2. Types' /\ Early'
    BY <2>1 DEF IInv, Types, Early, Laid
  <2>3. Growing' /\ Image'
    BY <2>1 DEF IInv, Growing, Image, Laid, LaidUpTo, Ends, EndOfStubs
  <2>4. Called'
    BY <2>1 DEF IInv, Called, CallOf, EndOfStubs
  <2> QED BY <2>2, <2>3, <2>4 DEF IInv
<1> QED BY <1>1, <1>2, <1>3, <1>4, <1>5, <1>6, <1>7, <1>8 DEF Next

-----------------------------------------------------------------------------
(* What a patched instruction calls.                                       *)

LEMMA CallsFollow == IInv => CallsItsStub
<1> SUFFICES ASSUME IInv, ramLen < 2 * Byte,
                    NEW n \in 1..Len(calls), calls[n].kind = "stub"
             PROVE  IF QuickCall(prog.code[n])
                    THEN \/ Sound(Last(routines).operand)
                         \/ calls[n].offset = ramLen - QuickLen /\ ramLen <= copied
                    ELSE \E m \in DOMAIN stubs : /\ routines[m] = prog.code[n]
                                                 /\ calls[n].offset = stubs[m].offset
                                                 /\ WholeInRam(m)
  <2>1. DOMAIN calls = 1..Len(calls)
    BY LenProperties DEF IInv, Types
  <2> QED BY <2>1 DEF CallsItsStub
<1>1. stubs \in Seq(Stub) /\ DOMAIN stubs = 1..Len(stubs) /\ Len(stubs) \in Nat
  BY LenProperties DEF IInv, Types
<1>2. PICK m \in 1..Len(stubs) : /\ routines[m] = prog.code[n]
                                 /\ calls[n].offset = CallOf(prog.code[n], m)
  BY DEF IInv, Called
<1>3. Laid
  <2>1. calls # <<>>
    BY EmptySeq
  <2> QED BY <2>1 DEF IInv, Early
<1> DEFINE size == ramLen - QuickLen
<1>4. /\ Len(stubs) = Len(routines) /\ size \in Nat /\ LaidUpTo(size)
      /\ stubs # <<>> => copied = BytesCopied(EndOfStubs + QuickLen)
  BY <1>3 DEF IInv, Image
<1>5. stubs # <<>>
  BY <1>1, <1>2, EmptySeq
<1>6. /\ EndOfStubs \in Nat /\ size <= EndOfStubs + 4 /\ EndOfStubs <= size
      /\ ~Sound(Last(routines).operand) => EndOfStubs = size
  BY <1>4, <1>5, EndFacts
<1>7. EndOfStubs + QuickLen <= copied /\ copied \in Nat
  <2>1. /\ EndOfStubs + QuickLen \in Nat \ {0}
        /\ EndOfStubs + QuickLen < 2 * Byte
    BY <1>4, <1>6, ByteAssumption DEF QuickLen, IInv, Types
  <2> QED BY <1>4, <1>5, <2>1, WholeCopy
<1>8. CASE QuickCall(prog.code[n])
  <2>1. calls[n].offset = EndOfStubs
    BY <1>2, <1>8 DEF CallOf, QuickCall
  <2>2. ~Sound(Last(routines).operand) => ramLen <= copied
    BY <1>4, <1>6, <1>7 DEF QuickLen, IInv, Types
  <2> QED BY <1>6, <1>8, <2>1, <2>2
<1>9. CASE ~QuickCall(prog.code[n])
  <2>1. calls[n].offset = stubs[m].offset
    BY <1>2, <1>9 DEF CallOf, QuickCall
  <2>2. Ends(m) <= size
    BY <1>4 DEF LaidUpTo
  <2>3. Ends(m) \in Nat
    BY <1>1, EndsType
  <2>4. Ends(m) <= copied
    BY <1>4, <1>6, <1>7, <2>2, <2>3 DEF QuickLen
  <2>5. WholeInRam(m)
    BY <2>4 DEF WholeInRam, Ends
  <2> QED BY <1>1, <1>2, <1>9, <2>1, <2>5
<1> QED BY <1>8, <1>9

(* A patched instruction calls the stub written for it, and that stub is in  *)
(* ram, whole: for any listing, any number of stubs and any width of the     *)
(* counter of the copy.                                                      *)
THEOREM CallsCorrect == Spec => []CallsItsStub
<1>1. Spec => []IInv
  BY InitStep, InvStep, PTL DEF Spec
<1> QED BY <1>1, CallsFollow, PTL

-----------------------------------------------------------------------------
(* Induction, and functions defined by recursion: no operator parameter, a   *)
(* set or a function in its place.                                          *)

LEMMA LessWellFounded == IsWellFoundedOn({p \in Nat \X Nat : p[1] < p[2]}, Nat)
BY NatLessThanWellFounded DEF OpToRel

(* Induction, on a set of numbers. *)
LEMMA SetInduction ==
  ASSUME NEW S, 0 \in S, \A n \in Nat : n \in S => n + 1 \in S
  PROVE  \A n \in Nat : n \in S
<1> DEFINE T == Nat \ S
<1> SUFFICES ASSUME T # {} PROVE FALSE
  OBVIOUS
<1>1. PICK x \in T : \A y \in T : <<y, x>> \notin {p \in Nat \X Nat : p[1] < p[2]}
  BY LessWellFounded, WFMin
<1>2. x # 0 /\ x \in Nat
  OBVIOUS
<1>3. x - 1 \in Nat /\ x - 1 < x
  BY <1>2
<1>4. x - 1 \notin T
  BY <1>1, <1>2, <1>3
<1>5. (x - 1) + 1 = x
  BY <1>2
<1> QED BY <1>2, <1>3, <1>4, <1>5

(* G gives a value in V from one in V, at each place from m + 1 to L; f is   *)
(* what it gives in turn, from a on.                                        *)
Moves(G, V, m, L) == G \in [V \X ((m..L) \ {m}) -> V]
Iterates(f, a, G, V, m, L) ==
  /\ f \in [m..L -> V]
  /\ f[m] = a
  /\ \A n \in (m..L) \ {m} : f[n] = G[<<f[n - 1], n>>]

(* A function so defined exists. *)
LEMMA Iterate ==
  ASSUME NEW m \in Nat, NEW L \in Nat, m <= L,
         NEW V, NEW a \in V, NEW G, Moves(G, V, m, L)
  PROVE  \E f : Iterates(f, a, G, V, m, L)
<1> DEFINE Upto(f, k) == /\ f \in [m..m + k -> V]
                         /\ f[m] = a
                         /\ \A n \in m + 1..m + k : f[n] = G[<<f[n - 1], n>>]
           S == {k \in Nat : m + k <= L => \E f : Upto(f, k)}
<1>1. 0 \in S
  <2>1. Upto([n \in m..m |-> a], 0)
    OBVIOUS
  <2> QED BY <2>1
<1>2. ASSUME NEW k \in Nat, k \in S, m + (k + 1) <= L
      PROVE  \E f : Upto(f, k + 1)
  <2>1. PICK f : Upto(f, k)
    BY <1>2
  <2> DEFINE e == m + k
             g == [n \in m..e + 1 |-> IF n = e + 1 THEN G[<<f[e], e + 1>>] ELSE f[n]]
  <2>2. e \in m..e /\ e + 1 \in (m..L) \ {m} /\ f[e] \in V
    BY <1>2, <2>1
  <2>3. G[<<f[e], e + 1>>] \in V
    BY <2>2 DEF Moves
  <2>4. g \in [m..e + 1 -> V]
    BY <2>1, <2>3
  <2>5. g[m] = a
    BY <2>1, <2>2
  <2>6. ASSUME NEW n \in m + 1..e + 1
        PROVE  g[n] = G[<<g[n - 1], n>>]
    <3>1. CASE n = e + 1
      <4>1. n - 1 = e /\ n \in m..e + 1 /\ e \in m..e + 1 /\ e # e + 1
        BY <3>1
      <4>2. g[n] = G[<<f[e], e + 1>>] /\ g[n - 1] = f[e]
        BY <3>1, <4>1
      <4> QED BY <3>1, <4>2
    <3>2. CASE n \in m + 1..e
      <4>1. n \in m..e + 1 /\ n - 1 \in m..e + 1 /\ n # e + 1 /\ n - 1 # e + 1
        BY <3>2
      <4>2. g[n] = f[n] /\ g[n - 1] = f[n - 1]
        BY <4>1
      <4> QED BY <2>1, <3>2, <4>2
    <3> QED BY <3>1, <3>2
  <2>7. m + (k + 1) = e + 1
    OBVIOUS
  <2>8. Upto(g, k + 1)
    BY <2>4, <2>5, <2>6, <2>7
  <2> QED BY <2>8
<1>3. \A k \in Nat : k \in S
  <2> HIDE DEF Upto
  <2>1. \A k \in Nat : k \in S => k + 1 \in S
    BY <1>2
  <2> HIDE DEF S
  <2> QED BY <1>1, <2>1, SetInduction
<1>4. L - m \in Nat /\ m + (L - m) = L
  OBVIOUS
<1>5. PICK f : Upto(f, L - m)
  <2>1. L - m \in S /\ m + (L - m) <= L
    <3> HIDE DEF S
    <3> QED BY <1>3, <1>4
  <2> QED BY <2>1
<1>6. \A n \in (m..L) \ {m} : n \in m + 1..L
  OBVIOUS
<1> QED BY <1>4, <1>5, <1>6 DEF Iterates

-----------------------------------------------------------------------------
(* Sequences: what they hold.                                              *)

LEMMA SeqHolds ==
  ASSUME NEW T, NEW s \in Seq(T)
  PROVE  /\ ToSet(s) = {s[i] : i \in 1..Len(s)}
         /\ ToSet(s) \subseteq T
<1>1. DOMAIN s = 1..Len(s)
  BY LenProperties
<1>2. \A i \in 1..Len(s) : s[i] \in T
  BY ElementOfSeq
<1> QED BY <1>1, <1>2 DEF ToSet

LEMMA EmptyHolds == ToSet(<<>>) = {}
BY DEF ToSet

LEMMA AppendHolds ==
  ASSUME NEW T, NEW s \in Seq(T), NEW x \in T
  PROVE  /\ Append(s, x) \in Seq(T)
         /\ ToSet(Append(s, x)) = ToSet(s) \cup {x}
<1> DEFINE t == Append(s, x)
<1>1. /\ t \in Seq(T) /\ Len(t) = Len(s) + 1 /\ Len(s) \in Nat
      /\ \A i \in 1..Len(s) : t[i] = s[i]
      /\ t[Len(s) + 1] = x
  BY AppendProperties, LenProperties
<1>2. ToSet(t) = {t[i] : i \in 1..Len(s) + 1} /\ ToSet(s) = {s[i] : i \in 1..Len(s)}
  BY <1>1, SeqHolds
<1> HIDE DEF t
<1>3. \A i : i \in 1..Len(s) + 1 <=> i \in 1..Len(s) \/ i = Len(s) + 1
  BY <1>1
<1>4. ToSet(t) = ToSet(s) \cup {x}
  BY <1>1, <1>2, <1>3
<1> QED BY <1>1, <1>4 DEF t

LEMMA ConcatHolds ==
  ASSUME NEW T, NEW s \in Seq(T), NEW t \in Seq(T)
  PROVE  /\ s \o t \in Seq(T)
         /\ ToSet(s \o t) = ToSet(s) \cup ToSet(t)
<1>1. s \o t \in Seq(T)
  BY ConcatProperties
<1>2. \A u : ToSet(u) = Range(u)
  BY DEF ToSet, Range
<1> QED BY <1>1, <1>2, RangeConcatenation

LEMMA ReverseHolds ==
  ASSUME NEW T, NEW s \in Seq(T)
  PROVE  /\ Reverse(s) \in Seq(T)
         /\ ToSet(Reverse(s)) = ToSet(s)
<1> DEFINE n == Len(s)
           r == Reverse(s)
<1>1. n \in Nat /\ \A i \in 1..n : s[i] \in T /\ (n - i) + 1 \in 1..n /\ n - ((n - i) + 1) + 1 = i
  BY LenProperties, ElementOfSeq
<1>2. r = [i \in 1..n |-> s[(n - i) + 1]]
  BY DEF Reverse
<1>3. r \in Seq(T) /\ DOMAIN r = 1..n
  BY <1>1, <1>2
<1>4. ToSet(s) = {s[i] : i \in 1..n}
  BY SeqHolds
<1>5. ToSet(r) = {r[i] : i \in 1..n}
  BY <1>3 DEF ToSet
<1>6. \A i \in 1..n : r[i] = s[(n - i) + 1] /\ s[i] = r[(n - i) + 1]
  BY <1>1, <1>2
<1> HIDE DEF n, r
<1>7. ToSet(r) = ToSet(s)
  BY <1>1, <1>4, <1>5, <1>6
<1> QED BY <1>3, <1>7 DEF r

(* Only keeps the items that are in a set, and no other. *)
LEMMA OnlyHolds ==
  ASSUME NEW T, NEW s \in Seq(T), NEW S
  PROVE  /\ Only(s, S) \in Seq(T)
         /\ ToSet(Only(s, S)) = ToSet(s) \cap S
<1> DEFINE L == Len(s)
           Step(v, n) == IF s[n] \in S THEN Append(v, s[n]) ELSE v
           Value(f, n) == IF n = 0 THEN <<>> ELSE Step(f[n - 1], n)
           Eq(f) == f = [n \in 0..L |-> Value(f, n)]
           only == CHOOSE f : Eq(f)
<1>1. L \in Nat /\ \A n \in 1..L : s[n] \in T
  BY LenProperties, ElementOfSeq
<1>2. \E f : Eq(f)
  <2> DEFINE G == [p \in Seq(T) \X ((0..L) \ {0}) |-> Step(p[1], p[2])]
  <2>1. \A v \in Seq(T), n \in 1..L : Step(v, n) \in Seq(T)
    BY <1>1, AppendProperties
  <2>2. Moves(G, Seq(T), 0, L)
    BY <2>1 DEF Moves
  <2>3. <<>> \in Seq(T)
    BY EmptySeq
  <2>4. \A v \in Seq(T), n \in 1..L : G[<<v, n>>] = Step(v, n)
    OBVIOUS
  <2>5. PICK f : Iterates(f, <<>>, G, Seq(T), 0, L)
    <3>1. 0 \in Nat /\ L \in Nat /\ 0 <= L
      BY <1>1
    <3> HIDE DEF L, G
    <3> QED BY <2>2, <2>3, <3>1, Iterate
  <2> HIDE DEF G
  <2>6. \A n \in 0..L : n = 0 \/ (n \in 1..L /\ n - 1 \in 0..L)
    BY <1>1
  <2>7. \A n \in 1..L : f[n - 1] \in Seq(T)
    BY <2>5, <2>6 DEF Iterates
  <2>8. \A n \in 0..L : f[n] = Value(f, n)
    BY <2>4, <2>5, <2>6, <2>7 DEF Iterates
  <2>9. Eq(f)
    <3> HIDE DEF Value
    <3> QED BY <2>5, <2>8 DEF Iterates
  <2> QED BY <2>9
<1>3. Eq(only)
  BY <1>2
<1>4. Only(s, S) = only[L]
  BY DEF Only
<1> HIDE DEF only
<1> DEFINE K == {n \in Nat : n <= L => /\ only[n] \in Seq(T)
                                       /\ ToSet(only[n]) = {s[i] : i \in 1..n} \cap S}
<1>5. 0 \in K
  <2>1. only[0] = <<>>
    BY <1>1, <1>3
  <2>2. {s[i] : i \in 1..0} \cap S = {}
    OBVIOUS
  <2> QED BY <2>1, <2>2, EmptySeq, EmptyHolds
<1>6. ASSUME NEW n \in Nat, n \in K
      PROVE  n + 1 \in K
  <2> SUFFICES ASSUME n + 1 <= L
               PROVE  /\ only[n + 1] \in Seq(T)
                      /\ ToSet(only[n + 1]) = {s[i] : i \in 1..n + 1} \cap S
    OBVIOUS
  <2>1. /\ n + 1 \in 0..L /\ n + 1 # 0 /\ (n + 1) - 1 = n /\ s[n + 1] \in T
        /\ only[n] \in Seq(T) /\ ToSet(only[n]) = {s[i] : i \in 1..n} \cap S
    BY <1>1, <1>6
  <2>2. only[n + 1] = IF s[n + 1] \in S THEN Append(only[n], s[n + 1]) ELSE only[n]
    BY <1>3, <2>1
  <2>3. \A i : i \in 1..n + 1 <=> i \in 1..n \/ i = n + 1
    OBVIOUS
  <2>4. CASE s[n + 1] \in S
    BY <2>1, <2>2, <2>3, <2>4, AppendHolds
  <2>5. CASE s[n + 1] \notin S
    BY <2>1, <2>2, <2>3, <2>5
  <2> QED BY <2>4, <2>5
<1>7. L \in K
  <2> HIDE DEF K
  <2> QED BY <1>1, <1>5, <1>6, SetInduction
<1>8. ToSet(s) = {s[i] : i \in 1..L}
  BY SeqHolds
<1> QED BY <1>1, <1>4, <1>7, <1>8

(* Distinct keeps them all. *)
LEMMA DistinctHolds ==
  ASSUME NEW T, NEW s \in Seq(T)
  PROVE  /\ Distinct(s) \in Seq(T)
         /\ ToSet(Distinct(s)) = ToSet(s)
<1> DEFINE L == Len(s)
           Step(v, n) == IF s[n] \in ToSet(v) THEN v ELSE Append(v, s[n])
           Value(f, n) == IF n = 0 THEN <<>> ELSE Step(f[n - 1], n)
           Eq(f) == f = [n \in 0..L |-> Value(f, n)]
           distinct == CHOOSE f : Eq(f)
<1>1. L \in Nat /\ \A n \in 1..L : s[n] \in T
  BY LenProperties, ElementOfSeq
<1>2. \E f : Eq(f)
  <2> DEFINE G == [p \in Seq(T) \X ((0..L) \ {0}) |-> Step(p[1], p[2])]
  <2>1. \A v \in Seq(T), n \in 1..L : Step(v, n) \in Seq(T)
    BY <1>1, AppendProperties
  <2>2. Moves(G, Seq(T), 0, L)
    BY <2>1 DEF Moves
  <2>3. <<>> \in Seq(T)
    BY EmptySeq
  <2>4. \A v \in Seq(T), n \in 1..L : G[<<v, n>>] = Step(v, n)
    OBVIOUS
  <2>5. PICK f : Iterates(f, <<>>, G, Seq(T), 0, L)
    <3>1. 0 \in Nat /\ L \in Nat /\ 0 <= L
      BY <1>1
    <3> HIDE DEF L, G
    <3> QED BY <2>2, <2>3, <3>1, Iterate
  <2> HIDE DEF G
  <2>6. \A n \in 0..L : n = 0 \/ (n \in 1..L /\ n - 1 \in 0..L)
    BY <1>1
  <2>7. \A n \in 1..L : f[n - 1] \in Seq(T)
    BY <2>5, <2>6 DEF Iterates
  <2>8. \A n \in 0..L : f[n] = Value(f, n)
    BY <2>4, <2>5, <2>6, <2>7 DEF Iterates
  <2>9. Eq(f)
    <3> HIDE DEF Value
    <3> QED BY <2>5, <2>8 DEF Iterates
  <2> QED BY <2>9
<1>3. Eq(distinct)
  BY <1>2
<1>4. Distinct(s) = distinct[L]
  BY DEF Distinct
<1> HIDE DEF distinct
<1> DEFINE K == {n \in Nat : n <= L => /\ distinct[n] \in Seq(T)
                                       /\ ToSet(distinct[n]) = {s[i] : i \in 1..n}}
<1>5. 0 \in K
  <2>1. distinct[0] = <<>>
    BY <1>1, <1>3
  <2>2. {s[i] : i \in 1..0} = {}
    OBVIOUS
  <2> QED BY <2>1, <2>2, EmptySeq, EmptyHolds
<1>6. ASSUME NEW n \in Nat, n \in K
      PROVE  n + 1 \in K
  <2> SUFFICES ASSUME n + 1 <= L
               PROVE  /\ distinct[n + 1] \in Seq(T)
                      /\ ToSet(distinct[n + 1]) = {s[i] : i \in 1..n + 1}
    OBVIOUS
  <2>1. /\ n + 1 \in 0..L /\ n + 1 # 0 /\ (n + 1) - 1 = n /\ s[n + 1] \in T
        /\ distinct[n] \in Seq(T) /\ ToSet(distinct[n]) = {s[i] : i \in 1..n}
    BY <1>1, <1>6
  <2>2. distinct[n + 1] = IF s[n + 1] \in ToSet(distinct[n]) THEN distinct[n]
                          ELSE Append(distinct[n], s[n + 1])
    BY <1>3, <2>1
  <2>3. \A i : i \in 1..n + 1 <=> i \in 1..n \/ i = n + 1
    OBVIOUS
  <2>4. CASE s[n + 1] \in ToSet(distinct[n])
    BY <2>1, <2>2, <2>3, <2>4
  <2>5. CASE s[n + 1] \notin ToSet(distinct[n])
    BY <2>1, <2>2, <2>3, <2>5, AppendHolds
  <2> QED BY <2>4, <2>5
<1>7. L \in K
  <2> HIDE DEF K
  <2> QED BY <1>1, <1>5, <1>6, SetInduction
<1>8. ToSet(s) = {s[i] : i \in 1..L}
  BY SeqHolds
<1> QED BY <1>1, <1>4, <1>7, <1>8

(* FlattenSeq holds what the sequences hold. *)
LEMMA FlattenHolds ==
  ASSUME NEW T, NEW seqs \in Seq(Seq(T))
  PROVE  /\ FlattenSeq(seqs) \in Seq(T)
         /\ ToSet(FlattenSeq(seqs)) = {x \in T : \E i \in 1..Len(seqs) : x \in ToSet(seqs[i])}
<1> DEFINE L == Len(seqs)
           Value(f, n) == IF n = 1 THEN seqs[n] ELSE f[n - 1] \o seqs[n]
           Eq(f) == f = [n \in 1..L |-> Value(f, n)]
           flatten == CHOOSE f : Eq(f)
<1>1. L \in Nat /\ \A n \in 1..L : seqs[n] \in Seq(T)
  BY LenProperties, ElementOfSeq
<1>2. CASE L = 0
  <2>1. seqs = <<>> /\ FlattenSeq(seqs) = <<>>
    BY <1>2, EmptySeq DEF FlattenSeq
  <2>2. {x \in T : \E i \in 1..0 : x \in ToSet(seqs[i])} = {}
    OBVIOUS
  <2> QED BY <1>2, <2>1, <2>2, EmptySeq, EmptyHolds
<1>3. CASE L # 0
  <2>1. L \in Nat \ {0} /\ 1 \in 1..L /\ L \in 1..L
    BY <1>1, <1>3
  <2>2. \E f : Eq(f)
    <3> DEFINE G == [p \in Seq(T) \X ((1..L) \ {1}) |-> p[1] \o seqs[p[2]]]
    <3>1. \A v \in Seq(T), n \in 1..L : v \o seqs[n] \in Seq(T)
      BY <1>1, ConcatProperties
    <3>2. Moves(G, Seq(T), 1, L)
      BY <3>1 DEF Moves
    <3>3. seqs[1] \in Seq(T)
      BY <1>1, <2>1
    <3>4. \A v \in Seq(T), n \in (1..L) \ {1} : G[<<v, n>>] = v \o seqs[n]
      OBVIOUS
    <3>5. PICK f : Iterates(f, seqs[1], G, Seq(T), 1, L)
      <4>1. 1 \in Nat /\ L \in Nat /\ 1 <= L
        BY <2>1
      <4> HIDE DEF L, G
      <4> QED BY <3>2, <3>3, <4>1, Iterate
    <3> HIDE DEF G
    <3>6. \A n \in 1..L : n = 1 \/ (n \in (1..L) \ {1} /\ n - 1 \in 1..L)
      BY <1>1
    <3>7. \A n \in (1..L) \ {1} : f[n - 1] \in Seq(T)
      BY <3>5, <3>6 DEF Iterates
    <3>8. \A n \in 1..L : f[n] = Value(f, n)
      BY <3>4, <3>5, <3>6, <3>7 DEF Iterates
    <3>9. Eq(f)
      <4> HIDE DEF Value
      <4> QED BY <3>5, <3>8 DEF Iterates
    <3> QED BY <3>9
  <2>3. Eq(flatten)
    BY <2>2
  <2>4. FlattenSeq(seqs) = flatten[L]
    BY <1>3 DEF FlattenSeq
  <2> HIDE DEF flatten
  <2> DEFINE Held(n) == {x \in T : \E i \in 1..n : x \in ToSet(seqs[i])}
             Good(n) == flatten[n] \in Seq(T) /\ ToSet(flatten[n]) = Held(n)
             K == {n \in Nat : n + 1 <= L => Good(n + 1)}
  <2>5. Good(1)
    <3>1. flatten[1] = seqs[1] /\ seqs[1] \in Seq(T)
      BY <1>1, <2>1, <2>3
    <3>2. ToSet(seqs[1]) \subseteq T
      BY <3>1, SeqHolds
    <3>3. \A i : i \in 1..1 <=> i = 1
      OBVIOUS
    <3>4. Held(1) = ToSet(seqs[1])
      BY <3>2, <3>3
    <3> QED BY <3>1, <3>4
  <2>6. ASSUME NEW n \in Nat, Good(n + 1), n + 2 <= L
        PROVE  Good(n + 2)
    <3> DEFINE m == n + 2
    <3>1. m \in 1..L /\ m # 1 /\ m - 1 = n + 1 /\ seqs[m] \in Seq(T)
      BY <1>1, <2>6
    <3>2. flatten[m] = flatten[n + 1] \o seqs[m]
      BY <2>3, <3>1
    <3>3. ToSet(seqs[m]) \subseteq T
      BY <3>1, SeqHolds
    <3>4. \A i : i \in 1..m <=> i \in 1..n + 1 \/ i = m
      OBVIOUS
    <3>5. Held(m) = Held(n + 1) \cup ToSet(seqs[m])
      <4> HIDE DEF m
      <4> QED BY <3>3, <3>4
    <3>6. flatten[m] \in Seq(T) /\ ToSet(flatten[m]) = Held(n + 1) \cup ToSet(seqs[m])
      BY <2>6, <3>1, <3>2, ConcatHolds
    <3> QED BY <3>5, <3>6
  <2> HIDE DEF Good
  <2>7. L - 1 \in K
    <3>1. 0 \in K
      BY <2>5
    <3>2. \A n \in Nat : n \in K => n + 1 \in K
      <4> SUFFICES ASSUME NEW n \in Nat, n \in K, (n + 1) + 1 <= L
                   PROVE  Good((n + 1) + 1)
        OBVIOUS
      <4>1. n + 1 <= L /\ (n + 1) + 1 = n + 2
        BY <1>1
      <4> QED BY <2>6, <4>1
    <3>3. L - 1 \in Nat
      BY <2>1
    <3> HIDE DEF K
    <3> QED BY <3>1, <3>2, <3>3, SetInduction
  <2>8. Good(L)
    <3>1. (L - 1) + 1 = L /\ L <= L
      BY <1>1
    <3> QED BY <2>7, <3>1
  <2> QED BY <2>4, <2>8 DEF Good
<1> QED BY <1>2, <1>3

(* Ascending enumerates a finite set of numbers. *)
LEMMA AscendingHolds ==
  ASSUME NEW S \in SUBSET Nat, IsFiniteSet(S)
  PROVE  /\ Ascending(S) \in Seq(S)
         /\ ToSet(Ascending(S)) = S
<1> DEFINE Lists(s, n, R) == /\ s \in [1..n -> R]
                             /\ \A a, b \in 1..n : a < b => s[a] < s[b]
           K == {n \in Nat : \A R \in SUBSET Nat :
                   IsFiniteSet(R) /\ Cardinality(R) = n => \E s : Lists(s, n, R)}
<1>1. 0 \in K
  <2>1. ASSUME NEW R \in SUBSET Nat
        PROVE  Lists(<<>>, 0, R)
    OBVIOUS
  <2> QED BY <2>1
<1>2. ASSUME NEW n \in Nat, n \in K
      PROVE  n + 1 \in K
  <2> SUFFICES ASSUME NEW R \in SUBSET Nat, IsFiniteSet(R), Cardinality(R) = n + 1
               PROVE  \E s : Lists(s, n + 1, R)
    OBVIOUS
  <2>1. R # {}
    BY FS_EmptySet
  <2>2. PICK x \in R : \A y \in R : <<y, x>> \notin {p \in Nat \X Nat : p[1] < p[2]}
    BY <2>1, LessWellFounded, WFMin
  <2>3. ASSUME NEW y \in R \ {x}
        PROVE  x < y
    <3>1. x \in Nat /\ y \in Nat /\ y # x /\ <<y, x>> \notin {p \in Nat \X Nat : p[1] < p[2]}
      BY <2>2
    <3>2. ~(y < x)
      BY <3>1
    <3> QED BY <3>1, <3>2
  <2>4. IsFiniteSet(R \ {x}) /\ Cardinality(R \ {x}) = n
    <3>1. (n + 1) - 1 = n
      OBVIOUS
    <3> QED BY <3>1, FS_RemoveElement
  <2>5. PICK t : Lists(t, n, R \ {x})
    BY <1>2, <2>4
  <2> DEFINE s == [i \in 1..n + 1 |-> IF i = 1 THEN x ELSE t[i - 1]]
  <2>6. \A i \in 1..n + 1 : i = 1 \/ i - 1 \in 1..n
    OBVIOUS
  <2>7. s \in [1..n + 1 -> R]
    BY <2>5, <2>6
  <2>8. ASSUME NEW a \in 1..n + 1, NEW b \in 1..n + 1, a < b
        PROVE  s[a] < s[b]
    <3>1. b # 1 /\ b - 1 \in 1..n
      BY <2>8
    <3>2. CASE a = 1
      BY <2>3, <2>5, <3>1, <3>2
    <3>3. CASE a # 1
      <4>1. a - 1 \in 1..n /\ a - 1 < b - 1
        BY <2>8, <3>3
      <4> QED BY <2>5, <3>1, <3>3, <4>1
    <3> QED BY <3>2, <3>3
  <2> QED BY <2>7, <2>8
<1> DEFINE n == Cardinality(S)
           t == Ascending(S)
<1>3. n \in Nat
  BY FS_CardinalityType
<1>4. n \in K
  <2> HIDE DEF K
  <2> QED BY <1>1, <1>2, <1>3, SetInduction
<1>5. Lists(t, n, S)
  <2>1. PICK s : Lists(s, n, S)
    BY <1>4
  <2>2. s \in [1..Cardinality(S) -> S] /\ \A a, b \in DOMAIN s : a < b => s[a] < s[b]
    BY <2>1
  <2>3. t \in [1..Cardinality(S) -> S] /\ \A a, b \in DOMAIN t : a < b => t[a] < t[b]
    BY <2>2 DEF Ascending
  <2> QED BY <2>3
<1> HIDE DEF t, n
<1>6. t \in Injection(1..n, S)
  <2>1. ASSUME NEW a \in 1..n, NEW b \in 1..n, t[a] = t[b]
        PROVE  a = b
    <3>1. t[a] \in Nat /\ t[b] \in Nat
      BY <1>5
    <3>2. ~(a < b) /\ ~(b < a)
      BY <1>5, <2>1, <3>1
    <3> QED BY <1>3, <3>2
  <2> QED BY <1>5, <2>1 DEF Injection, IsInjective
<1>7. Cardinality(1..n) = Cardinality(S)
  BY <1>3, FS_Interval DEF n
<1>8. t \in Surjection(1..n, S)
  BY <1>6, <1>7, FS_Injection
<1>9. t \in Seq(S) /\ DOMAIN t = 1..n
  BY <1>3, <1>5
<1> QED BY <1>8, <1>9 DEF Surjection, ToSet, t

-----------------------------------------------------------------------------
(* What the list of the routines holds.                                    *)

LEMMA CodeType ==
  ASSUME prog \in ProgramType
  PROVE  /\ prog.code \in Seq(Instr) /\ prog.jumps \in Seq(Nat)
         /\ Accesses = {i \in ToSet(prog.code) : ~IsJump(i)}
         /\ ToSet(prog.code) \subseteq Instr
         /\ IsFiniteSet({i.operand : i \in Accesses})
         /\ {i.operand : i \in Accesses} \in SUBSET Nat
<1>1. prog.code \in Seq(Instr) /\ prog.jumps \in Seq(Nat)
  BY DEF ProgramType
<1>2. ToSet(prog.code) = {prog.code[n] : n \in 1..Len(prog.code)} /\ ToSet(prog.code) \subseteq Instr
  BY <1>1, SeqHolds
<1>3. IsFiniteSet(ToSet(prog.code))
  <2>1. IsFiniteSet(1..Len(prog.code))
    BY <1>1, LenProperties, FS_Interval
  <2> DEFINE f == [n \in 1..Len(prog.code) |-> prog.code[n]]
  <2>2. f \in Surjection(1..Len(prog.code), ToSet(prog.code))
    BY <1>2 DEF Surjection
  <2> HIDE DEF f
  <2> QED BY <2>1, <2>2, FS_Surjection
<1>4. IsFiniteSet(Accesses)
  BY <1>3, FS_Subset DEF Accesses
<1>5. IsFiniteSet({i.operand : i \in Accesses})
  <2> DEFINE f == [i \in Accesses |-> i.operand]
  <2>1. f \in Surjection(Accesses, {i.operand : i \in Accesses})
    BY DEF Surjection
  <2> HIDE DEF f
  <2> QED BY <1>4, <2>1, FS_Surjection
<1>6. \A i \in Instr : i.operand \in Nat
  BY DEF Instr
<1> QED BY <1>1, <1>2, <1>5, <1>6 DEF Accesses

(* The accesses of a port by a mnemonic are found: where only one of them    *)
(* is taken, they are all the same instruction.                             *)
LEMMA FindInstrHolds ==
  ASSUME prog \in ProgramType, \A i \in Accesses : ~Refused(i), NEW mn, NEW port
  PROVE  /\ FindInstr(mn, port) \in Seq(Instr)
         /\ \A i \in Accesses : i.mn = mn /\ i.operand = port => i \in ToSet(FindInstr(mn, port))
<1> DEFINE A == {i \in Accesses : i.mn = mn /\ i.operand = port}
           found == Distinct(AccessesOf(mn, port))
<1>1. prog.code \in Seq(Instr) /\ A \subseteq ToSet(prog.code) /\ ToSet(prog.code) \subseteq Instr
  BY CodeType
<1>2. Reverse(prog.code) \in Seq(Instr) /\ ToSet(Reverse(prog.code)) = ToSet(prog.code)
  BY <1>1, ReverseHolds
<1>3. AccessesOf(mn, port) \in Seq(Instr) /\ ToSet(AccessesOf(mn, port)) = A
  BY <1>1, <1>2, OnlyHolds DEF AccessesOf
<1>4. found \in Seq(Instr) /\ ToSet(found) = A
  BY <1>3, DistinctHolds
<1> HIDE DEF found
<1>5. CASE mn \notin {"stx", "sty"}
  BY <1>4, <1>5 DEF FindInstr, found
<1>6. CASE mn \in {"stx", "sty"}
  <2>1. FindInstr(mn, port) = FirstOnly(found)
    BY <1>6 DEF FindInstr, found
  <2>2. CASE found = <<>>
    BY <1>4, <2>1, <2>2, EmptyHolds DEF FirstOnly
  <2>3. CASE found # <<>>
    <3>1. Len(found) \in Nat \ {0} /\ Head(found) = found[1]
      BY <1>4, <2>3, EmptySeq
    <3>2. found[1] \in A
      BY <1>4, <3>1, SeqHolds
    <3>3. \A i \in A : i = found[1]
      <4>1. \A i \in A : i.mode = "abs"
        BY <1>6 DEF Refused, NotProgrammed
      <4>2. \A i, j \in Instr : i.mn = j.mn /\ i.mode = j.mode /\ i.operand = j.operand => i = j
        BY DEF Instr
      <4> QED BY <1>1, <3>2, <4>1, <4>2
    <3>4. FindInstr(mn, port) = <<found[1]>>
      BY <2>1, <2>3, <3>1 DEF FirstOnly
    <3>5. <<found[1]>> \in Seq(Instr) /\ found[1] \in ToSet(<<found[1]>>)
      BY <1>1, <3>2 DEF ToSet
    <3> QED BY <3>3, <3>4, <3>5
  <2> QED BY <2>2, <2>3
<1> QED BY <1>5, <1>6

Emulated(i) == i.mn \in ToSet(EmulatedMnemonics)

(* Every access with a mnemonic that has an emulation has its routine. *)
LEMMA IoRoutinesHold ==
  ASSUME prog \in ProgramType, \A i \in Accesses : ~Refused(i)
  PROVE  /\ IoRoutines \in Seq(Instr)
         /\ \A i \in Accesses : Emulated(i) => i \in ToSet(IoRoutines)
<1> DEFINE P == {i.operand : i \in Accesses}
<1>1. Accesses \subseteq Instr /\ P \in SUBSET Nat /\ IsFiniteSet(P)
  BY CodeType
<1>2. Ports \in Seq(P) /\ ToSet(Ports) = P
  BY <1>1, AscendingHolds DEF Ports
<1>3. ASSUME NEW port
      PROVE  /\ OfPort(port) \in Seq(Instr)
             /\ \A i \in Accesses : Emulated(i) /\ i.operand = port => i \in ToSet(OfPort(port))
  <2> DEFINE of == [m \in DOMAIN EmulatedMnemonics |-> FindInstr(EmulatedMnemonics[m], port)]
  <2>1. DOMAIN EmulatedMnemonics = 1..7
    BY DEF EmulatedMnemonics
  <2>2. of \in Seq(Seq(Instr)) /\ Len(of) = 7
    BY <2>1, FindInstrHolds
  <2>3. ASSUME NEW i \in Accesses, Emulated(i), i.operand = port
        PROVE  \E m \in 1..Len(of) : i \in ToSet(of[m])
    <3>1. PICK m \in 1..7 : i.mn = EmulatedMnemonics[m]
      BY <2>1, <2>3 DEF Emulated, ToSet
    <3>2. i \in ToSet(FindInstr(EmulatedMnemonics[m], port))
      BY <2>3, <3>1, FindInstrHolds
    <3> QED BY <2>1, <2>2, <3>2
  <2>4. OfPort(port) = FlattenSeq(of)
    BY DEF OfPort
  <2> HIDE DEF of
  <2>5. /\ FlattenSeq(of) \in Seq(Instr)
        /\ ToSet(FlattenSeq(of)) = {x \in Instr : \E i \in 1..Len(of) : x \in ToSet(of[i])}
    BY <2>2, FlattenHolds
  <2> QED BY <1>1, <2>3, <2>4, <2>5
<1> DEFINE all == [n \in DOMAIN Ports |-> OfPort(Ports[n])]
<1>4. DOMAIN Ports = 1..Len(Ports) /\ Len(Ports) \in Nat
  BY <1>2, LenProperties
<1>5. all \in Seq(Seq(Instr)) /\ Len(all) = Len(Ports)
  BY <1>3, <1>4
<1>6. ASSUME NEW i \in Accesses, Emulated(i)
      PROVE  \E n \in 1..Len(all) : i \in ToSet(all[n])
  <2>1. PICK n \in DOMAIN Ports : Ports[n] = i.operand
    BY <1>2 DEF ToSet
  <2> QED BY <1>3, <1>4, <1>5, <1>6, <2>1
<1>7. IoRoutines = FlattenSeq(all)
  BY DEF IoRoutines
<1> HIDE DEF all
<1>8. /\ FlattenSeq(all) \in Seq(Instr)
      /\ ToSet(FlattenSeq(all)) = {x \in Instr : \E i \in 1..Len(all) : x \in ToSet(all[i])}
  BY <1>5, FlattenHolds
<1> QED BY <1>1, <1>6, <1>7, <1>8

(* Every jump of the configuration has its routine, unless they are left out. *)
LEMMA JumpRoutinesHold ==
  ASSUME prog \in ProgramType
  PROVE  /\ JumpRoutines \in Seq(Instr)
         /\ ~prog.disabled =>
              \A i \in Instr : IsJump(i) /\ i.operand \in ToSet(prog.jumps) => i \in ToSet(JumpRoutines)
<1> DEFINE jump(op) == [mn |-> "jmp", mode |-> "ind", operand |-> op]
<1>1. prog.jumps \in Seq(Nat)
  BY CodeType
<1>2. \A op \in Nat : jump(op) \in Instr
  BY DEF Instr, Mnemonics, Modes
<1>3. CASE prog.disabled
  BY <1>3, EmptySeq DEF JumpRoutines
<1>4. CASE ~prog.disabled
  <2>1. JumpRoutines = [n \in 1..Len(prog.jumps) |-> jump(prog.jumps[n])]
    BY <1>4 DEF JumpRoutines
  <2>2. JumpRoutines \in Seq(Instr)
    BY <1>1, <1>2, <2>1, LenProperties, ElementOfSeq
  <2>3. ASSUME NEW i \in Instr, IsJump(i), i.operand \in ToSet(prog.jumps)
        PROVE  i \in ToSet(JumpRoutines)
    <3>1. PICK n \in 1..Len(prog.jumps) : prog.jumps[n] = i.operand
      BY <1>1, <2>3, SeqHolds
    <3>2. i = jump(i.operand)
      BY <2>3 DEF Instr, IsJump
    <3>3. JumpRoutines[n] = i /\ n \in DOMAIN JumpRoutines
      BY <2>1, <3>1, <3>2
    <3> QED BY <3>3 DEF ToSet
  <2> QED BY <2>2, <2>3
<1> QED BY <1>3, <1>4

(* The sort keeps every routine. *)
LEMMA SortedHolds ==
  ASSUME NEW s \in Seq(Instr)
  PROVE  Sorted(s) \in Seq(Instr) /\ ToSet(Sorted(s)) = ToSet(s)
<1> DEFINE W == Only(s, {i \in ToSet(s) : IsWrite(i)})
           R == Only(s, {i \in ToSet(s) : IsRead(i)})
           J == Only(s, {i \in ToSet(s) : IsJump(i)})
<1>1. W \in Seq(Instr) /\ ToSet(W) = {i \in ToSet(s) : IsWrite(i)}
  BY OnlyHolds
<1>2. R \in Seq(Instr) /\ ToSet(R) = {i \in ToSet(s) : IsRead(i)}
  BY OnlyHolds
<1>3. J \in Seq(Instr) /\ ToSet(J) = {i \in ToSet(s) : IsJump(i)}
  BY OnlyHolds
<1>4. Sorted(s) = W \o R \o J
  BY DEF Sorted
<1> HIDE DEF W, R, J
<1>5. W \o R \in Seq(Instr) /\ ToSet(W \o R) = ToSet(W) \cup ToSet(R)
  BY <1>1, <1>2, ConcatHolds
<1> DEFINE WR == W \o R
<1>6. WR \o J \in Seq(Instr) /\ ToSet(WR \o J) = ToSet(WR) \cup ToSet(J)
  <2>1. WR \in Seq(Instr)
    BY <1>5
  <2> HIDE DEF WR
  <2> QED BY <1>3, <2>1, ConcatHolds
<1> QED BY <1>1, <1>2, <1>3, <1>4, <1>5, <1>6 DEF IsWrite

-----------------------------------------------------------------------------
(* The routines of the listing.                                            *)

(* The accesses that have an emulation and the jumps of the configuration. *)
Served(i) ==
  \/ ~IsJump(i) /\ Emulated(i)
  \/ IsJump(i) /\ ~prog.disabled /\ i.operand \in ToSet(prog.jumps)

Covered == \A i \in ToSet(prog.code) : Served(i) => i \in ToSet(routines)

(* The lists grow within bounds, and once the routines are known each access *)
(* served has its own.                                                      *)
FoundInv ==
  /\ prog \in ProgramType
  /\ routines \in Seq(Instr)
  /\ phase \in {"layout", "patch", "notfound"} => Covered
  /\ Len(stubs) <= Len(routines)
  /\ Len(calls) <= Len(prog.code)
  /\ phase = "notfound" =>
       Len(calls) < Len(prog.code) /\ ~Kept(ThisInstr) /\ RoutinesFor(ThisInstr) = {}

LEMMA FoundInit == Init => FoundInv
<1> SUFFICES ASSUME Init PROVE FoundInv
  OBVIOUS
<1>1. prog \in ProgramType
  BY ProgramsAssumption DEF Init
<1>2. Len(prog.code) \in Nat
  BY <1>1, CodeType, LenProperties
<1>3. <<>> \in Seq(Instr) /\ Len(<<>>) = 0
  BY EmptySeq
<1> QED BY <1>1, <1>2, <1>3 DEF Init, FoundInv

(* Recompile writes a routine for whatever is served. *)
LEMMA RecompileFinds ==
  ASSUME prog \in ProgramType, Recompile
  PROVE  routines' \in Seq(Instr) /\ Covered'
<1>1. UNCHANGED prog /\ routines' = Sorted(IoRoutines \o JumpRoutines) /\ \A i \in Accesses : ~Refused(i)
  BY DEF Recompile, Unfinished
<1>2. /\ IoRoutines \in Seq(Instr)
      /\ \A i \in Accesses : Emulated(i) => i \in ToSet(IoRoutines)
  BY <1>1, IoRoutinesHold
<1>3. /\ JumpRoutines \in Seq(Instr)
      /\ ~prog.disabled =>
           \A i \in Instr : IsJump(i) /\ i.operand \in ToSet(prog.jumps) => i \in ToSet(JumpRoutines)
  BY JumpRoutinesHold
<1> DEFINE all == IoRoutines \o JumpRoutines
<1>4. all \in Seq(Instr) /\ ToSet(all) = ToSet(IoRoutines) \cup ToSet(JumpRoutines)
  BY <1>2, <1>3, ConcatHolds
<1> HIDE DEF all
<1>5. routines' \in Seq(Instr) /\ ToSet(routines') = ToSet(all)
  BY <1>1, <1>4, SortedHolds DEF all
<1>6. ASSUME NEW i \in ToSet(prog.code), Served(i)
      PROVE  i \in ToSet(all)
  <2>1. i \in Instr /\ (~IsJump(i) => i \in Accesses)
    BY CodeType
  <2> QED BY <1>2, <1>3, <1>4, <1>6, <2>1 DEF Served
<1>7. \A i : Served(i)' = Served(i)
  BY <1>1 DEF Served
<1> QED BY <1>1, <1>5, <1>6, <1>7 DEF Covered

LEMMA FoundStep == IInv /\ FoundInv /\ [Next]_vars => FoundInv'
<1> SUFFICES ASSUME IInv, FoundInv, [Next]_vars PROVE FoundInv'
  OBVIOUS
<1>1. /\ prog \in ProgramType /\ routines \in Seq(Instr)
      /\ Len(stubs) <= Len(routines) /\ Len(calls) <= Len(prog.code)
  BY DEF FoundInv
<1>2. Len(stubs) \in Nat /\ Len(routines) \in Nat /\ Len(calls) \in Nat /\ Len(prog.code) \in Nat
  BY <1>1, CodeType, LenProperties DEF IInv, Types
<1>3. CASE Recompile
  <2>1. UNCHANGED <<prog, stubs, calls>> /\ phase' = "layout" /\ stubs = <<>>
    BY <1>3 DEF Recompile, Unfinished, IInv, Early
  <2>2. routines' \in Seq(Instr) /\ Covered'
    BY <1>1, <1>3, RecompileFinds
  <2>3. Len(stubs') <= Len(routines')
    BY <2>1, <2>2, EmptySeq, LenProperties
  <2> QED BY <1>1, <2>1, <2>2, <2>3 DEF FoundInv
<1>4. CASE RecompileAborts \/ LayStubAborts
  <2>1. UNCHANGED <<prog, routines, stubs, calls>> /\ phase' = "aborted"
    BY <1>4 DEF RecompileAborts, LayStubAborts, Unfinished
  <2> QED BY <1>1, <2>1 DEF FoundInv
<1>5. CASE LayStub
  <2>1. /\ UNCHANGED <<prog, phase, routines, calls>> /\ phase = "layout"
        /\ Len(stubs) < Len(routines)
        /\ stubs' = Append(stubs, [offset |-> ramLen, size |-> StubSize(Next1)])
    BY <1>5 DEF LayStub
  <2>2. Len(stubs') = Len(stubs) + 1
    <3>1. [offset |-> ramLen, size |-> StubSize(Next1)] \in Stub /\ stubs \in Seq(Stub)
      BY StubFacts DEF Stub, IInv, Types
    <3> QED BY <2>1, <3>1, AppendProperties
  <2>3. Covered'
    BY <2>1 DEF FoundInv, Covered, Served
  <2> QED BY <1>1, <1>2, <2>1, <2>2, <2>3 DEF FoundInv
<1>6. CASE FinishRam
  <2>1. UNCHANGED <<prog, routines, stubs, calls>> /\ phase = "layout" /\ phase' = "patch"
    BY <1>6 DEF FinishRam
  <2>2. Covered'
    BY <2>1 DEF FoundInv, Covered, Served
  <2> QED BY <1>1, <2>1, <2>2 DEF FoundInv
<1>7. CASE Keep \/ Patch
  <2>1. /\ UNCHANGED <<prog, phase, routines, stubs>> /\ phase = "patch"
        /\ Len(calls) < Len(prog.code)
        /\ \E c : calls' = Append(calls, c)
    BY <1>7 DEF Keep, Patch, Patching
  <2>2. Len(calls') = Len(calls) + 1
    <3>1. calls \in Seq(Call)
      BY DEF IInv, Types
    <3> QED BY <2>1, <3>1
  <2>3. Covered'
    BY <2>1 DEF FoundInv, Covered, Served
  <2> QED BY <1>1, <1>2, <2>1, <2>2, <2>3 DEF FoundInv
<1>8. CASE RoutineNotFound
  <2>1. /\ UNCHANGED <<prog, routines, stubs, calls>> /\ phase = "patch"
        /\ Len(calls) < Len(prog.code)
        /\ ~Kept(ThisInstr) /\ RoutinesFor(ThisInstr) = {}
    BY <1>8 DEF RoutineNotFound, Patching
  <2>2. Covered'
    BY <2>1 DEF FoundInv, Covered, Served
  <2>3. ~Kept(ThisInstr)' /\ RoutinesFor(ThisInstr)' = {}
    BY <2>1 DEF Kept, RoutinesFor, ThisInstr
  <2> QED BY <1>1, <2>1, <2>2, <2>3 DEF FoundInv
<1>9. CASE Done
  <2>1. UNCHANGED <<prog, routines, stubs, calls>> /\ phase' = "done"
    BY <1>9 DEF Done
  <2> QED BY <1>1, <2>1 DEF FoundInv
<1>10. CASE UNCHANGED vars
  <2>1. UNCHANGED <<prog, phase, routines, stubs, calls>>
    BY <1>10 DEF vars
  <2> QED BY <1>1, <2>1 DEF FoundInv, Covered, Served, Kept, RoutinesFor, ThisInstr
<1> QED BY <1>3, <1>4, <1>5, <1>6, <1>7, <1>8, <1>9, <1>10 DEF Next

LEMMA BothInvariants == Spec => [](IInv /\ FoundInv)
<1>1. Init => IInv /\ FoundInv
  BY InitStep, FoundInit
<1>2. (IInv /\ FoundInv) /\ [Next]_vars => (IInv /\ FoundInv)'
  BY InvStep, FoundStep
<1> QED BY <1>1, <1>2, PTL DEF Spec

(* The routines stay instructions of the listing whatever is sorted and      *)
(* removed on the way, and no pass goes further than its list.              *)
THEOREM TypeCorrect == Spec => []TypeOK
<1>1. ASSUME IInv, FoundInv
      PROVE  TypeOK
  <2>1. DOMAIN routines = 1..Len(routines) /\ \A n \in 1..Len(routines) : routines[n] \in Instr
    BY <1>1, LenProperties, ElementOfSeq DEF FoundInv
  <2>2. DOMAIN stubs = 1..Len(stubs) /\ \A n \in 1..Len(stubs) : stubs[n] \in Stub
    BY <1>1, LenProperties, ElementOfSeq DEF IInv, Types
  <2>3. DOMAIN calls = 1..Len(calls) /\ \A n \in 1..Len(calls) : calls[n] \in Call
    BY <1>1, LenProperties, ElementOfSeq DEF IInv, Types
  <2> QED BY <1>1, <2>1, <2>2, <2>3 DEF TypeOK, IInv, Types, FoundInv, Stub, Call
<1> QED BY <1>1, BothInvariants, PTL

(* An instruction without a routine is one that has no emulation or a jump   *)
(* the configuration does not know: for any listing, however the routines    *)
(* were collected, freed from doubles and sorted.                           *)
THEOREM RoutineFoundCorrect == Spec => []RoutineFound
<1>1. ASSUME IInv, FoundInv
      PROVE  RoutineFound
  <2> SUFFICES ASSUME phase = "notfound",
                      ThisInstr.mn \in ToSet(EmulatedMnemonics) \cup {"jmp"},
                      ~(IsJump(ThisInstr) /\ ThisInstr.operand \notin ToSet(prog.jumps))
               PROVE  FALSE
    BY DEF RoutineFound
  <2>1. Len(calls) < Len(prog.code) /\ ~Kept(ThisInstr) /\ RoutinesFor(ThisInstr) = {} /\ Covered
    BY <1>1 DEF FoundInv
  <2>2. Len(calls) + 1 \in 1..Len(prog.code)
    BY <1>1, <2>1, CodeType, LenProperties DEF FoundInv, IInv, Types
  <2>3. ThisInstr \in ToSet(prog.code) /\ ThisInstr \in Instr
    BY <1>1, <2>2, CodeType, SeqHolds DEF ThisInstr, FoundInv
  <2>4. IsJump(ThisInstr) <=> ThisInstr.mn = "jmp"
    BY <2>3 DEF IsJump, Instr
  <2>5. Served(ThisInstr)
    BY <2>1, <2>4 DEF Served, Emulated, Kept
  <2>6. ThisInstr \in ToSet(routines)
    BY <2>1, <2>3, <2>5 DEF Covered
  <2>7. \E n \in 1..Len(routines) : routines[n] = ThisInstr
    BY <1>1, <2>6, SeqHolds DEF FoundInv
  <2> QED BY <2>1, <2>7 DEF RoutinesFor
<1> QED BY <1>1, BothInvariants, PTL

-----------------------------------------------------------------------------
(* No two instructions share a place.                                      *)

Apart == \A m, n \in 1..Len(stubs) : m < n => Ends(m) <= stubs[n].offset

(* The routine patchBRK is left with: the last one of the instruction. *)
LastFor(i) == {m \in RoutinesFor(i) : \A k \in RoutinesFor(i) : k <= m}

Owned ==
  \A n \in 1..Len(calls) : calls[n].kind = "stub" =>
    /\ ~Kept(prog.code[n])
    /\ \E m \in LastFor(prog.code[n]) : calls[n].offset = CallOf(prog.code[n], m)

LEMMA ApartStep == IInv /\ Apart /\ [Next]_vars => Apart'
<1> SUFFICES ASSUME IInv, Apart, [Next]_vars PROVE Apart'
  OBVIOUS
<1>1. CASE Recompile
  <2>1. stubs' = <<>>
    BY <1>1 DEF Recompile, Unfinished, IInv, Early
  <2> QED BY <2>1, EmptySeq DEF Apart
<1>2. CASE LayStub
  <2> DEFINE new == [offset |-> ramLen, size |-> StubSize(Next1)]
  <2>1. /\ stubs' = Append(stubs, new) /\ routines' = routines
        /\ LaidUpTo(ramLen) /\ stubs \in Seq(Stub) /\ new \in Stub
    BY <1>2, StubFacts DEF LayStub, IInv, Growing, Types, Stub
  <2>2. /\ Len(stubs') = Len(stubs) + 1 /\ Len(stubs) \in Nat
        /\ \A m \in 1..Len(stubs) : stubs'[m] = stubs[m]
        /\ stubs'[Len(stubs) + 1].offset = ramLen
    BY <2>1, AppendProperties, LenProperties
  <2>3. \A m \in 1..Len(stubs) : Ends(m)' = Ends(m) /\ Ends(m) <= ramLen
    BY <2>1, <2>2 DEF Ends, LaidUpTo
  <2> SUFFICES ASSUME NEW m \in 1..Len(stubs'), NEW n \in 1..Len(stubs'), m < n
               PROVE  Ends(m)' <= stubs'[n].offset
    BY DEF Apart
  <2>4. m \in 1..Len(stubs)
    BY <2>2
  <2>5. CASE n \in 1..Len(stubs)
    BY <2>2, <2>3, <2>4, <2>5 DEF Apart
  <2>6. CASE n = Len(stubs) + 1
    BY <2>2, <2>3, <2>4, <2>6
  <2> QED BY <2>2, <2>5, <2>6
<1>3. CASE UNCHANGED <<routines, stubs>>
  BY <1>3 DEF Apart, Ends
<1> QED
  BY <1>1, <1>2, <1>3
  DEF Next, RecompileAborts, LayStubAborts, FinishRam, Keep, Patch, RoutineNotFound, Done,
      Unfinished, vars

LEMMA OwnedStep == IInv /\ Owned /\ [Next]_vars => Owned'
<1> SUFFICES ASSUME IInv, Owned, [Next]_vars PROVE Owned'
  OBVIOUS
<1>1. CASE Recompile \/ RecompileAborts \/ LayStub \/ LayStubAborts \/ FinishRam
  <2>1. calls' = calls /\ calls = <<>>
    BY <1>1 DEF Recompile, RecompileAborts, LayStub, LayStubAborts, FinishRam, Unfinished, IInv, Early, Laid
  <2> QED BY <2>1, EmptySeq DEF Owned
<1>2. ASSUME UNCHANGED <<prog, routines, stubs>>
      PROVE  \A i : /\ Kept(i)' = Kept(i) /\ LastFor(i)' = LastFor(i)
                    /\ \A m : CallOf(i, m)' = CallOf(i, m)
  BY <1>2 DEF Kept, LastFor, RoutinesFor, CallOf, EndOfStubs
<1>3. ASSUME NEW call \in Call, calls' = Append(calls, call), UNCHANGED <<prog, routines, stubs>>,
             call.kind = "stub" =>
               /\ ~Kept(ThisInstr)
               /\ \E m \in LastFor(ThisInstr) : call.offset = CallOf(ThisInstr, m)
      PROVE  Owned'
  <2>1. /\ Len(calls') = Len(calls) + 1 /\ Len(calls) \in Nat
        /\ \A n \in 1..Len(calls) : calls'[n] = calls[n]
        /\ calls'[Len(calls) + 1] = call
    BY <1>3, AppendProperties, LenProperties DEF IInv, Types
  <2> SUFFICES ASSUME NEW n \in 1..Len(calls'), calls'[n].kind = "stub"
               PROVE  /\ ~Kept(prog.code[n])
                      /\ \E m \in LastFor(prog.code[n]) : calls'[n].offset = CallOf(prog.code[n], m)
    BY <1>2, <1>3 DEF Owned
  <2>2. CASE n \in 1..Len(calls)
    BY <2>1, <2>2 DEF Owned
  <2>3. CASE n = Len(calls) + 1
    BY <1>3, <2>1, <2>3 DEF ThisInstr
  <2> QED BY <2>1, <2>2, <2>3
<1>4. CASE Keep
  <2>1. [kind |-> "kept", offset |-> 0] \in Call
    BY DEF Call
  <2> QED BY <1>3, <1>4, <2>1 DEF Keep
<1>5. CASE Patch
  <2>1. PICK n \in LastFor(ThisInstr) :
          calls' = Append(calls, [kind |-> "stub", offset |-> CallOf(ThisInstr, n)])
    BY <1>5 DEF Patch, LastFor
  <2> DEFINE call == [kind |-> "stub", offset |-> CallOf(ThisInstr, n)]
  <2>2. call \in Call
    <3>1. IInv'
      BY InvStep
    <3>2. Append(calls, call) \in Seq(Call) /\ calls \in Seq(Call)
      BY <2>1, <3>1 DEF IInv, Types
    <3>3. Len(Append(calls, call)) = Len(calls) + 1 /\ Append(calls, call)[Len(calls) + 1] = call
          /\ Len(calls) \in Nat
      BY <3>2, LenProperties
    <3> QED BY <3>2, <3>3, ElementOfSeq
  <2>3. ~Kept(ThisInstr) /\ UNCHANGED <<prog, routines, stubs>>
    BY <1>5 DEF Patch
  <2> QED BY <1>3, <2>1, <2>2, <2>3
<1>6. CASE RoutineNotFound \/ Done \/ UNCHANGED vars
  <2>1. UNCHANGED <<prog, routines, stubs, calls>>
    BY <1>6 DEF RoutineNotFound, Done, vars
  <2> QED BY <1>2, <2>1 DEF Owned
<1> QED BY <1>1, <1>4, <1>5, <1>6 DEF Next

(* Two instructions are sent to the same place exactly when they are the    *)
(* same one.                                                                *)
OwnCalls ==
  \A a, b \in DOMAIN calls : calls[a].kind = "stub" /\ calls[b].kind = "stub" =>
    (calls[a].offset = calls[b].offset <=> prog.code[a] = prog.code[b])

LEMMA OwnFollows == IInv /\ FoundInv /\ Apart /\ Owned => OwnCalls
<1> SUFFICES ASSUME IInv, FoundInv, Apart, Owned,
                    NEW a \in 1..Len(calls), NEW b \in 1..Len(calls),
                    calls[a].kind = "stub", calls[b].kind = "stub"
             PROVE  calls[a].offset = calls[b].offset <=> prog.code[a] = prog.code[b]
  <2>1. DOMAIN calls = 1..Len(calls)
    BY LenProperties DEF IInv, Types
  <2> QED BY <2>1 DEF OwnCalls
<1>1. stubs \in Seq(Stub) /\ Len(stubs) \in Nat
  BY LenProperties DEF IInv, Types
<1>2. Laid
  <2>1. calls # <<>>
    BY EmptySeq
  <2> QED BY <2>1 DEF IInv, Early
<1> DEFINE size == ramLen - QuickLen
<1>3. Len(stubs) = Len(routines) /\ size \in Nat /\ LaidUpTo(size)
  BY <1>2 DEF IInv, Image
<1>4. PICK m \in LastFor(prog.code[a]) : calls[a].offset = CallOf(prog.code[a], m)
  BY DEF Owned
<1>5. PICK n \in LastFor(prog.code[b]) : calls[b].offset = CallOf(prog.code[b], n)
  BY DEF Owned
<1>6. /\ m \in 1..Len(stubs) /\ routines[m] = prog.code[a]
      /\ n \in 1..Len(stubs) /\ routines[n] = prog.code[b]
  BY <1>3, <1>4, <1>5 DEF LastFor, RoutinesFor
<1>7. ASSUME prog.code[a] = prog.code[b]
      PROVE  calls[a].offset = calls[b].offset
  <2>1. m = n
    BY <1>4, <1>5, <1>6, <1>7 DEF LastFor
  <2> QED BY <1>4, <1>5, <1>7, <2>1
<1>8. ~Sound(prog.code[a].operand) /\ ~Sound(prog.code[b].operand)
  BY DEF Owned, Kept
<1>9. prog.code[a] \in Instr /\ prog.code[b] \in Instr
  <2>1. a \in 1..Len(prog.code) /\ b \in 1..Len(prog.code)
    BY CodeType, LenProperties DEF FoundInv, IInv, Types
  <2> QED BY <2>1, CodeType, SeqHolds DEF FoundInv
<1>10. \A o, e \in Nat, k \in 4..23 : o + k <= e => o < e /\ o # e
  OBVIOUS
<1>11. \A o, e, z \in Nat : o < e => o < e + z
  OBVIOUS
(* A stub lies below the end the quick routine is called at. *)
<1>12. ASSUME NEW k \in 1..Len(stubs), ~Sound(routines[k].operand)
       PROVE  stubs[k].offset \in Nat /\ stubs[k].offset < EndOfStubs
  <2> DEFINE last == Len(stubs)
  <2>1. stubs # <<>> /\ last \in 1..last /\ stubs[k] \in Stub /\ stubs[last] \in Stub
    BY <1>1, EmptySeq, ElementOfSeq
  <2>2. stubs[k].offset \in Nat /\ stubs[last].offset \in Nat
    BY <2>1 DEF Stub
  <2>3. StubLen(routines[k]) \in 4..23 /\ StubSize(routines[last]) \in Nat
    BY StubFacts
  <2>4. EndOfStubs = stubs[last].offset + StubSize(routines[last])
    BY <1>1, <1>3, <2>1 DEF EndOfStubs, Last, LaidUpTo
  <2>5. CASE k = last
    <3>1. StubSize(routines[last]) = StubLen(routines[k])
      BY <1>12, <2>5, StubFacts
    <3>2. EndOfStubs = stubs[k].offset + StubLen(routines[k]) /\ EndOfStubs \in Nat
      BY <2>2, <2>3, <2>4, <2>5, <3>1
    <3> HIDE DEF last
    <3>3. stubs[k].offset + StubLen(routines[k]) <= EndOfStubs
      BY <3>2
    <3> QED BY <1>10, <2>2, <2>3, <3>2, <3>3, Zenon
  <2>6. CASE k < last
    <3>1. stubs[k].offset + StubLen(routines[k]) <= stubs[last].offset
      BY <2>1, <2>6 DEF Apart, Ends
    <3>2. stubs[k].offset < stubs[last].offset
      BY <1>10, <2>2, <2>3, <3>1, Zenon
    <3> QED BY <1>11, <2>2, <2>3, <2>4, <3>2, Zenon
  <2> QED BY <1>1, <2>5, <2>6
<1>13. ASSUME NEW k \in 1..Len(stubs), NEW l \in 1..Len(stubs), k < l
       PROVE  stubs[k].offset # stubs[l].offset
  <2>0. stubs[k] \in Stub /\ stubs[l] \in Stub
    BY <1>1, ElementOfSeq
  <2>1. stubs[k].offset \in Nat /\ stubs[l].offset \in Nat
    BY <2>0 DEF Stub
  <2>2. StubLen(routines[k]) \in 4..23 /\ stubs[k].offset + StubLen(routines[k]) <= stubs[l].offset
    BY <1>13, StubFacts DEF Apart, Ends
  <2> QED BY <1>10, <2>1, <2>2, Zenon
<1>14. ASSUME prog.code[a] # prog.code[b]
       PROVE  calls[a].offset # calls[b].offset
  <2>1. CASE QuickCall(prog.code[a]) /\ QuickCall(prog.code[b])
    <3>1. prog.code[a] = prog.code[b]
      BY <1>9, <2>1 DEF QuickCall, Instr
    <3> QED BY <1>14, <3>1
  <2>2. CASE QuickCall(prog.code[a]) /\ ~QuickCall(prog.code[b])
    <3>1. calls[a].offset = EndOfStubs /\ calls[b].offset = stubs[n].offset
      BY <1>4, <1>5, <2>2 DEF CallOf, QuickCall
    <3>2. stubs[n].offset \in Nat /\ stubs[n].offset < EndOfStubs
      BY <1>6, <1>8, <1>12
    <3> QED BY <3>1, <3>2
  <2>3. CASE ~QuickCall(prog.code[a]) /\ QuickCall(prog.code[b])
    <3>1. calls[a].offset = stubs[m].offset /\ calls[b].offset = EndOfStubs
      BY <1>4, <1>5, <2>3 DEF CallOf, QuickCall
    <3>2. stubs[m].offset \in Nat /\ stubs[m].offset < EndOfStubs
      BY <1>6, <1>8, <1>12
    <3> QED BY <3>1, <3>2
  <2>4. CASE ~QuickCall(prog.code[a]) /\ ~QuickCall(prog.code[b])
    <3>1. calls[a].offset = stubs[m].offset /\ calls[b].offset = stubs[n].offset
      BY <1>4, <1>5, <2>4 DEF CallOf, QuickCall
    <3>2. m < n \/ n < m
      BY <1>6, <1>14
    <3> QED BY <1>6, <1>13, <3>1, <3>2
  <2> QED BY <2>1, <2>2, <2>3, <2>4
<1> QED BY <1>7, <1>14

(* No two stubs overlap, and no access calls the stub of another one, or the *)
(* quick routine: not even when the last stub records no size and the quick  *)
(* routine is called four bytes too early, on a stub that is not called.     *)
THEOREM OwnCallsCorrect == Spec => []OwnCalls
<1>1. Init => Apart /\ Owned
  BY EmptySeq DEF Init, Apart, Owned
<1>2. (IInv /\ FoundInv) /\ (Apart /\ Owned) /\ [Next]_vars => (Apart /\ Owned)'
  BY ApartStep, OwnedStep
<1> QED BY <1>1, <1>2, BothInvariants, OwnFollows, PTL DEF Spec
=============================================================================
