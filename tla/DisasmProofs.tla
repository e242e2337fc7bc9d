---------------------------- MODULE DisasmProofs ----------------------------
(***************************************************************************)
(* Machine checked proofs about Disasm, for every PRG size and program.    *)
(***************************************************************************)
EXTENDS Disasm, FiniteSetTheorems, SequenceTheorems, TLAPS

-----------------------------------------------------------------------------
(* Types.                                                                  *)

\* The instruction at cur, when cur is in the PRG.
LEMMA CurType ==
  ASSUME TypeOK, ~OutOfPrg(cur)
  PROVE  /\ cur \in Prg /\ cur < Top
         /\ Cur.kind \in Kinds /\ Cur.size \in 1..3 /\ Cur.target \in Addr
BY AddrAssumption DEF TypeOK, OutOfPrg, Cur, ProgramType, Instr, Addr, Prg

\* Known destinations are addresses.
LEMMA KnownType ==
  ASSUME TypeOK, NEW op
  PROVE  KnownAddrs(prog, op) \subseteq Addr
<1> SUFFICES ASSUME NEW i \in DOMAIN prog.known PROVE prog.known[i][2] \in Addr
  BY DEF KnownAddrs
<1>1. prog.known \in Seq(Addr \X Addr)
  BY DEF TypeOK, ProgramType
<1>2. prog.known[i] \in Addr \X Addr
  BY <1>1, LenProperties, ElementOfSeq
<1> QED BY <1>2

\* The pieces the handlers share.
LEMMA PopType ==
  ASSUME TypeOK, NEW s \in Seq(Addr), Pop(s)
  PROVE  running' \in BOOLEAN /\ cur' \in Addr /\ stack' \in Seq(Addr)
<1>1. CASE s = <<>>
  BY <1>1 DEF Pop, TypeOK
<1>2. CASE s # <<>>
  BY <1>2, HeadTailProperties DEF Pop, TypeOK
<1> QED BY <1>1, <1>2

LEMMA AdvanceType ==
  ASSUME TypeOK, ~OutOfPrg(cur), Advance
  PROVE  running' \in BOOLEAN /\ cur' \in Addr
<1>1. cur \in Nat /\ cur < Top /\ Top \in Nat /\ Cur.size \in 1..3
  BY CurType, AddrAssumption DEF TypeOK, Addr
<1>2. CASE cur > Top - Cur.size
  BY <1>2 DEF Advance, TypeOK
<1>3. CASE ~(cur > Top - Cur.size)
  <2>1. cur + Cur.size \in Addr
    BY <1>1, <1>3 DEF Addr
  <2> QED BY <1>3, <2>1 DEF Advance, TypeOK
<1> QED BY <1>2, <1>3

LEMMA InsertType ==
  ASSUME TypeOK, ~OutOfPrg(cur), NEW dests, dests \subseteq Addr, Insert(dests)
  PROVE  /\ explore' \in [Prg -> Marks] /\ listed' \subseteq Prg
         /\ nodes' \subseteq Addr /\ branches' \subseteq Prg \X Addr
<1>1. cur \in Prg /\ cur \in Addr
  BY CurType DEF TypeOK
<1>2. explore' \in [Prg -> Marks]
  BY DEF Insert, Teint, Marks, TypeOK
<1>3. listed' \subseteq Prg /\ nodes' \subseteq Addr
  BY <1>1 DEF Insert, TypeOK
<1>4. branches' \subseteq Prg \X Addr
  <2>1. {<<cur, d>> : d \in dests} \subseteq Prg \X Addr
    BY <1>1
  <2> QED BY <2>1 DEF Insert, TypeOK
<1> QED BY <1>2, <1>3, <1>4

LEMMA PushType ==
  ASSUME TypeOK, NEW a \in Addr
  PROVE  <<a>> \o stack \in Seq(Addr)
<1>1. <<a>> \in Seq(Addr)
  OBVIOUS
<1> QED BY <1>1, ConcatProperties DEF TypeOK

LEMMA FollowJumpType ==
  ASSUME TypeOK, ~OutOfPrg(cur), NEW dest \in Addr, FollowJump(dest)
  PROVE  /\ explore' \in [Prg -> Marks] /\ listed' \subseteq Prg
         /\ nodes' \subseteq Addr /\ branches' \subseteq Prg \X Addr
         /\ running' \in BOOLEAN /\ cur' \in Addr /\ stack' \in Seq(Addr)
<1>1. CASE dest >= Base /\ Insert({dest}) /\ Pop(<<dest>> \o stack)
  BY <1>1, InsertType, PushType, PopType
<1>2. CASE Insert({}) /\ Pop(stack)
  BY <1>2, InsertType, PopType DEF TypeOK
<1> QED BY <1>1, <1>2 DEF FollowJump

\* Every state has its type.
THEOREM TypeCorrect == Spec => []TypeOK
<1>1. Init => TypeOK
  <2> SUFFICES ASSUME Init PROVE TypeOK
    OBVIOUS
  <2>1. prog \in ProgramType
    BY ProgramsAssumption DEF Init
  <2>2. todo \in Seq(Addr)
    BY <2>1 DEF Init, ProgramType
  <2>3. cur \in Addr /\ stack \in Seq(Addr)
    BY AddrAssumption DEF Init, Addr
  <2>4. explore \in [Prg -> Marks]
    BY DEF Init, Marks
  <2> QED BY <2>1, <2>2, <2>3, <2>4 DEF Init, TypeOK, Phases
<1>2. TypeOK /\ [Next]_vars => TypeOK'
  <2> SUFFICES ASSUME TypeOK, [Next]_vars PROVE TypeOK'
    OBVIOUS
  <2>1. CASE StartEntry
    BY <2>1, HeadTailProperties DEF StartEntry, TypeOK
  <2>2. CASE StartExtra
    <3>1. prog.known \in Seq(Addr \X Addr)
      BY DEF TypeOK, ProgramType
    <3>2. \A i \in 1..Len(prog.known) : prog.known[i] \in Addr \X Addr
      BY <3>1, ElementOfSeq
    <3>3. todo' \in Seq(Addr)
      BY <2>2, <3>1, <3>2 DEF StartExtra
    <3> QED BY <2>2, <3>3 DEF StartExtra, TypeOK, Phases
  <2>3. CASE Finish
    BY <2>3, AddrAssumption DEF Finish, Phases, Addr, Prg, TypeOK
  <2>4. CASE FinishFails
    BY <2>4 DEF FinishFails, Phases, TypeOK
  <2>5. CASE Skip
    BY <2>5, PopType DEF Skip, Unread, TypeOK
  <2>6. CASE Plain
    BY <2>6, InsertType, AdvanceType DEF Plain, Fresh, TypeOK
  <2>7. CASE Branch
    BY <2>7, CurType, PushType, InsertType, AdvanceType DEF Branch, Fresh, TypeOK
  <2>8. CASE Jsr
    BY <2>8, CurType, PushType, InsertType, AdvanceType DEF Jsr, Fresh, TypeOK
  <2>9. CASE Return
    BY <2>9, InsertType DEF Return, Fresh, TypeOK
  <2>10. CASE Jump
    BY <2>10, CurType, FollowJumpType DEF Jump, Fresh, TypeOK
  <2>11. CASE JumpIndirectRom
    <3>1. Cur.target \in Prg
      BY <2>11, CurType, AddrAssumption DEF JumpIndirectRom, Fresh, Addr, Prg
    <3>2. prog.word[Cur.target] \in Addr
      BY <3>1 DEF TypeOK, ProgramType
    <3> QED BY <2>11, <3>2, FollowJumpType DEF JumpIndirectRom, Fresh, TypeOK
  <2>12. CASE JumpIndirectRam
    <3>1. newOps' \subseteq Addr
      BY <2>12, CurType DEF JumpIndirectRam, Fresh, AddJmpOperand, TypeOK
    <3> QED BY <2>12, <3>1, KnownType, InsertType, PopType DEF JumpIndirectRam, Fresh, TypeOK
  <2>13. CASE JumpIndirectAbort
    <3>1. newOps' \subseteq Addr
      BY <2>13, CurType DEF JumpIndirectAbort, Fresh, AddJmpOperand, TypeOK
    <3> QED BY <2>13, <3>1, InsertType DEF JumpIndirectAbort, Fresh, TypeOK, Phases
  <2>14. CASE UNCHANGED vars
    BY <2>14 DEF vars, TypeOK
  <2> QED
    BY <2>1, <2>2, <2>3, <2>4, <2>5, <2>6, <2>7, <2>8, <2>9, <2>10, <2>11,
       <2>12, <2>13, <2>14 DEF Next, DisasmAddr
<1>3. QED BY <1>1, <1>2, PTL DEF Spec

-----------------------------------------------------------------------------
(* The exploration buffer agrees with the listing.                         *)

LEMMA MarksInsert ==
  ASSUME TypeOK, MarksAgree, ~OutOfPrg(cur), NEW dests, Insert(dests), prog' = prog
  PROVE  MarksAgree'
<1> USE DEF MarksAgree
<1>1. cur \in Prg /\ Cur.size \in 1..3
  BY CurType
<1>2. ASSUME NEW a \in Prg, explore'[a] = "op" PROVE a \in listed'
  BY <1>2 DEF Insert, Teint
<1>3. ASSUME NEW a \in Prg, explore'[a] = "arg"
      PROVE  \E b \in listed' : a \in b + 1..b + prog'.code[b].size - 1
  BY <1>3 DEF Insert, Teint, Cur
<1>4. ASSUME NEW a \in listed' PROVE explore'[a] # "new"
  <2>1. a \in Prg
    BY <1>1 DEF Insert, TypeOK
  <2> QED BY <2>1 DEF Insert, Teint
<1> QED BY <1>2, <1>3, <1>4

LEMMA MarksKept ==
  ASSUME MarksAgree, UNCHANGED <<prog, explore, listed>>
  PROVE  MarksAgree'
BY DEF MarksAgree

LEMMA MarksStep == TypeOK /\ MarksAgree /\ [Next]_vars => MarksAgree'
<1> SUFFICES ASSUME TypeOK, MarksAgree, [Next]_vars PROVE MarksAgree'
  OBVIOUS
<1>1. CASE UNCHANGED <<prog, explore, listed>>
  BY <1>1, MarksKept
<1>2. CASE \E dests : ~OutOfPrg(cur) /\ Insert(dests) /\ prog' = prog
  BY <1>2, MarksInsert
<1> QED
  BY <1>1, <1>2
  DEF Next, DisasmAddr, vars, StartEntry, StartExtra, Finish, FinishFails, Skip,
      Unread, Plain, Branch, Jsr, Return, Jump, JumpIndirectRom, FollowJump,
      JumpIndirectRam, JumpIndirectAbort, Fresh

\* The marks of the exploration buffer and the listing agree in every state.
THEOREM MarksCorrect == Spec => []MarksAgree
<1>1. Init => MarksAgree
  BY DEF Init, MarksAgree
<1>2. QED BY <1>1, MarksStep, TypeCorrect, PTL DEF Spec

-----------------------------------------------------------------------------
(* Only code is decoded.                                                   *)

LEMMA EnteredGrows ==
  ASSUME NEW p, NEW D, NEW E, D \subseteq E
  PROVE  Entered(p, D) \subseteq Entered(p, E)
BY DEF Entered

\* A pop takes cur and the new stack from the old one.
LEMMA PopReached ==
  ASSUME NEW s \in Seq(Addr), NEW X, \A i \in 1..Len(s) : s[i] \in X, Pop(s)
  PROVE  /\ running' => cur' \in X
         /\ \A i \in 1..Len(stack') : stack'[i] \in X
         /\ Len(stack') <= Len(s)
<1>1. CASE s = <<>>
  BY <1>1 DEF Pop
<1>2. CASE s # <<>>
  <2>1. /\ cur' = Head(s) /\ stack' = Tail(s)
        /\ Len(s) \in Nat /\ Len(s) >= 1
        /\ Len(Tail(s)) = Len(s) - 1
        /\ \A i \in 1..Len(Tail(s)) : Tail(s)[i] = s[i + 1]
    BY <1>2, HeadTailProperties, EmptySeq DEF Pop
  <2>2. Head(s) = s[1]
    BY <1>2
  <2> QED BY <2>1, <2>2
<1> QED BY <1>1, <1>2

LEMMA PushReached ==
  ASSUME TypeOK, NEW a \in Addr, NEW X, a \in X,
         \A i \in 1..Len(stack) : stack[i] \in X
  PROVE  /\ \A i \in 1..Len(<<a>> \o stack) : (<<a>> \o stack)[i] \in X
         /\ Len(<<a>> \o stack) = Len(stack) + 1
<1>1. <<a>> \in Seq(Addr) /\ Len(<<a>>) = 1 /\ <<a>>[1] = a
  OBVIOUS
<1>2. stack \in Seq(Addr) /\ Len(stack) \in Nat
  BY DEF TypeOK
<1>3. /\ Len(<<a>> \o stack) = 1 + Len(stack)
      /\ \A i \in 1..1 + Len(stack) : (<<a>> \o stack)[i] =
           IF i <= 1 THEN <<a>>[i] ELSE stack[i - 1]
  BY <1>1, <1>2, ConcatProperties
<1> QED BY <1>1, <1>2, <1>3

\* What the program can enter once cur is listed.
LEMMA InsertEnters ==
  ASSUME TypeOK, ~OutOfPrg(cur), NEW dests, Insert(dests), prog' = prog
  PROVE  /\ Entered(prog, listed) \subseteq Entered(prog, listed)'
         /\ Succ(prog, cur) \subseteq Entered(prog, listed)'
BY DEF Insert, Entered

\* The destinations of the instruction at cur.
LEMMA CurSucc ==
  ASSUME TypeOK, ~OutOfPrg(cur)
  PROVE  /\ Cur.kind = "plain" => Succ(prog, cur) = {cur + Cur.size}
         /\ Cur.kind \in {"branch", "jsr"} =>
              Succ(prog, cur) = {Cur.target, cur + Cur.size}
         /\ Cur.kind = "jmp" => Succ(prog, cur) = {Cur.target}
         /\ Cur.kind = "jmpind" /\ Cur.target >= Base =>
              Succ(prog, cur) = {prog.word[Cur.target]}
         /\ Cur.kind = "jmpind" /\ Cur.target < Base =>
              Succ(prog, cur) = KnownAddrs(prog, Cur.target)
         /\ Cur.kind = "ret" => Succ(prog, cur) = {}
<1>1. Cur.target \in Nat /\ Base \in Nat
  BY CurType, AddrAssumption DEF Addr
<1> QED BY <1>1 DEF Succ, Cur

LEMMA AdvanceReached ==
  ASSUME TypeOK, NEW X, Advance, cur + Cur.size \in X
  PROVE  running' => cur' \in X
BY DEF Advance

LEMMA FollowReached ==
  ASSUME TypeOK, Reached, ~OutOfPrg(cur), NEW dest \in Addr, FollowJump(dest),
         Succ(prog, cur) = {dest}, prog' = prog
  PROVE  /\ running' => cur' \in Entered(prog, listed)'
         /\ \A i \in 1..Len(stack') : stack'[i] \in Entered(prog, listed)'
<1> DEFINE X == Entered(prog, listed)'
<1> HIDE DEF X
<1>1. ASSUME NEW dests, Insert(dests)
      PROVE  dest \in X /\ \A i \in 1..Len(stack) : stack[i] \in X
  BY <1>1, InsertEnters DEF Reached, X
<1>2. CASE Insert({dest}) /\ Pop(<<dest>> \o stack)
  BY <1>1, <1>2, PushReached, PushType, PopReached DEF X
<1>3. CASE Insert({}) /\ Pop(stack)
  BY <1>1, <1>3, PopReached DEF X, TypeOK
<1> QED BY <1>2, <1>3 DEF FollowJump

LEMMA ReachedStep == TypeOK /\ Reached /\ [Next]_vars => Reached'
<1> SUFFICES ASSUME TypeOK, Reached, [Next]_vars PROVE Reached'
  OBVIOUS
<1> DEFINE X == Entered(prog, listed)
<1>1. CASE StartEntry
  <2>1. /\ \A i \in 1..Len(todo') : todo'[i] = todo[i + 1]
        /\ Len(todo) \in Nat /\ Len(todo) >= 1 /\ Len(todo') = Len(todo) - 1
        /\ cur' = todo[1]
    BY <1>1, HeadTailProperties, EmptySeq DEF StartEntry, TypeOK
  <2>2. cur' \in Entered(prog, listed)
    BY <2>1 DEF Reached, Entered
  <2>3. \A i \in 1..Len(todo') : todo'[i] \in Roots(prog)
    BY <2>1 DEF Reached
  <2> QED BY <1>1, <2>2, <2>3 DEF StartEntry, Reached
<1>2. CASE StartExtra
  <2>1. prog.known \in Seq(Addr \X Addr)
    BY DEF TypeOK, ProgramType
  <2>2. DOMAIN prog.known = 1..Len(prog.known)
    BY <2>1, LenProperties
  <2>3. Len(todo') = Len(prog.known)
    BY <1>2, <2>1, LenProperties DEF StartExtra
  <2>4. \A i \in 1..Len(todo') : todo'[i] \in Roots(prog)
    BY <1>2, <2>2, <2>3 DEF StartExtra, Roots, KnownDests
  <2> QED BY <1>2, <2>4 DEF StartExtra, Reached
<1>3. CASE Finish
  BY <1>3 DEF Finish, Reached
<1>4. CASE FinishFails
  BY <1>4 DEF FinishFails, Reached
<1>5. CASE Skip
  BY <1>5, PopReached DEF Skip, Unread, Reached, TypeOK
<1>6. CASE Plain
  <2>1. ~OutOfPrg(cur) /\ Insert({}) /\ prog' = prog /\ Advance
        /\ Succ(prog, cur) = {cur + Cur.size}
    BY <1>6, CurSucc DEF Plain, Fresh
  <2>2. X \subseteq X' /\ cur + Cur.size \in X'
    BY <2>1, InsertEnters
  <2>3. running' => cur' \in X'
    BY <2>1, <2>2, AdvanceReached
  <2> QED BY <1>6, <2>2, <2>3 DEF Plain, Reached
<1>7. CASE Branch \/ Jsr
  <2>1. ~OutOfPrg(cur) /\ Insert({Cur.target}) /\ prog' = prog /\ Advance
        /\ Succ(prog, cur) = {Cur.target, cur + Cur.size}
        /\ stack' = <<Cur.target>> \o stack /\ todo' = todo
    BY <1>7, CurSucc DEF Branch, Jsr, Fresh
  <2>2. X \subseteq X' /\ cur + Cur.size \in X' /\ Cur.target \in X'
    BY <2>1, InsertEnters
  <2>3. running' => cur' \in X'
    BY <2>1, <2>2, AdvanceReached
  <2>4. \A i \in 1..Len(stack) : stack[i] \in X'
    BY <2>2 DEF Reached
  <2>5. Cur.target \in Addr
    BY <2>1, CurType
  <2>6. \A i \in 1..Len(stack') : stack'[i] \in X'
    <3> HIDE DEF X
    <3> QED BY <2>1, <2>2, <2>4, <2>5, PushReached
  <2> QED BY <2>1, <2>3, <2>6 DEF Reached
<1>8. CASE Return
  <2>1. ~OutOfPrg(cur) /\ Insert({}) /\ prog' = prog
    BY <1>8 DEF Return, Fresh
  <2>2. X \subseteq X'
    BY <2>1, InsertEnters
  <2> QED BY <1>8, <2>2 DEF Return, Reached
<1>9. CASE Jump
  <2>1. ~OutOfPrg(cur) /\ Succ(prog, cur) = {Cur.target} /\ prog' = prog
        /\ Cur.target \in Addr /\ FollowJump(Cur.target) /\ todo' = todo
    BY <1>9, CurSucc, CurType DEF Jump, Fresh
  <2> QED BY <2>1, FollowReached DEF Reached
<1>10. CASE JumpIndirectRom
  <2>1. ~OutOfPrg(cur) /\ Cur.target \in Prg
    BY <1>10, CurType, AddrAssumption DEF JumpIndirectRom, Fresh, Addr, Prg
  <2>2. prog.word[Cur.target] \in Addr
    BY <2>1 DEF TypeOK, ProgramType
  <2>3. Succ(prog, cur) = {prog.word[Cur.target]} /\ prog' = prog
        /\ FollowJump(prog.word[Cur.target]) /\ todo' = todo
    BY <1>10, CurSucc DEF JumpIndirectRom, Fresh
  <2> QED BY <2>1, <2>2, <2>3, FollowReached DEF Reached
<1>11. CASE JumpIndirectRam
  <2>1. ~OutOfPrg(cur) /\ prog' = prog /\ Pop(stack) /\ todo' = todo
        /\ Insert(KnownAddrs(prog, Cur.target))
    BY <1>11 DEF JumpIndirectRam, Fresh
  <2>2. \A i \in 1..Len(stack) : stack[i] \in X'
    BY <2>1, InsertEnters DEF Reached
  <2>3. (running' => cur' \in X') /\ \A i \in 1..Len(stack') : stack'[i] \in X'
    <3> HIDE DEF X
    <3> QED BY <2>1, <2>2, PopReached DEF TypeOK
  <2> QED BY <2>1, <2>3 DEF Reached
<1>12. CASE JumpIndirectAbort
  <2>1. ~OutOfPrg(cur) /\ prog' = prog /\ Insert({})
    BY <1>12 DEF JumpIndirectAbort, Fresh
  <2>2. X \subseteq X'
    BY <2>1, InsertEnters
  <2> QED BY <1>12, <2>2 DEF JumpIndirectAbort, Reached
<1>13. CASE UNCHANGED vars
  BY <1>13 DEF vars, Reached
<1> QED
  BY <1>1, <1>2, <1>3, <1>4, <1>5, <1>6, <1>7, <1>8, <1>9, <1>10, <1>11,
     <1>12, <1>13 DEF Next, DisasmAddr

LEMMA ReachedCorrect == Spec => []Reached
<1>1. Init => Reached
  <2> SUFFICES ASSUME Init PROVE Reached
    OBVIOUS
  <2>1. /\ todo = <<prog.reset, prog.nmi, prog.irq>> /\ stack = <<>>
        /\ running = FALSE
    BY DEF Init
  <2> QED BY <2>1 DEF Reached, Roots
<1>2. QED BY <1>1, ReachedStep, TypeCorrect, PTL DEF Spec

\* The operators of CodeFlow are those of the instance R.
LEMMA SameFlow ==
  /\ R!Prg = Prg /\ R!ProgramType = ProgramType
  /\ \A p, D : R!Entered(p, D) = Entered(p, D)
  /\ \A p, a : R!Decodable(p, a) = Decodable(p, a)
<1>1. R!Addr = Addr /\ R!Prg = Prg /\ R!Kinds = Kinds
  BY DEF R!Addr, R!Prg, Addr, Prg, R!Kinds, Kinds
<1>2. R!Instr = Instr
  BY <1>1 DEF R!Instr, Instr
<1>3. R!ProgramType = ProgramType
  BY <1>1, <1>2 DEF R!ProgramType, ProgramType
<1>4. \A p, op : R!KnownAddrs(p, op) = KnownAddrs(p, op)
  BY DEF R!KnownAddrs, KnownAddrs
<1>5. \A p, a : R!Succ(p, a) = Succ(p, a)
  BY <1>4 DEF R!Succ, Succ
<1>6. \A p : R!Roots(p) = Roots(p)
  BY DEF R!Roots, Roots, R!KnownDests, KnownDests
<1>7. \A p, D : R!Entered(p, D) = Entered(p, D)
  BY <1>5, <1>6 DEF R!Entered, Entered
<1>8. \A p, a : R!Decodable(p, a) = Decodable(p, a)
  BY DEF R!Decodable, Decodable
<1> QED BY <1>1, <1>3, <1>7, <1>8

\* The disassembler implements the abstract one: a step lists nothing, or
\* lists one decodable address the program can enter.
THEOREM DecodesOnlyCodeCorrect == Spec => DecodesOnlyCode
<1>1. Init => R!Init
  BY ProgramsAssumption, SameFlow DEF Init, R!Init
<1>2. TypeOK /\ MarksAgree /\ Reached /\ [Next]_vars => [R!Next]_(R!vars)
  <2> SUFFICES ASSUME TypeOK, MarksAgree, Reached, [Next]_vars
               PROVE  R!Next \/ UNCHANGED <<prog, listed>>
    BY DEF R!vars
  <2>1. ASSUME NEW dests, NEW kind \in Kinds \ {"invalid"}, Fresh(kind),
               Insert(dests), prog' = prog
        PROVE  R!Next
    <3>1. cur \in Prg /\ cur < Top /\ cur \notin listed
      BY <2>1, CurType DEF Fresh, MarksAgree
    <3>2. cur \in Entered(prog, listed) /\ Decodable(prog, cur)
      BY <2>1, <3>1, AddrAssumption DEF Fresh, Reached, Decodable, Cur, Prg
    <3>3. R!Decode(cur)
      BY <2>1, <3>1, <3>2, SameFlow DEF R!Decode, Insert
    <3> QED BY <3>1, <3>3, SameFlow DEF R!Next
  <2>2. CASE UNCHANGED <<prog, listed>>
    BY <2>2
  <2>3. CASE \E dests, kind : /\ kind \in Kinds \ {"invalid"}
                              /\ Fresh(kind) /\ Insert(dests) /\ prog' = prog
    BY <2>1, <2>3
  <2> QED
    BY <2>2, <2>3
    DEF Next, DisasmAddr, vars, StartEntry, StartExtra, Finish, FinishFails,
        Skip, Unread, Plain, Branch, Jsr, Return, Jump, JumpIndirectRom,
        FollowJump, JumpIndirectRam, JumpIndirectAbort, Kinds
<1>3. QED
  BY <1>1, <1>2, TypeCorrect, MarksCorrect, ReachedCorrect, PTL
  DEF Spec, DecodesOnlyCode, R!Spec

-----------------------------------------------------------------------------
(* The jump stack fits in its array.                                       *)

LEMMA PrgFinite ==
  ASSUME NEW D, D \subseteq Prg
  PROVE  /\ IsFiniteSet(D)
         /\ Cardinality(D) \in Nat /\ Cardinality(D) <= PrgSize
<1>1. IsFiniteSet(Prg) /\ Cardinality(Prg) = PrgSize
  BY AddrAssumption, FS_Interval DEF Prg, PrgSize
<1> QED BY <1>1, FS_Subset, FS_CardinalityType

LEMMA InsertPays ==
  ASSUME TypeOK, MarksAgree, NEW dests, NEW kind, Fresh(kind), Insert(dests)
  PROVE  Cardinality(listed') = Cardinality(listed) + 1
<1>1. cur \notin listed
  BY DEF Fresh, MarksAgree
<1>2. listed' = listed \cup {cur}
  BY DEF Insert
<1> QED BY <1>1, <1>2, PrgFinite, FS_AddElement DEF TypeOK

LEMMA FollowJumpLen ==
  ASSUME TypeOK, NEW dest \in Addr, FollowJump(dest)
  PROVE  Len(stack') <= Len(stack) + 1
<1>1. Len(stack) \in Nat
  BY DEF TypeOK
<1>2. CASE Pop(<<dest>> \o stack)
  <2>1. Len(<<dest>> \o stack) = Len(stack) + 1 /\ <<dest>> \o stack \in Seq(Addr)
    BY ConcatProperties, PushType DEF TypeOK
  <2> DEFINE X == Addr
  <2>2. \A i \in 1..Len(<<dest>> \o stack) : (<<dest>> \o stack)[i] \in Addr
    BY <2>1, ElementOfSeq
  <2> QED BY <1>2, <2>1, <2>2, PopReached
<1>3. CASE Pop(stack)
  <2>1. \A i \in 1..Len(stack) : stack[i] \in Addr /\ stack \in Seq(Addr)
    BY ElementOfSeq DEF TypeOK
  <2>2. stack' \in Seq(Addr) /\ Len(stack') <= Len(stack)
    BY <1>3, <2>1, PopReached, PopType DEF TypeOK
  <2> QED BY <1>1, <2>2
<1> QED BY <1>2, <1>3 DEF FollowJump

LEMMA StackPaidStep ==
  TypeOK /\ TypeOK' /\ MarksAgree /\ StackPaid /\ [Next]_vars => StackPaid'
<1> SUFFICES ASSUME TypeOK, TypeOK', MarksAgree, StackPaid, [Next]_vars
             PROVE  StackPaid'
  OBVIOUS
<1>1. /\ Len(stack) \in Nat /\ Len(stack') \in Nat
      /\ Cardinality(listed) \in Nat /\ Cardinality(listed') \in Nat
  BY PrgFinite DEF TypeOK
<1>2. CASE UNCHANGED <<stack, listed>>
  BY <1>2 DEF StackPaid
<1>3. CASE Skip
  <2>1. \A i \in 1..Len(stack) : stack[i] \in Addr /\ stack \in Seq(Addr)
    BY ElementOfSeq DEF TypeOK
  <2>2. Len(stack') <= Len(stack)
    BY <1>3, <2>1, PopReached DEF Skip, TypeOK
  <2> QED BY <1>1, <1>3, <2>2 DEF Skip, Unread, StackPaid
<1>4. ASSUME NEW dests, NEW kind, Fresh(kind), Insert(dests),
             Len(stack') <= Len(stack) + 1
      PROVE  StackPaid'
  BY <1>1, <1>4, InsertPays DEF StackPaid
<1>5. CASE Plain \/ Return \/ JumpIndirectAbort
  BY <1>1, <1>4, <1>5 DEF Plain, Return, JumpIndirectAbort
<1>6. CASE Branch \/ Jsr
  <2>1. Cur.target \in Addr
    BY <1>6, CurType DEF Branch, Jsr, Fresh
  <2>2. Len(stack') = Len(stack) + 1
    BY <1>6, <2>1, ConcatProperties DEF Branch, Jsr, TypeOK
  <2> QED BY <1>1, <1>4, <1>6, <2>2 DEF Branch, Jsr
<1>7. CASE Jump
  BY <1>4, <1>7, CurType, FollowJumpLen DEF Jump, FollowJump, Fresh
<1>8. CASE JumpIndirectRom
  <2>1. Cur.target \in Prg
    BY <1>8, CurType, AddrAssumption DEF JumpIndirectRom, Fresh, Addr, Prg
  <2>2. prog.word[Cur.target] \in Addr
    BY <2>1 DEF TypeOK, ProgramType
  <2>3. Len(stack') <= Len(stack) + 1
    BY <1>8, <2>2, FollowJumpLen DEF JumpIndirectRom
  <2> QED BY <1>4, <1>8, <2>3 DEF JumpIndirectRom, FollowJump
<1>9. CASE JumpIndirectRam
  <2>1. \A i \in 1..Len(stack) : stack[i] \in Addr /\ stack \in Seq(Addr)
    BY ElementOfSeq DEF TypeOK
  <2>2. Len(stack') <= Len(stack) + 1
    BY <1>1, <1>9, <2>1, PopReached DEF JumpIndirectRam, TypeOK
  <2> QED BY <1>4, <1>9, <2>2 DEF JumpIndirectRam
<1> QED
  BY <1>2, <1>3, <1>5, <1>6, <1>7, <1>8, <1>9
  DEF Next, DisasmAddr, vars, StartEntry, StartExtra, Finish, FinishFails

\* JUMP_stack, allocated with 3 * PRG_size words, is never written past its
\* end: one word is pushed per listed instruction at most, and there are no
\* more instructions than bytes.
THEOREM JumpStackCorrect == Spec => []JumpStackFits
<1>1. Init => StackPaid
  BY FS_EmptySet DEF Init, StackPaid
<1>2. TypeOK /\ StackPaid => JumpStackFits
  <2> SUFFICES ASSUME TypeOK, StackPaid PROVE JumpStackFits
    OBVIOUS
  <2>1. Len(stack) \in Nat /\ Len(stack) <= Cardinality(listed)
    BY DEF TypeOK, StackPaid
  <2>2. PrgSize \in Nat
    BY AddrAssumption DEF PrgSize
  <2> QED BY <2>1, <2>2, PrgFinite DEF JumpStackFits, TypeOK
<1>3. QED
  BY <1>1, <1>2, StackPaidStep, TypeCorrect, MarksCorrect, PTL DEF Spec

-----------------------------------------------------------------------------
(* Nothing is forgotten.                                                   *)

\* A step that explores more, and hands over what it takes from the stack and
\* from cur, loses track of no address.
LEMMA TrackedKept ==
  ASSUME NEW a, Tracked(a), prog' = prog, phase' = phase, todo' = todo,
         \A b \in Prg : explore[b] # "new" => explore'[b] # "new",
         \A i \in 1..Len(stack) :
            \/ \E j \in 1..Len(stack') : stack'[j] = stack[i]
            \/ running' /\ cur' = stack[i],
         running /\ cur = a => Settled(a)' \/ (running' /\ cur' = a)
  PROVE  Tracked(a)'
<1>1. CASE Settled(a)
  BY <1>1, AddrAssumption DEF Settled, Decodable, Tracked, Prg
<1>2. CASE Stacked(a)
  <2>1. PICK i \in 1..Len(stack) : stack[i] = a
    BY <1>2 DEF Stacked
  <2>2. (\E j \in 1..Len(stack') : stack'[j] = a) \/ (running' /\ cur' = a)
    BY <2>1
  <2> QED BY <2>2 DEF Stacked, Tracked
<1>3. CASE Planned(a)
  BY <1>3 DEF Planned, Tracked
<1>4. CASE running /\ cur = a
  BY <1>4 DEF Tracked
<1> QED BY <1>1, <1>2, <1>3, <1>4 DEF Tracked

\* What a pop takes from the stack becomes cur.
LEMMA PopHands ==
  ASSUME TypeOK, running, Pop(stack)
  PROVE  \A i \in 1..Len(stack) :
            \/ \E j \in 1..Len(stack') : stack'[j] = stack[i]
            \/ running' /\ cur' = stack[i]
<1>1. CASE stack = <<>>
  BY <1>1
<1>2. CASE stack # <<>>
  <2>1. cur' = stack[1] /\ stack' = Tail(stack) /\ running' = running
    BY <1>2 DEF Pop
  <2>2. running'
    BY <2>1
  <2>3. /\ Len(stack) \in Nat /\ Len(stack') = Len(stack) - 1
        /\ \A i \in 1..Len(stack') : stack'[i] = stack[i + 1]
    BY <1>2, <2>1, HeadTailProperties, EmptySeq DEF TypeOK
  <2> SUFFICES ASSUME NEW i \in 1..Len(stack), i # 1
               PROVE  \E j \in 1..Len(stack') : stack'[j] = stack[i]
    BY <2>1, <2>2
  <2>4. i - 1 \in 1..Len(stack') /\ stack'[i - 1] = stack[i]
    BY <2>3
  <2> QED BY <2>4
<1> QED BY <1>1, <1>2

\* When a fresh instruction is listed, only its own destinations are new.
LEMMA InsertTracks ==
  ASSUME TypeOK, NothingForgotten, phase # "aborted",
         NEW kind, Fresh(kind), NEW dests, Insert(dests),
         UNCHANGED <<prog, phase, todo>>,
         \A i \in 1..Len(stack) :
            \/ \E j \in 1..Len(stack') : stack'[j] = stack[i]
            \/ running' /\ cur' = stack[i],
         \A d \in Succ(prog, cur) : d \in Entered(prog, listed) \/ Tracked(d)'
  PROVE  NothingForgotten'
<1> SUFFICES ASSUME NEW a \in Entered(prog', listed') PROVE Tracked(a)'
  BY DEF NothingForgotten
<1>1. ~OutOfPrg(cur) /\ cur \in Prg
  BY CurType DEF Fresh
<1>2. a \in Entered(prog, listed) \/ a \in Succ(prog, cur)
  BY DEF Entered, Insert
<1>3. CASE a \in Entered(prog, listed)
  <2>1. Tracked(a)
    BY <1>3 DEF NothingForgotten
  <2>2. \A b \in Prg : explore[b] # "new" => explore'[b] # "new"
    BY DEF Insert, Teint
  <2>3. explore'[cur] # "new"
    BY <1>1 DEF Insert, Teint
  <2>4. running /\ cur = a => Settled(a)'
    BY <2>3 DEF Settled
  <2> QED BY <2>1, <2>2, <2>4, TrackedKept
<1> QED BY <1>2, <1>3

\* Past an instruction, disassembly goes on or has left the address space.
LEMMA AdvanceTracks ==
  ASSUME TypeOK, running, ~OutOfPrg(cur), Advance, NEW d, d = cur + Cur.size
  PROVE  Tracked(d)'
<1>1. cur \in Nat /\ Top \in Nat /\ Cur.size \in 1..3
  BY CurType, AddrAssumption DEF TypeOK, Addr
<1>2. CASE cur > Top - Cur.size
  <2>1. d \notin Base..(Top - 1)
    BY <1>1, <1>2, AddrAssumption
  <2> QED BY <2>1 DEF Tracked, Settled, Decodable
<1>3. CASE ~(cur > Top - Cur.size)
  BY <1>3 DEF Advance, Tracked
<1> QED BY <1>2, <1>3

LEMMA KeepsStack ==
  ASSUME stack' = stack
  PROVE  \A i \in 1..Len(stack) :
            \/ \E j \in 1..Len(stack') : stack'[j] = stack[i]
            \/ running' /\ cur' = stack[i]
OBVIOUS

\* A pushed address is on the stack, above what was there.
LEMMA PushHands ==
  ASSUME TypeOK, NEW a \in Addr
  PROVE  /\ \E j \in 1..Len(<<a>> \o stack) : (<<a>> \o stack)[j] = a
         /\ \A i \in 1..Len(stack) :
              \E j \in 1..Len(<<a>> \o stack) : (<<a>> \o stack)[j] = stack[i]
<1>1. <<a>> \in Seq(Addr) /\ Len(<<a>>) = 1 /\ <<a>>[1] = a
  OBVIOUS
<1>2. stack \in Seq(Addr) /\ Len(stack) \in Nat
  BY DEF TypeOK
<1>3. /\ Len(<<a>> \o stack) = 1 + Len(stack)
      /\ \A i \in 1..1 + Len(stack) : (<<a>> \o stack)[i] =
           IF i <= 1 THEN <<a>>[i] ELSE stack[i - 1]
  BY <1>1, <1>2, ConcatProperties
<1>4. 1 \in 1..Len(<<a>> \o stack) /\ (<<a>> \o stack)[1] = a
  BY <1>1, <1>2, <1>3
<1>5. ASSUME NEW i \in 1..Len(stack)
      PROVE  \E j \in 1..Len(<<a>> \o stack) : (<<a>> \o stack)[j] = stack[i]
  <2>1. i + 1 \in 1..Len(<<a>> \o stack) /\ (<<a>> \o stack)[i + 1] = stack[i]
    BY <1>1, <1>2, <1>3
  <2> QED BY <2>1
<1> QED BY <1>4, <1>5

LEMMA FollowTracks ==
  ASSUME TypeOK, NothingForgotten, phase # "aborted", NEW kind, Fresh(kind),
         NEW dest \in Addr, FollowJump(dest), Succ(prog, cur) = {dest},
         UNCHANGED <<prog, phase, todo>>
  PROVE  NothingForgotten'
<1>1. running
  BY DEF Fresh
<1>2. CASE dest >= Base /\ Insert({dest}) /\ Pop(<<dest>> \o stack)
  <2>1. <<dest>> \o stack # <<>> /\ Head(<<dest>> \o stack) = dest
        /\ Tail(<<dest>> \o stack) = stack
    <3>1. stack \in Seq(Addr)
      BY DEF TypeOK
    <3> QED BY <3>1
  <2>2. cur' = dest /\ stack' = stack /\ running' = running
    BY <1>2, <2>1 DEF Pop
  <2>3. Tracked(dest)'
    BY <1>1, <2>2 DEF Tracked
  <2> QED BY <1>2, <2>2, <2>3, KeepsStack, InsertTracks
<1>3. CASE dest < Base /\ Insert({}) /\ Pop(stack)
  <2>1. dest \notin Base..(Top - 1)
    BY <1>3, AddrAssumption DEF Addr
  <2>2. Tracked(dest)'
    BY <2>1 DEF Tracked, Settled, Decodable
  <2> QED BY <1>1, <1>3, <2>2, PopHands, InsertTracks
<1> QED BY <1>2, <1>3 DEF FollowJump

LEMMA ForgottenStep == TypeOK /\ NothingForgotten /\ [Next]_vars => NothingForgotten'
<1> SUFFICES ASSUME TypeOK, NothingForgotten, [Next]_vars PROVE NothingForgotten'
  OBVIOUS
<1>1. CASE phase' = "aborted"
  BY <1>1 DEF NothingForgotten
<1>2. CASE StartEntry
  <2>1. /\ \A i \in 1..Len(todo) : i = 1 \/ \E j \in 1..Len(todo') : todo'[j] = todo[i]
        /\ cur' = todo[1]
    <3>1. /\ \A i \in 1..Len(todo') : todo'[i] = todo[i + 1]
          /\ Len(todo) \in Nat /\ Len(todo') = Len(todo) - 1
          /\ cur' = todo[1]
      BY <1>2, HeadTailProperties, EmptySeq DEF StartEntry, TypeOK
    <3>2. ASSUME NEW i \in 1..Len(todo), i # 1
          PROVE  \E j \in 1..Len(todo') : todo'[j] = todo[i]
      <4>1. i - 1 \in 1..Len(todo') /\ todo'[i - 1] = todo[i]
        BY <3>1, <3>2
      <4> QED BY <4>1
    <3> QED BY <3>1, <3>2
  <2> SUFFICES ASSUME NEW a \in Entered(prog, listed), Tracked(a) PROVE Tracked(a)'
    BY <1>2 DEF StartEntry, NothingForgotten
  <2>2. CASE Settled(a) \/ Stacked(a)
    BY <1>2, <2>2 DEF StartEntry, Settled, Stacked, Tracked
  <2>3. CASE Planned(a)
    BY <1>2, <2>1, <2>3 DEF StartEntry, Planned, Tracked
  <2> QED BY <1>2, <2>2, <2>3 DEF StartEntry, Tracked
<1>3. CASE StartExtra
  <2>1. prog.known \in Seq(Addr \X Addr)
    BY DEF TypeOK, ProgramType
  <2>2. DOMAIN prog.known = 1..Len(prog.known) /\ Len(prog.known) \in Nat
    BY <2>1, LenProperties
  <2>3. Len(todo') = Len(prog.known)
    BY <1>3, <2>1, LenProperties DEF StartExtra
  <2>4. ASSUME NEW a \in KnownDests(prog) PROVE Planned(a)'
    <3>1. PICK i \in 1..Len(prog.known) : prog.known[i][2] = a
      BY <2>2 DEF KnownDests
    <3>2. i \in 1..Len(todo') /\ todo'[i] = a
      BY <1>3, <2>2, <2>3, <3>1 DEF StartExtra
    <3> QED BY <3>2 DEF Planned
  <2> SUFFICES ASSUME NEW a \in Entered(prog, listed), Tracked(a) PROVE Tracked(a)'
    BY <1>3 DEF StartExtra, NothingForgotten
  <2>5. CASE Settled(a) \/ Stacked(a)
    BY <1>3, <2>5 DEF StartExtra, Settled, Stacked, Tracked
  <2>6. CASE Planned(a)
    <3>1. Len(todo) = 0
      BY <1>3 DEF StartExtra
    <3>2. a \in KnownDests(prog)
      BY <2>6, <3>1 DEF Planned
    <3> QED BY <2>4, <3>2 DEF Tracked
  <2> QED BY <1>3, <2>5, <2>6 DEF StartExtra, Tracked
<1>4. CASE Finish \/ FinishFails
  <2> SUFFICES ASSUME NEW a \in Entered(prog, listed), Tracked(a) PROVE Tracked(a)'
    BY <1>4 DEF Finish, FinishFails, NothingForgotten
  <2>1. CASE Settled(a) \/ Stacked(a)
    BY <1>4, <2>1 DEF Finish, FinishFails, Settled, Stacked, Tracked
  <2>2. Len(todo) = 0
    BY <1>4 DEF Finish, FinishFails
  <2>3. ~Planned(a)
    BY <1>4, <2>2 DEF Planned, Finish, FinishFails
  <2> QED BY <1>4, <2>1, <2>3 DEF Finish, FinishFails, Tracked
<1>5. CASE Skip
  <2>1. running /\ Pop(stack) /\ UNCHANGED <<prog, phase, todo, explore, listed>>
    BY <1>5 DEF Skip, Unread
  <2>2. Settled(cur)
    BY <1>5, AddrAssumption DEF Skip, Settled, Decodable, OutOfPrg, Cur
  <2> SUFFICES ASSUME NEW a \in Entered(prog, listed), Tracked(a), phase # "aborted"
               PROVE  Tracked(a)'
    BY <2>1 DEF NothingForgotten
  <2>3. cur = a => Settled(a)'
    BY <2>1, <2>2 DEF Settled
  <2> QED BY <2>1, <2>3, PopHands, TrackedKept
<1>6. CASE Plain
  <2>1. Fresh("plain") /\ Insert({}) /\ Advance /\ running /\ ~OutOfPrg(cur)
        /\ UNCHANGED <<prog, phase, todo, stack>>
        /\ Succ(prog, cur) = {cur + Cur.size}
    BY <1>6, CurSucc DEF Plain, Fresh
  <2>2. \A d : d = cur + Cur.size => Tracked(d)'
    BY <2>1, AdvanceTracks
  <2> QED BY <1>1, <2>1, <2>2, KeepsStack, InsertTracks
<1>7. CASE Branch \/ Jsr
  <2>1. /\ Fresh("branch") \/ Fresh("jsr")
        /\ Insert({Cur.target}) /\ Advance /\ running /\ ~OutOfPrg(cur)
        /\ UNCHANGED <<prog, phase, todo>> /\ stack' = <<Cur.target>> \o stack
        /\ Succ(prog, cur) = {Cur.target, cur + Cur.size}
    BY <1>7, CurSucc DEF Branch, Jsr, Fresh
  <2>2. \A d : d = cur + Cur.size => Tracked(d)'
    BY <2>1, AdvanceTracks
  <2>3. Cur.target \in Addr
    BY <2>1, CurType
  <2>4. /\ \E j \in 1..Len(stack') : stack'[j] = Cur.target
        /\ \A i \in 1..Len(stack) : \E j \in 1..Len(stack') : stack'[j] = stack[i]
    BY <2>1, <2>3, PushHands
  <2>5. \A d : d = Cur.target => Tracked(d)'
    BY <2>4 DEF Tracked, Stacked
  <2> QED BY <1>1, <2>1, <2>2, <2>4, <2>5, InsertTracks
<1>8. CASE Return
  <2>1. Fresh("ret") /\ Insert({}) /\ UNCHANGED <<prog, phase, todo, stack>>
        /\ Succ(prog, cur) = {}
    BY <1>8, CurSucc DEF Return, Fresh
  <2> QED BY <1>1, <2>1, KeepsStack, InsertTracks
<1>9. CASE Jump
  <2>1. Fresh("jmp") /\ Succ(prog, cur) = {Cur.target} /\ Cur.target \in Addr
        /\ FollowJump(Cur.target) /\ UNCHANGED <<prog, phase, todo>>
    BY <1>9, CurSucc, CurType DEF Jump, Fresh
  <2> QED BY <1>1, <2>1, FollowTracks
<1>10. CASE JumpIndirectRom
  <2>1. Cur.target \in Prg
    BY <1>10, CurType, AddrAssumption DEF JumpIndirectRom, Fresh, Addr, Prg
  <2>2. prog.word[Cur.target] \in Addr
    BY <2>1 DEF TypeOK, ProgramType
  <2>3. Fresh("jmpind") /\ Succ(prog, cur) = {prog.word[Cur.target]}
        /\ FollowJump(prog.word[Cur.target]) /\ UNCHANGED <<prog, phase, todo>>
    BY <1>10, CurSucc DEF JumpIndirectRom, Fresh
  <2> QED BY <1>1, <2>2, <2>3, FollowTracks
<1>11. CASE JumpIndirectRam
  <2>1. /\ Fresh("jmpind") /\ running /\ Pop(stack) /\ UNCHANGED <<prog, phase, todo>>
        /\ Succ(prog, cur) = KnownAddrs(prog, Cur.target)
        /\ Insert(KnownAddrs(prog, Cur.target))
    BY <1>11, CurSucc DEF JumpIndirectRam, Fresh
  <2>2. Succ(prog, cur) \subseteq Entered(prog, listed)
    BY <2>1 DEF KnownAddrs, Entered, Roots, KnownDests
  <2> QED BY <1>1, <2>1, <2>2, PopHands, InsertTracks
<1>12. CASE JumpIndirectAbort
  BY <1>1, <1>12 DEF JumpIndirectAbort
<1>13. CASE UNCHANGED vars
  BY <1>13 DEF vars, NothingForgotten, Tracked, Settled, Stacked, Planned
<1> QED
  BY <1>2, <1>3, <1>4, <1>5, <1>6, <1>7, <1>8, <1>9, <1>10, <1>11, <1>12,
     <1>13 DEF Next, DisasmAddr

\* No address the listed code can go to is lost between the stack, the entry
\* points and the exploration buffer.
THEOREM NothingForgottenCorrect == Spec => []NothingForgotten
<1>1. Init => NothingForgotten
  <2> SUFFICES ASSUME Init, NEW a \in Roots(prog) PROVE Planned(a)
    BY DEF Init, NothingForgotten, Tracked, Entered
  <2>1. todo = <<prog.reset, prog.nmi, prog.irq>> /\ phase = "vectors"
    BY DEF Init
  <2>2. CASE a \in KnownDests(prog)
    BY <2>1, <2>2 DEF Planned
  <2>3. CASE a \in {prog.reset, prog.nmi, prog.irq}
    <3>1. Len(todo) = 3 /\ a \in {todo[1], todo[2], todo[3]}
      BY <2>1, <2>3
    <3> QED BY <3>1 DEF Planned
  <2> QED BY <2>2, <2>3 DEF Roots
<1>2. QED BY <1>1, ForgottenStep, TypeCorrect, PTL DEF Spec

-----------------------------------------------------------------------------
(* The work that is left.                                                  *)

\* The entry points to come, with the passages from a list to the next.
Waiting ==
  IF phase = "vectors" THEN Len(todo) + Len(prog.known) + 2
  ELSE IF Ended THEN Len(todo) ELSE Len(todo) + 1

\* The addresses to look at: those on the stack, and cur.
Pending == IF running THEN Len(stack) + 1 ELSE Len(stack)

\* An instruction to list may push one address and stays to be looked at again;
\* an entry point is looked at once it is started.
Remaining == 2 * (PrgSize - Cardinality(listed)) + Pending + 2 * Waiting

LEMMA RemainingType ==
  ASSUME TypeOK
  PROVE  /\ PrgSize - Cardinality(listed) \in Nat /\ Pending \in Nat /\ Waiting \in Nat
         /\ Len(todo) \in Nat /\ Len(stack) \in Nat /\ Len(prog.known) \in Nat
         /\ Cardinality(listed) \in Nat /\ PrgSize \in Nat
         /\ Remaining \in Nat
<1>1. Len(todo) \in Nat /\ Len(stack) \in Nat /\ Len(prog.known) \in Nat
  BY LenProperties DEF TypeOK, ProgramType
<1>2. Cardinality(listed) \in Nat /\ Cardinality(listed) <= PrgSize
  BY PrgFinite DEF TypeOK
<1>3. PrgSize \in Nat
  BY AddrAssumption DEF PrgSize
<1>4. PrgSize - Cardinality(listed) \in Nat
  BY <1>2, <1>3
<1>5. Pending \in Nat /\ Waiting \in Nat
  BY <1>1 DEF Pending, Waiting
<1>6. Remaining \in Nat
  <2>1. \A u, p, w \in Nat : 2 * u + p + 2 * w \in Nat
    OBVIOUS
  <2> QED BY <1>4, <1>5, <2>1 DEF Remaining
<1> QED BY <1>1, <1>2, <1>3, <1>4, <1>5, <1>6

\* A pop takes the address that was looked at from those to look at.
LEMMA PopEnds ==
  ASSUME NEW s \in Seq(Addr), Pop(s), running
  PROVE  Pending' = Len(s)
<1>1. CASE s = <<>>
  BY <1>1 DEF Pop, Pending
<1>2. CASE s # <<>>
  <2>1. Len(Tail(s)) = Len(s) - 1 /\ Len(s) \in Nat
    BY <1>2, HeadTailProperties, LenProperties
  <2>2. stack' = Tail(s) /\ running' = running
    BY <1>2 DEF Pop
  <2>3. Pending' = Len(stack') + 1
    BY <2>2 DEF Pending
  <2> QED BY <2>1, <2>2, <2>3
<1> QED BY <1>1, <1>2

\* Listing an instruction is worth more than what it adds to the stack.
LEMMA InsertShrinks ==
  ASSUME TypeOK, TypeOK', MarksAgree, NEW dests, NEW kind, Fresh(kind), Insert(dests),
         Pending' <= Pending + 1, Waiting' <= Waiting, prog' = prog
  PROVE  Remaining' < Remaining
<1>1. Cardinality(listed') = Cardinality(listed) + 1
  BY InsertPays
<1> DEFINE u == PrgSize - Cardinality(listed)
           v == PrgSize - Cardinality(listed')
<1>2. u \in Nat /\ v = u - 1
  BY <1>1, RemainingType
<1>3. /\ Pending \in Nat /\ Pending' \in Nat /\ Waiting \in Nat /\ Waiting' \in Nat
      /\ v \in Nat
  <2>1. Pending' \in Nat /\ Waiting' \in Nat /\ (PrgSize - Cardinality(listed))' \in Nat
    <3>1. Len(todo') \in Nat /\ Len(stack') \in Nat /\ Len(prog'.known) \in Nat
      BY LenProperties DEF TypeOK, ProgramType
    <3>2. Pending' \in Nat /\ Waiting' \in Nat
      BY <3>1 DEF Pending, Waiting
    <3>3. Cardinality(listed') \in Nat /\ Cardinality(listed') <= PrgSize
      BY PrgFinite DEF TypeOK
    <3>4. PrgSize \in Nat
      BY RemainingType
    <3> QED BY <3>2, <3>3, <3>4
  <2> QED BY <2>1, RemainingType
<1>4. Remaining = 2 * u + Pending + 2 * Waiting
  BY DEF Remaining
<1>5. Remaining' = 2 * v + Pending' + 2 * Waiting'
  BY DEF Remaining
<1> HIDE DEF u, v
<1>6. 2 * v + 2 = 2 * u
  BY <1>2, <1>3
<1>7. \A a, b, p, q, w, x \in Nat :
        2 * b + 2 = 2 * a /\ q <= p + 1 /\ x <= w => 2 * b + q + 2 * x < 2 * a + p + 2 * w
  OBVIOUS
<1> QED BY <1>2, <1>3, <1>4, <1>5, <1>6, <1>7

\* Every step leaves less to do.
LEMMA StepShrinks ==
  TypeOK /\ TypeOK' /\ MarksAgree /\ Next => Remaining' < Remaining
<1> SUFFICES ASSUME TypeOK, TypeOK', MarksAgree, Next
             PROVE  Remaining' < Remaining
  OBVIOUS
<1>1. /\ Len(todo) \in Nat /\ Len(stack) \in Nat /\ Len(prog.known) \in Nat
      /\ Pending \in Nat /\ Waiting \in Nat /\ PrgSize - Cardinality(listed) \in Nat
      /\ running \in BOOLEAN /\ stack \in Seq(Addr)
  BY RemainingType DEF TypeOK
<1> DEFINE u == 2 * (PrgSize - Cardinality(listed))
<1>2. u \in Nat /\ Remaining = u + Pending + 2 * Waiting
  BY <1>1 DEF Remaining
<1>3. ASSUME listed' = listed
      PROVE  Remaining' = u + Pending' + 2 * Waiting'
  BY <1>3 DEF Remaining
<1> HIDE DEF u
<1>4. CASE StartEntry
  <2>1. listed' = listed /\ stack' = stack /\ ~running /\ running' /\ phase' = phase /\ prog' = prog
    BY <1>4 DEF StartEntry
  <2>2. Len(todo') = Len(todo) - 1
    BY <1>4, HeadTailProperties DEF StartEntry, TypeOK
  <2>3. Pending' = Pending + 1
    BY <1>1, <2>1 DEF Pending
  <2>4. Waiting' = Waiting - 1
    BY <1>1, <2>1, <2>2 DEF Waiting, Ended
  <2> QED BY <1>1, <1>2, <1>3, <2>1, <2>3, <2>4
<1>5. CASE StartExtra
  <2>1. listed' = listed /\ stack' = stack /\ running' = running /\ prog' = prog
    BY <1>5 DEF StartExtra
  <2>2. Pending' = Pending
    BY <2>1 DEF Pending
  <2>3. phase = "vectors" /\ phase' = "extra" /\ todo = <<>> /\ Len(todo') = Len(prog.known)
    BY <1>1, <1>5 DEF StartExtra
  <2>4. Waiting' = Waiting - 1
    <3>1. Waiting = Len(prog.known) + 2 /\ Waiting' = Len(prog.known) + 1
      BY <1>1, <2>1, <2>3 DEF Waiting, Ended
    <3> QED BY <1>1, <3>1
  <2> QED BY <1>1, <1>2, <1>3, <2>1, <2>2, <2>4
<1>6. CASE Finish \/ FinishFails
  <2>1. /\ listed' = listed /\ stack' = stack /\ running' = running /\ todo' = todo
        /\ phase = "extra" /\ phase' \in {"done", "failed"}
    BY <1>6 DEF Finish, FinishFails
  <2>2. Pending' = Pending /\ Waiting' = Waiting - 1
    BY <1>1, <2>1 DEF Pending, Waiting, Ended
  <2> QED BY <1>1, <1>2, <1>3, <2>1, <2>2
<1>7. ASSUME UNCHANGED <<prog, phase, todo>>
      PROVE  Waiting' = Waiting
  BY <1>7 DEF Waiting, Ended
<1>8. ASSUME running, NEW s \in Seq(Addr), Pop(s), Len(s) <= Len(stack) + 1
      PROVE  Pending' <= Pending
  BY <1>1, <1>8, PopEnds DEF Pending
<1>9. CASE Skip
  <2>1. listed' = listed /\ UNCHANGED <<prog, phase, todo>> /\ running /\ Pop(stack)
    BY <1>9 DEF Skip, Unread
  <2>2. Pending' = Len(stack) /\ Pending = Len(stack) + 1
    BY <1>1, <2>1, PopEnds DEF Pending
  <2> QED BY <1>1, <1>2, <1>3, <1>7, <2>1, <2>2
<1>10. CASE Plain \/ Return
  <2>1. /\ UNCHANGED <<prog, phase, todo, stack>> /\ running /\ Insert({})
        /\ \E kind : Fresh(kind)
    BY <1>10 DEF Plain, Return, Fresh
  <2>2. Pending' <= Pending + 1
    BY <1>1, <2>1 DEF Pending
  <2>3. Waiting' <= Waiting
    BY <1>1, <1>7, <2>1
  <2> QED BY <2>1, <2>2, <2>3, InsertShrinks
<1>11. CASE Branch \/ Jsr
  <2>1. /\ UNCHANGED <<prog, phase, todo>> /\ running /\ Insert({Cur.target})
        /\ stack' = <<Cur.target>> \o stack
        /\ \E kind : Fresh(kind)
    BY <1>11 DEF Branch, Jsr, Fresh
  <2>2. Cur.target \in Addr
    BY <1>11, CurType DEF Branch, Jsr, Fresh
  <2>3. Len(stack') = Len(stack) + 1
    BY <2>1, <2>2, ConcatProperties DEF TypeOK
  <2>4. Pending' <= Pending + 1
    BY <1>1, <2>1, <2>3 DEF Pending
  <2>5. Waiting' <= Waiting
    BY <1>1, <1>7, <2>1
  <2> QED BY <2>1, <2>4, <2>5, InsertShrinks
<1>12. ASSUME NEW dest \in Addr, NEW kind, Fresh(kind), FollowJump(dest),
              UNCHANGED <<prog, phase, todo>>
       PROVE  Remaining' < Remaining
  <2>1. <<dest>> \o stack \in Seq(Addr) /\ Len(<<dest>> \o stack) = Len(stack) + 1
    BY PushType, ConcatProperties DEF TypeOK
  <2>2. running
    BY <1>12 DEF Fresh
  <2>3. Pending' <= Pending
    <3>1. CASE Pop(<<dest>> \o stack)
      <4>1. Pending' = Len(stack) + 1
        BY <2>1, <2>2, <3>1, PopEnds
      <4>2. Pending = Len(stack) + 1
        BY <2>2 DEF Pending
      <4> QED BY <1>1, <4>1, <4>2
    <3>2. CASE Pop(stack)
      BY <1>1, <1>8, <2>2, <3>2
    <3> QED BY <1>12, <3>1, <3>2 DEF FollowJump
  <2>4. Pending' \in Nat
    BY RemainingType, LenProperties DEF Pending, TypeOK
  <2>5. Pending' <= Pending + 1 /\ Waiting' <= Waiting
    BY <1>1, <1>7, <1>12, <2>3, <2>4
  <2> QED BY <1>12, <2>5, InsertShrinks DEF FollowJump
<1>13. CASE Jump
  BY <1>12, <1>13, CurType DEF Jump, Fresh
<1>14. CASE JumpIndirectRom
  <2>1. Cur.target \in Prg
    BY <1>14, CurType, AddrAssumption DEF JumpIndirectRom, Fresh, Addr, Prg
  <2>2. prog.word[Cur.target] \in Addr
    BY <2>1 DEF TypeOK, ProgramType
  <2> QED BY <1>12, <1>14, <2>2 DEF JumpIndirectRom
<1>15. CASE JumpIndirectRam
  <2>1. /\ UNCHANGED <<prog, phase, todo>> /\ running /\ Fresh("jmpind")
        /\ Insert(KnownAddrs(prog, Cur.target)) /\ Pop(stack)
    BY <1>15 DEF JumpIndirectRam, Fresh
  <2>2. Pending' <= Pending + 1
    BY <1>1, <2>1, PopEnds DEF Pending
  <2>3. Waiting' <= Waiting
    BY <1>1, <1>7, <2>1
  <2> QED BY <2>1, <2>2, <2>3, InsertShrinks
<1>16. CASE JumpIndirectAbort
  <2>1. /\ UNCHANGED <<prog, todo, stack>> /\ phase' = "aborted" /\ running /\ ~running'
        /\ Fresh("jmpind") /\ Insert({})
    BY <1>16 DEF JumpIndirectAbort, Fresh
  <2>2. Pending' <= Pending + 1
    BY <1>1, <2>1 DEF Pending
  <2>3. Waiting' <= Waiting
    BY <1>1, <2>1 DEF Waiting, Ended
  <2> QED BY <2>1, <2>2, <2>3, InsertShrinks
<1> QED
  BY <1>4, <1>5, <1>6, <1>9, <1>10, <1>11, <1>13, <1>14, <1>15, <1>16 DEF Next, DisasmAddr

\* Disassembly is bounded, whatever the loops and overlaps of the program: each
\* step leaves a smaller number of steps to take, the first one being twice the
\* size of the PRG and twice the entry points at most.
THEOREM DisasmShrinks ==
  Spec => /\ Remaining = 2 * PrgSize + 2 * (Len(prog.known) + 5)
          /\ [](Remaining \in Nat)
          /\ [][Remaining' < Remaining]_vars
<1>1. Init => Remaining = 2 * PrgSize + 2 * (Len(prog.known) + 5)
  <2> SUFFICES ASSUME Init
               PROVE  Remaining = 2 * PrgSize + 2 * (Len(prog.known) + 5)
    OBVIOUS
  <2>1. prog \in ProgramType /\ PrgSize \in Nat
    BY ProgramsAssumption, AddrAssumption DEF Init, PrgSize
  <2>2. Len(prog.known) \in Nat
    BY <2>1, LenProperties DEF ProgramType
  <2>3. Cardinality(listed) = 0 /\ Pending = 0
    BY FS_EmptySet DEF Init, Pending
  <2>4. Waiting = Len(prog.known) + 5
    BY <2>2 DEF Init, Waiting, Ended
  <2> QED BY <2>1, <2>2, <2>3, <2>4 DEF Remaining
<1>2. TypeOK => Remaining \in Nat
  BY RemainingType
<1>3. TypeOK /\ TypeOK' /\ MarksAgree /\ [Next]_vars => [Remaining' < Remaining]_vars
  BY StepShrinks
<1> QED BY <1>1, <1>2, <1>3, TypeCorrect, MarksCorrect, PTL DEF Spec
=============================================================================
