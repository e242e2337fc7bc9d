---------------------------- MODULE OpcodeTable ----------------------------
(***************************************************************************)
(* How opcodes.txt becomes the search table of the opcodes: the rules of   *)
(* the scanner (opcode_desctxt.l), the states of the parser (parser.cpp)   *)
(* and the table (opcodes.cpp, opcodes_utils.cpp).                         *)
(*                                                                         *)
(* A text is a sequence of items, the runs of characters that some rule of *)
(* the scanner tells apart:                                                *)
(*   "comment"   a # and words     "opcode"       Opcode:                  *)
(*   "category"  Logic: ...        "description"  Description:             *)
(*   "flags"     Flags:            "word"         three letters            *)
(*   "mode"      Abs, zp, ...      "phrase"       words of a description   *)
(*   "semi"      ;                 "numbered"     an operand with a number *)
(*   "byte"      $69               "bare"         an operand without one   *)
(*   "number"    2, 4+             "flag"         N, Z, ...                *)
(*   "eol"                                                                 *)
(* Item "flags" is a category, or starts the flags of a mnemonic. Comments *)
(* and phrases end with three letters, and have no number. The flags and   *)
(* the cycles are only printed by a debugging listing: they are read and   *)
(* dropped.                                                                *)
(***************************************************************************)
EXTENDS Naturals, Sequences, FiniteSets

CONSTANTS NBMNEMONICS,    \* Mnemonics of the 6502
          NoCategory,     \* m_current_op_category is -1
          OperandByte,    \* What $44 in the text of an operand reads as
          MAXOPS,         \* Entries of the array ops of a mnemonic
          MAXMNEMONICS    \* Mnemonics at which the parser asserts

ASSUME ArraysAssumption == MAXOPS \in Nat /\ MAXMNEMONICS \in Nat

Item(k, v) == [k |-> k, v |-> v]
Kinds == {"comment", "category", "flags", "opcode", "description", "word", "phrase", "mode",
          "semi", "numbered", "bare", "byte", "number", "flag", "eol"}
IsText(doc) ==
   Len(doc) \in Nat /\ DOMAIN doc = 1 .. Len(doc) /\ \A n \in DOMAIN doc : doc[n].k \in Kinds

-----------------------------------------------------------------------------
(* The scanner: <<start condition, item, token, next condition>>. An item  *)
(* without a rule is echoed. "COMMENT", "name" and "operand" are not start *)
(* conditions of the source: the scanner is inside a match.                *)
EndsWithWord == {"word", "phrase", "comment"}

FixedRules ==
   {<<"INITIAL", "eol", "EOL", "INITIAL">>, <<"INITIAL", "semi", "SEMCOL", "INITIAL">>,
    <<"INITIAL", "comment", "COMMENT", "COMMENT">>, <<"COMMENT", "eol", "EOL", "INITIAL">>,
    <<"INITIAL", "category", "CATEGORY", "INITIAL">>, <<"INITIAL", "flags", "FLAGS", "sflags">>,
    <<"INITIAL", "opcode", "OPCODEDEF", "sopcode">>, <<"sflags", "opcode", "OPCODEDEF", "sopcode">>,
    <<"INITIAL", "description", "DESCRIPTION", "sdescription">>,
    <<"INITIAL", "mode", "MEMUSE", "smemc">>, <<"smemc", "semi", "", "sopstr">>,
    <<"sdescription", "eol", "DESCRIPTION_TXT", "INITIAL">>,
    <<"name", "eol", "OPCODESTR", "INITIAL">>,
    <<"sopstr", "semi", "", "smemuse">>, <<"operand", "semi", "", "smemuse">>,
    <<"smemuse", "byte", "BYTE", "smemuse">>, <<"smemuse", "numbered", "BYTE", "smemuse">>,
    <<"smemuse", "number", "NUMBER", "smemuse">>, <<"smemuse", "eol", "EOL", "INITIAL">>,
    <<"sflags", "eol", "EOL", "INITIAL">>}
Rules ==
   FixedRules
   \cup ({"sopcode", "name"} \X EndsWithWord \X {""} \X {"name"})
   \cup ({"name"} \X (Kinds \ (EndsWithWord \cup {"eol"})) \X {""} \X {"sopcode"})
   \cup ({"sopstr"} \X (Kinds \ {"semi"}) \X {"OPSTR"} \X {"operand"})

yylex(start, k) ==
   IF \E r \in Rules : r[1] = start /\ r[2] = k
     THEN LET r == CHOOSE r \in Rules : r[1] = start /\ r[2] = k IN [token |-> r[3], next |-> r[4]]
     ELSE [token |-> "", next |-> start]

-----------------------------------------------------------------------------
(* The parser. p.start is the condition of the scanner, p.word the value   *)
(* of the last item; mnemo is m_ptmpmnemo and op its entry nb_ops. A       *)
(* parser that has thrown reads no more; why says that it did not throw:   *)
(* "overrun", a line of a mnemonic went past the end of ops and what the   *)
(* program does next is undefined, or "assertion", which kills upernes.    *)
NewParser ==
   [start |-> "INITIAL", word |-> "", m_state |-> "get_new_element", category |-> NoCategory,
    mnemo |-> [mnemonic |-> "", category |-> NoCategory, ops |-> <<>>],
    op |-> [memaccess |-> "", opcode |-> 0, size_B |-> 0], list |-> <<>>, thrown |-> FALSE, why |-> ""]

Throw(p) == [p EXCEPT !.thrown = TRUE]
Lost(p, why) == [p EXCEPT !.thrown = TRUE, !.why = why]
Goto(p, s) == [p EXCEPT !.m_state = s]

get_new(p, res, v) ==
   CASE res \in {"COMMENT", "EOL"} -> p
     [] res = "CATEGORY" -> [p EXCEPT !.category = v]
     [] res = "FLAGS" -> [p EXCEPT !.category = "Flags"]
     [] res = "OPCODEDEF" /\ p.category # NoCategory -> Goto(p, "opcode_element")
     [] OTHER -> Throw(p)

get_opcode(p, res, v) ==
   IF res # "OPCODESTR" THEN Throw(p)
   ELSE [Goto(p, "opcode_memuse_line") EXCEPT
            !.mnemo = [mnemonic |-> v, category |-> p.category, ops |-> <<>>]]

get_memuse_line(p, res, v) ==
   CASE res # "MEMUSE" -> Throw(p)
     [] res = "MEMUSE" /\ Len(p.mnemo.ops) >= MAXOPS -> Lost(p, "overrun")
     [] OTHER -> [Goto(p, "opcode_memuse_call") EXCEPT !.op.memaccess = v]

get_call_str(p, res) == IF res = "OPSTR" THEN Goto(p, "opcode_memuse_code") ELSE Throw(p)

\* Mutant of get_op_code: any number is an opcode.
get_op_codeAny(p, res, v) ==
   IF res \notin {"BYTE", "NUMBER"} THEN Throw(p)
   ELSE [Goto(p, "opcode_memuse_size") EXCEPT !.op.opcode = v]
get_op_code(p, res, v) ==
   IF res # "BYTE" THEN Throw(p)
   ELSE [Goto(p, "opcode_memuse_size") EXCEPT !.op.opcode = v]

get_opcall_size(p, res, v) ==
   IF res # "NUMBER" THEN Throw(p)
   ELSE [Goto(p, "opcode_memuse_cycles") EXCEPT !.op.size_B = v]

get_opcode_cycles(p, res) ==
   CASE res = "NUMBER" -> p
     [] res = "EOL" -> [Goto(p, "opcode_memuse_next") EXCEPT !.mnemo.ops = Append(@, p.op)]
     [] OTHER -> Throw(p)

memuse_next_state(p, res, v) ==
   CASE res = "FLAGS" -> Goto(p, "opcode_flags")
     [] res = "DESCRIPTION" -> Goto(p, "opcode_description")
     [] res = "MEMUSE" -> get_memuse_line(p, res, v)
     [] OTHER -> Throw(p)

get_active_flags(p, res) ==
   CASE res = "EOL" -> p
     [] res = "DESCRIPTION" -> Goto(p, "opcode_description")
     [] OTHER -> Throw(p)

get_description(p, res) ==
   CASE res # "DESCRIPTION_TXT" -> Throw(p)
     [] res = "DESCRIPTION_TXT" /\ Len(p.list) + 1 >= MAXMNEMONICS -> Lost(p, "assertion")
     [] OTHER -> [Goto(p, "get_new_element") EXCEPT !.list = Append(@, p.mnemo)]

Dispatch(p, res, v) ==
   CASE p.m_state = "get_new_element" -> get_new(p, res, v)
     [] p.m_state = "opcode_element" -> get_opcode(p, res, v)
     [] p.m_state = "opcode_memuse_line" -> get_memuse_line(p, res, v)
     [] p.m_state = "opcode_memuse_call" -> get_call_str(p, res)
     [] p.m_state = "opcode_memuse_code" -> get_op_code(p, res, v)
     [] p.m_state = "opcode_memuse_size" -> get_opcall_size(p, res, v)
     [] p.m_state = "opcode_memuse_cycles" -> get_opcode_cycles(p, res)
     [] p.m_state = "opcode_memuse_next" -> memuse_next_state(p, res, v)
     [] p.m_state = "opcode_flags" -> get_active_flags(p, res)
     [] p.m_state = "opcode_description" -> get_description(p, res)

Read(p, i) ==
   LET lex == yylex(p.start, i.k)
       q == [p EXCEPT !.start = lex.next, !.word = i.v]
       v == CASE lex.token = "OPCODESTR" -> p.word     \* The name is before the end of line
              [] i.k = "numbered" -> OperandByte
              [] OTHER -> i.v
   IN IF p.thrown THEN p ELSE IF lex.token = "" THEN q ELSE Dispatch(q, lex.token, v)

Last(S) == CHOOSE p \in S : \A q \in S : q <= p

(* What the parser holds after the last item, a line after the other. *)
ReadLine(p, text, a, b) ==
   LET after[n \in a .. b] == IF n = a THEN p ELSE Read(after[n - 1], text[n]) IN after[b]
build_list(text) ==
   LET ends == {0, Len(text)} \cup {p \in DOMAIN text : text[p].k = "eol"}
       after[b \in ends] ==
          IF b = 0 THEN NewParser
          ELSE LET a == Last({e \in ends : e < b})
                   p == after[a]
               IN IF p.thrown THEN p ELSE ReadLine(p, text, a, b)
   IN after[Len(text)]

-----------------------------------------------------------------------------
(* The search table: the entries of all the mnemonics, none twice. *)
Places(list) == UNION {{<<i, y>> : y \in DOMAIN list[i].ops} : i \in DOMAIN list}
At(list, place) == list[place[1]].ops[place[2]]

Entry(opcode, memaccess, size_B, mnemonic, category) ==
   [opcode |-> opcode, memaccess |-> memaccess, size_B |-> size_B,
    mnemonic |-> mnemonic, category |-> category]

\* Mutant of DoubleOpcode: no test.
DoubleOpcodeNever(list) == FALSE
DoubleOpcode(list) == \E a, b \in Places(list) : a # b /\ At(list, a).opcode = At(list, b).opcode
WrongNumber(list) == Len(list) # NBMNEMONICS

(* fill_structure returns 0. *)
Filled(p) == ~p.thrown /\ ~WrongNumber(p.list) /\ ~DoubleOpcode(p.list)

SearchTable(list) ==
   {Entry(At(list, a).opcode, At(list, a).memaccess, At(list, a).size_B,
          list[a[1]].mnemonic, list[a[1]].category) : a \in Places(list)}

is_valid(T, opcode) == \E e \in T : e.opcode = opcode
find_op(T, opcode) == CHOOSE e \in T : e.opcode = opcode
op_call_size(T, opcode) == IF is_valid(T, opcode) THEN find_op(T, opcode).size_B ELSE 0
addressing(T, opcode) == IF is_valid(T, opcode) THEN find_op(T, opcode).memaccess ELSE "none"
is_mnemonic(T, opcode, name) == is_valid(T, opcode) /\ find_op(T, opcode).mnemonic = name
is_branch(T, opcode) ==
   /\ is_valid(T, opcode) /\ find_op(T, opcode).category = "Jump"
   /\ \A name \in {"nop", "rts", "jmp", "jsr"} : ~is_mnemonic(T, opcode, name)

-----------------------------------------------------------------------------
(* What the text says, read by eye: the entry of an opcode is on its line, *)
(* under the last Opcode: above it, under the last category above that.    *)
Before(text, b, S) == {p \in 1 .. (b - 1) : text[p].k \in S}

SameLine(text, a, b) == \A q \in a .. b : text[q].k # "eol"
Plain(text, p) ==           \* Neither in a comment nor in a description
   \A q \in 1 .. (p - 1) : text[q].k \in {"comment", "description"} => ~SameLine(text, q, p)

Headers(text) ==
   {p \in DOMAIN text : /\ text[p].k \in {"category", "flags"} /\ Plain(text, p)
                        /\ LET above == {q \in Before(text, p, {"opcode", "description"}) :
                                           text[q].k = "description" \/ Plain(text, q)}
                           IN above = {} \/ text[Last(above)].k = "description"}
CategoryAbove(text, p) ==
   LET h == text[Last({q \in Headers(text) : q < p})] IN IF h.k = "flags" THEN "Flags" ELSE h.v

LineOf(text, b) ==
   LET mode == Last(Before(text, b, {"mode"}))
       name == Last({p \in Before(text, b, {"word"}) : Plain(text, p)})
       size == CHOOSE p \in DOMAIN text : /\ p > b /\ text[p].k = "number"
                                          /\ \A q \in b .. p : text[q].k = "number" => q = p
   IN Entry(text[b].v, text[mode].v, text[size].v, text[name].v, CategoryAbove(text, name))

Written(text) ==
   {LineOf(text, b) : b \in {p \in DOMAIN text : text[p].k = "byte" /\ Plain(text, p)}}

-----------------------------------------------------------------------------
(* A well formed text: <<place before an item, item, place after it>>. Its *)
(* mnemonics stand under the header of a category.                         *)
Spelling ==
   {<<"section", "eol", "section">>, <<"section", "comment", "remark">>, <<"remark", "eol", "section">>,
    <<"section", "category", "section">>, <<"section", "flags", "title">>, <<"title", "eol", "section">>,
    <<"section", "opcode", "opcode">>, <<"opcode", "word", "name">>, <<"name", "eol", "first">>,
    <<"first", "mode", "mode">>, <<"next", "mode", "mode">>, <<"mode", "semi", "call">>,
    <<"call", "numbered", "called">>, <<"call", "bare", "called">>, <<"called", "semi", "code">>,
    <<"code", "byte", "byte">>, <<"byte", "semi", "byte">>, <<"byte", "number", "size">>,
    <<"size", "semi", "size">>, <<"size", "number", "size">>, <<"size", "eol", "next">>,
    <<"next", "flags", "flags">>, <<"flags", "flag", "flags">>, <<"flags", "eol", "ended">>,
    <<"next", "description", "description">>, <<"ended", "description", "description">>,
    <<"description", "phrase", "description">>, <<"description", "eol", "section">>}
Spelt(text, at) ==
   /\ at[0] = "section" /\ at[Len(text)] = "section"
   /\ \A n \in 1 .. Len(text) : <<at[n - 1], text[n].k, at[n]>> \in Spelling
Headed(text) ==
   \A p \in DOMAIN text : text[p].k = "opcode" =>
      (\E q \in Headers(text) : q < p) /\ CategoryAbove(text, p) # NoCategory
WellFormed(text) == (\E at : Spelt(text, at)) /\ Headed(text)

(* No mnemonic has more lines than its array has entries. *)
ModesOf(text, o) ==
   {m \in DOMAIN text : /\ text[m].k = "mode" /\ o < m
                        /\ \A q \in (o + 1) .. m : text[q].k # "opcode"}
Roomy(text) == \A o \in DOMAIN text : text[o].k = "opcode" => Cardinality(ModesOf(text, o)) <= MAXOPS

(* The same text with an item less, twice the item, or two items exchanged. *)
Without(text, p) == SubSeq(text, 1, p - 1) \o SubSeq(text, p + 1, Len(text))
Twice(text, p) == SubSeq(text, 1, p) \o SubSeq(text, p, Len(text))
Exchanged(text, p) == [text EXCEPT ![p] = text[p + 1], ![p + 1] = text[p]]
(* The same text without its lines from a to b. *)
Cut(text, a, b) == SubSeq(text, 1, a - 1) \o SubSeq(text, b + 1, Len(text))
=============================================================================
