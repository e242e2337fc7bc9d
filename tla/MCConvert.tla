----------------------------- MODULE MCConvert -----------------------------
(* Conversions of a few roms, and an opcodes.txt of four mnemonics with one *)
(* thing wrong.                                                            *)
EXTENDS Convert

S == INSTANCE SequencesExt

Eol == Item("eol", "")
Semi == Item("semi", "")
Line(mode, operand, byte, size, cycles) ==
   <<Item("mode", mode), Semi, Item(operand, ""), Semi, Item("byte", byte), Semi,
     Item("number", size), Semi, Item("number", cycles), Eol>>
Opcode(name) == <<Item("opcode", ""), Item("word", name), Eol>>
FlagLine(n) == <<Item("flags", "")>> \o [i \in 1 .. n |-> Item("flag", "")] \o <<Eol>>
Description == <<Item("description", ""), Item("phrase", "rry"), Eol, Eol>>
Category(c) == <<c, Eol, Eol>>

MCWholeText ==
   <<Item("comment", "des"), Eol, Eol>>
   \o Category(Item("category", "Logic"))
   \o Opcode("and") \o Line("Imm", "numbered", 41, 2, 7) \o Line("Abs", "numbered", 45, 3, 4)
   \o FlagLine(2) \o Description
   \o Category(Item("flags", ""))
   \o Opcode("clc") \o Line("Implied", "bare", 24, 1, 2) \o FlagLine(1) \o Description
   \o Category(Item("category", "Jump"))
   \o Opcode("bne") \o Line("PCR", "numbered", 208, 2, 1) \o Description
   \o Opcode("jmp") \o Line("Abs", "numbered", 76, 3, 5) \o Line("Ind", "numbered", 108, 3, 6)
   \o Description

(* A mnemonic with one line more than there is room for. *)
ThreeLines ==
   Category(Item("category", "Jump"))
   \o Opcode("jmp") \o Line("Abs", "numbered", 76, 3, 5) \o Line("Ind", "numbered", 108, 3, 6)
   \o Line("AbsX", "numbered", 124, 3, 6) \o Description
One(name, opcode) == Opcode(name) \o Line("Abs", "numbered", opcode, 3, 4) \o Description
(* More mnemonics than upernes expects, and more than it has room for. *)
FiveMnemonics ==
   Category(Item("category", "Logic"))
   \o One("and", 45) \o One("ora", 13) \o One("eor", 77) \o One("asl", 14) \o One("lsr", 78)
SixMnemonics == FiveMnemonics \o One("rol", 46)
(* They are well formed texts. *)
PlaceAfter(l, i) == (CHOOSE t \in Spelling : t[1] = l /\ t[2] = i.k)[3]
ASSUME MCWholeTextAssumption ==
   \A doc \in {MCWholeText, ThreeLines, FiveMnemonics, SixMnemonics} :
      LET s == S!FoldLeft(LAMBDA p, i : Append(p, PlaceAfter(p[Len(p)], i)), <<"section">>, doc)
      IN Spelt(doc, [n \in 0 .. Len(doc) |-> s[n + 1]]) /\ Headed(doc)

Places1 == DOMAIN MCWholeText
Ends == {p \in Places1 : MCWholeText[p].k = "eol"}
Lines == {<<a, b>> \in Places1 \X Ends :
            /\ a = 1 \/ a - 1 \in Ends
            /\ \A p \in Ends : p >= a => p >= b}
Bytes == {p \in Places1 : MCWholeText[p].k = "byte"}
MCUsualTexts == {MCWholeText, NoText}
MCFirstTexts ==
   MCUsualTexts \cup {ThreeLines, FiveMnemonics, SixMnemonics} \cup {Without(MCWholeText, p) : p \in Places1}
   \cup {Twice(MCWholeText, p) : p \in Places1}
   \cup {Exchanged(MCWholeText, p) : p \in Places1 \ {Len(MCWholeText)}}
   \cup {Cut(MCWholeText, l[1], l[2]) : l \in Lines}
   \cup {[MCWholeText EXCEPT ![p].v = MCWholeText[q].v] : p \in Bytes, q \in Bytes}

(* What a parser gone past the end of an array may leave: a table without a line. *)
MCScrambled == {{e \in Written(MCWholeText) : e.opcode # 76}}

Header(prg, chr, mapper, kb8) ==
   [marks |-> TRUE, prg |-> prg, chr |-> chr, mapper |-> mapper, byte7 |-> 0, zeros |-> TRUE, kb8 |-> kb8]
Name(stem, ext) == [stem |-> stem, ext |-> ext]
Rom(stem, ext, place, header, jumps, fault, ram) ==
   [name |-> Name(stem, ext), place |-> place, header |-> header, jumps |-> jumps, fault |-> fault,
    ram |-> ram, code |-> 2 * ram]
Fine == Header(2, 1, 0, 5)
(* Two pages of CHR leave 2928 bytes for the image of the ram. *)
MCRoms ==
   {Rom("a", "nes", "workdir", Fine, TRUE, "none", 3000),
    Rom("a", "nes", "elsewhere", Header(1, 2, 0, 4), TRUE, "none", 2928),
    Rom("b", "NES", "workdir", Fine, FALSE, "none", 3000),
    Rom("c", "nes", "elsewhere", Fine, FALSE, "port", 3000),
    Rom("c", "nes", "elsewhere", Fine, FALSE, "routine", 3000),
    Rom("c", "nes", "elsewhere", Fine, FALSE, "label", 3000),
    Rom("c", "nes", "elsewhere", Header(2, 2, 0, 6), FALSE, "none", 2929),
    Rom("c", "nes", "elsewhere", Header(4, 1, 0, 9), FALSE, "none", 9000),
    Rom("c", "nes", "elsewhere", Header(2, 1, 0, 4), FALSE, "none", 3000)}
MCNames == {Name(s, e) : s \in {"a", "b", "c"}, e \in {"nes", "NES", "fig"}}
=============================================================================
