------------------------------ MODULE Convert ------------------------------
(***************************************************************************)
(* Conversions made one after the other in workdir/: convert.sh copies the *)
(* static sources, runs upernes on a rom, and links whatever it finds in   *)
(* workdir/ (main.cpp, rom_file.cpp, workdir/convert.sh). upernes writes   *)
(* its files one by one in the output directory, answers 0 after most of   *)
(* its errors, and may be stopped at any time: by an assertion or by the   *)
(* user.                                                                   *)
(***************************************************************************)
EXTENDS OpcodeTable

CONSTANTS
   Roms,            \* The rom files, see RomFile
   Names,           \* Names of files of workdir/: [stem, ext]
   FirstTexts,      \* What opcodes.txt may hold at the first conversion
   UsualTexts,      \* ... and at the next ones
   WholeText,       \* The file of the repository
   Scrambled,       \* Tables a parser gone past the end of an array may leave
   Bank0Room,       \* Bytes the emulation leaves in bank 0 of the image
   MaxConversions,  \* Bound: conversions of a behaviour
   NoText,          \* There is no opcodes.txt, or upernes has closed it
   NoFile, NoRom

RomFile(r) ==
   /\ r.name \in Names /\ r.place \in {"workdir", "elsewhere"}
   /\ r.jumps \in BOOLEAN                             \* It has indirect jumps
   /\ r.fault \in {"none", "port", "label", "routine"}  \* What its program makes upernes stumble on
   /\ r.ram \in Nat /\ r.code \in Nat    \* Bytes of its patchedPrgRam.bin, of the code of its patchedPrg.asm
Lives(r, n) == r.place = "workdir" /\ r.name = n

(* The name of the image: sed "s/nes/fig/". *)
\* Mutant of ROM_NAME: no sed.
ROM_NAMEsame(n) == n
ROM_NAME(n) == IF n.ext = "nes" THEN [n EXCEPT !.ext = "fig"] ELSE n

ProgramFiles == {"patchedPrg.asm", "patchedPrgRam.bin", "patchedPrg.bin", "romprg.asm"}
(* What make all includes; nesprg.bin, recomp.asm and indjmp.asm are written
   for nobody, and their contents are not followed. *)
Linked == ProgramFiles \cup {"neschr.bin", "mapper.inc"}
Directories == {"here", "elsewhere", "missing"}  \* The output path, seen from workdir/
Troubles == {"none", "table", "name", "config", "directory", "port"}

Source(r) == [kind |-> "source", of |-> r]
Contents == [of : Roms, whole : BOOLEAN]
Images == [kind : {"image"}, of : Roms, trouble : Troubles, out : Directories,
           parts : [Linked -> Contents \cup {NoFile}]]
Stored == {NoFile} \cup {Source(r) : r \in Roms} \cup Images
(* What opcodes.txt may hold at the n-th conversion. *)
Texts(n) == IF n = 1 THEN FirstTexts ELSE UsualTexts

ASSUME ConvertAssumption ==
   /\ \A r \in Roms : RomFile(r)
   /\ \A n \in Names : \A r, q \in Roms : Lives(r, n) /\ Lives(q, n) => r = q
   /\ \A n \in Names : n = [stem |-> n.stem, ext |-> n.ext] /\ ROM_NAME(n) \in Names
   /\ \A t \in FirstTexts \ {NoText} : IsText(t)
   /\ UsualTexts \subseteq FirstTexts /\ MaxConversions \in Nat
   /\ NoRom \notin Roms
   /\ NoFile \notin Contents \cup Images \cup {Source(r) : r \in Roms}

VARIABLES
   pc,
   rom, out,        \* The arguments of convert.sh
   text, table,     \* opcodes.txt and the search table, while upernes starts
   files,           \* The files of workdir/ that upernes writes
   cfg,             \* The rom whose crc is in the .txt of a name, in each directory
   work,            \* The files of workdir/ named after a rom: sources and images
   trouble,         \* The error upernes swallowed in this conversion
   torn,            \* Some upernes died between the files of a patched program
   built,           \* The roms converted without trouble
   conversions
vars == <<pc, rom, out, text, table, files, cfg, work, trouble, torn, built, conversions>>
script == <<rom, out, conversions>>

Init ==
   /\ pc = "idle" /\ rom = NoRom /\ out = "here" /\ text = NoText /\ table = {}
   /\ files = [f \in Linked |-> NoFile]
   /\ cfg = [d \in Directories |-> [n \in Names |-> NoRom]]
   /\ work = [n \in Names |-> IF \E r \in Roms : Lives(r, n)
                                THEN Source(CHOOSE r \in Roms : Lives(r, n)) ELSE NoFile]
   /\ trouble = "none" /\ torn = FALSE /\ built = {} /\ conversions = 0

-----------------------------------------------------------------------------
(* The end of upernes: with 0, whatever happened, or killed. *)
Answer0(why) == pc' = "exited" /\ trouble' = why
Failed == pc' = "failed" /\ trouble' = trouble     \* "Conversion failed", exit 1

(* A file of upernes that is linked, whole or cut: mapper.inc has no output path. *)
Put(f, whole) ==
   files' = IF out = "here" \/ f = "mapper.inc"
              THEN [files EXCEPT ![f] = [of |-> rom, whole |-> whole]] ELSE files

Startable == {"idle", "failed", "done"}
CopyStatic ==
   /\ pc \in Startable /\ conversions < MaxConversions
   /\ text' \in Texts(conversions + 1)
   /\ trouble' = "none" /\ conversions' = conversions + 1 /\ pc' = "fill_structure"
   /\ UNCHANGED <<rom, out, table, files, cfg, work, torn, built>>

(* The arguments of convert.sh are chosen where they first matter. *)
Arguments == rom' \in Roms /\ out' \in Directories

(* A table is built, or the text refused with 0, or upernes killed. *)
TableIs(T) == table' = T /\ pc' = "open_nes" /\ UNCHANGED <<rom, out, text, trouble>>
fill_structure ==
   /\ pc = "fill_structure"
   /\ LET p == build_list(text) IN
      \/ text # NoText /\ Filled(p) /\ TableIs(SearchTable(p.list))
      \/ text # NoText /\ p.why = "overrun" /\ \E T \in Scrambled : TableIs(T)
      \/ /\ text # NoText => ~Filled(p) /\ p.why # "assertion"
         /\ table' = {} /\ text' = NoText /\ Arguments /\ Answer0("table")
      \/ /\ text # NoText /\ p.why # "" /\ Failed
         /\ table' = {} /\ text' = NoText /\ UNCHANGED <<rom, out>>
   /\ UNCHANGED <<files, cfg, work, torn, built, conversions>>

(* The header of 16 bytes: four marks, banks of 16 and 8 KB, mapper, then  *)
(* zeros. The trainer is noted and not skipped.                            *)
proces_header(h) ==
   /\ h.marks /\ h.prg \in 1 .. 64 /\ h.chr <= 64
   /\ h.mapper = 0 /\ h.byte7 = 0 /\ h.zeros
read_roms(h) == (2 * h.prg) + h.chr <= h.kb8
Present(r) == r.place = "workdir" => work[r.name] = Source(r)

\* Mutant of open_nes: the table is never deleted.
open_nesKeeps ==
   /\ pc = "open_nes" /\ Arguments
   /\ IF Present(rom') /\ proces_header(rom'.header) /\ read_roms(rom'.header)
        THEN pc' = "nesprg.bin" /\ trouble' = trouble
        ELSE Failed
   /\ text' = NoText
   /\ UNCHANGED <<table, files, cfg, work, torn, built, conversions>>
open_nes ==
   /\ pc = "open_nes" /\ Arguments
   /\ IF Present(rom') /\ proces_header(rom'.header) /\ read_roms(rom'.header)
        THEN pc' = "nesprg.bin" /\ trouble' = trouble
        ELSE Failed
   /\ text' = NoText /\ table' = {}       \* From here on the table is only looked up
   /\ UNCHANGED <<files, cfg, work, torn, built, conversions>>

\* Mutant of dump: it returns after the PRG.
dumpPrg ==
   /\ pc = "nesprg.bin" /\ pc' = "init"
   /\ UNCHANGED <<script, text, table, files, cfg, work, trouble, torn, built>>
(* Nobody looks at the answer of dump. *)
dump ==
   /\ \/ pc = "nesprg.bin" /\ files' = files /\ pc' = "neschr.bin"
      \/ pc = "neschr.bin" /\ Put(pc, TRUE) /\ pc' = "init"
   /\ UNCHANGED <<script, text, table, cfg, work, trouble, torn, built>>

find_config_filename(n) == n.ext = "nes"
\* Mutant of check_crc: the file of any rom will do.
check_crcAny(r) == TRUE
check_crc(r) == cfg[out][r.name] \in {NoRom, r}

indjmp_init ==
   /\ pc = "init"
   /\ IF ~find_config_filename(rom.name) THEN Answer0("name")
      ELSE IF ~check_crc(rom) THEN Answer0("config")
      ELSE pc' = "disasm" /\ trouble' = trouble
   /\ UNCHANGED <<script, text, table, files, cfg, work, torn, built>>

(* disasm writes the file of the indirect jumps, if it can. *)
disasm ==
   /\ pc = "disasm" /\ pc' = "recomp.asm"
   /\ cfg' = IF rom.jumps /\ out # "missing" THEN [cfg EXCEPT ![out][rom.name] = rom] ELSE cfg
   /\ UNCHANGED <<script, text, table, files, work, trouble, torn, built>>

re ==
   /\ pc = "recomp.asm"
   /\ IF out = "missing" THEN Answer0("directory")
      ELSE IF rom.fault = "port" THEN Answer0("port")
      ELSE pc' = "indjmp.asm" /\ trouble' = trouble
   /\ UNCHANGED <<script, text, table, files, cfg, work, torn, built>>

create_indjump_asm_routines ==
   /\ pc = "indjmp.asm"
   /\ IF rom.fault = "label" THEN Failed ELSE pc' = "patchedPrg.asm" /\ trouble' = trouble
   /\ UNCHANGED <<script, text, table, files, cfg, work, torn, built>>

(* patchedPrg.asm stays open while the image of the ram is written. *)
patchPrgRom ==
   /\ \/ pc = "patchedPrg.asm" /\ Put(pc, FALSE) /\ pc' = "patchedPrgRam.bin"
      \/ pc = "patchedPrgRam.bin" /\ Put(pc, TRUE) /\ pc' = "patches"
      \/ pc = "patches" /\ rom.fault # "routine" /\ Put("patchedPrg.asm", TRUE) /\ pc' = "mapper.inc"
      \/ pc = "mapper.inc" /\ Put(pc, TRUE) /\ pc' = "patchedPrg.bin"
      \/ pc = "patchedPrg.bin" /\ Put(pc, TRUE) /\ pc' = "romprg.asm"
   /\ UNCHANGED <<script, text, table, cfg, work, trouble, torn, built>>

\* Mutant of NoRoutine: an exception, which main swallows.
NoRoutineThrown ==
   /\ pc = "patches" /\ rom.fault = "routine" /\ Answer0("port")
   /\ UNCHANGED <<script, text, table, files, cfg, work, torn, built>>
NoRoutine ==              \* The assertion of patchBRK
   /\ pc = "patches" /\ rom.fault = "routine" /\ Failed
   /\ torn' = TRUE /\ UNCHANGED <<script, text, table, files, cfg, work, built>>

\* Mutant of create_rom_headerfile: compiled without assertions.
create_rom_headerfileNDEBUG ==
   /\ pc = "romprg.asm" /\ Put(pc, rom.header.prg \in {1, 2}) /\ Answer0("none")
   /\ UNCHANGED <<script, text, table, cfg, work, torn, built>>
create_rom_headerfile ==
   /\ pc = "romprg.asm"
   /\ IF rom.header.prg \in {1, 2}
        THEN Put(pc, TRUE) /\ Answer0("none") /\ torn' = torn
        ELSE Put(pc, FALSE) /\ Failed /\ torn' = TRUE
   /\ UNCHANGED <<script, text, table, cfg, work, built>>

Patching == {"patchedPrg.asm", "patchedPrgRam.bin", "patches", "mapper.inc", "patchedPrg.bin", "romprg.asm"}
Running == {"fill_structure", "open_nes", "nesprg.bin", "neschr.bin", "init", "disasm", "recomp.asm",
            "indjmp.asm"} \cup Patching
Interrupted ==
   /\ pc \in Running /\ Failed
   /\ files' = files \/ (pc \in Linked /\ Put(pc, FALSE))
   /\ text' = NoText /\ table' = {} /\ torn' = (torn \/ pc \in Patching)
   /\ UNCHANGED <<script, cfg, work, built>>

-----------------------------------------------------------------------------
(* convert.sh, after an upernes that answered 0: rm, make. *)
DeletePrevious ==
   /\ pc = "exited" /\ pc' = "make"
   /\ work' = [work EXCEPT ![ROM_NAME(rom.name)] = NoFile]
   /\ UNCHANGED <<script, text, table, files, cfg, trouble, torn, built>>

Image == [kind |-> "image", of |-> rom, trouble |-> trouble, out |-> out,
          parts |-> [f \in Linked |-> files[f]]]
Missing == \E f \in Linked : files[f] = NoFile
Empty(r) == r.header.chr = 0
Cuts == \E f \in Linked : /\ files[f] # NoFile
                          /\ ~files[f].whole \/ (f = "neschr.bin" /\ Empty(files[f].of))

(* Bank 2 holds the CHR, the image of the ram, and what rom.asm includes of *)
(* pictures, palettes and sound program; bank 0 the routines of the game.   *)
BANKSIZE == 32768
CHR_BANK_SIZE == 8192
Included == 16 + 2048 + 128 + 11264
Fits(chr, ram, asm) ==
   /\ (chr.header.chr * CHR_BANK_SIZE) + ram.ram + Included <= BANKSIZE
   /\ asm.code <= Bank0Room
FilesFit == Fits(files["neschr.bin"].of, files["patchedPrgRam.bin"].of, files["patchedPrg.asm"].of)

(* The assembler and the linker refuse a missing file and a bank that is too *)
(* full, and may refuse a cut or an empty file.                              *)
MakeAll ==
   /\ pc = "make" /\ pc' = "done"
   /\ \/ ~Missing /\ (~FilesFit => Cuts) /\ work' = [work EXCEPT ![ROM_NAME(rom.name)] = Image]
      \/ (~Missing /\ FilesFit => Cuts) /\ work' = work
   /\ built' = IF trouble = "none" /\ out = "here" THEN built \cup {rom} ELSE built
   /\ UNCHANGED <<script, text, table, files, cfg, trouble, torn>>

Next == \/ CopyStatic \/ fill_structure \/ open_nes \/ dump \/ indjmp_init \/ disasm \/ re
        \/ create_indjump_asm_routines \/ patchPrgRom \/ NoRoutine \/ create_rom_headerfile
        \/ Interrupted \/ DeletePrevious \/ MakeAll

Spec == Init /\ [][Next]_vars

-----------------------------------------------------------------------------
(* Types. *)
Unnamed == {"idle", "failed", "fill_structure", "open_nes"}      \* upernes has not looked at its rom
TypeOK ==
   /\ pc \in Startable \cup Running \cup {"exited", "make"}
   /\ rom \in Roms \cup {NoRom} /\ (pc \notin Unnamed => rom # NoRom)
   /\ out \in Directories /\ (table # {} => pc = "open_nes")
   /\ (text # NoText => pc \in {"fill_structure", "open_nes"}) /\ (text = NoText \/ text \in Texts(conversions))
   /\ files \in [Linked -> Contents \cup {NoFile}]
   /\ cfg \in [Directories -> [Names -> Roms \cup {NoRom}]]
   /\ DOMAIN work = Names
   /\ \A n \in Names : work[n] \in Stored
   /\ trouble \in Troubles /\ torn \in BOOLEAN /\ built \subseteq Roms
   /\ conversions \in 0 .. MaxConversions

(* A text the parser accepts is read as it is written, if no mnemonic has
   more lines than ops has entries: every opcode of the text, and no other,
   has the size, addressing, mnemonic and kind that stand on its line, above
   it and above its mnemonic (parser.cpp, opcodes.cpp). *)
AcceptedIsWritten ==
   pc = "open_nes" /\ Roomy(text) =>
      LET W == Written(text) IN
      /\ \A e \in table : \E w \in W : w.opcode = e.opcode
      /\ \A w \in W : /\ is_valid(table, w.opcode)
                      /\ op_call_size(table, w.opcode) = w.size_B
                      /\ addressing(table, w.opcode) = w.memaccess
                      /\ is_mnemonic(table, w.opcode, w.mnemonic)
                      /\ is_branch(table, w.opcode) <=>
                            w.category = "Jump" /\ w.mnemonic \notin {"nop", "rts", "jmp", "jsr"}

(* What the parser cannot see missing from opcodes.txt is the header of a
   category, or a number of a line: without any other item the text is
   refused, or read as if it were whole. *)
Unseen == {"category", "flags", "number"}
UnseenDamage ==
   pc = "open_nes" =>
      \A p \in DOMAIN WholeText :
         text = Without(WholeText, p) /\ WholeText[p].k \notin Unseen => table = Written(WholeText)

Own(i, r) == i.kind = "image" /\ \A f \in Linked : i.parts[f] = [of |-> r, whole |-> TRUE]

(* A rom upernes has nothing against and the banks of the image have room for,
   converted in workdir/ to the end, gives an image made of its own files and
   whole, whatever was left there before. *)
Good(r) ==
   /\ r.header.prg <= 2 /\ r.fault = "none" /\ find_config_filename(r.name)
   /\ ~Empty(r) /\ Fits(r, r, r)
   /\ cfg["here"][r.name] \in {NoRom, r}
GoodBuilds ==
   pc = "done" /\ Good(rom) /\ out = "here" /\ trouble # "table"
      => work[ROM_NAME(rom.name)] # NoFile /\ Own(work[ROM_NAME(rom.name)], rom)

(* An image made of another game's files comes from an error upernes answered
   0 after, or from an output path make does not read: never from a
   conversion that convert.sh knows has failed. *)
MixedOnlySwallowed ==
   \A n \in Names : work[n] # NoFile /\ work[n].kind = "image" /\ ~Own(work[n], work[n].of)
                       => work[n].trouble # "none" \/ work[n].out # "here"

(* As long as no upernes died while patching, the four files of the program
   in an image are of one game: recomp.asm, written first, meets every error
   that patchPrgRom would swallow half way. *)
OneProgram ==
   ~torn => \A n \in Names : work[n] # NoFile /\ work[n].kind = "image" =>
               \A f, g \in ProgramFiles : work[n].parts[f] = work[n].parts[g]

(* The rom of the user stays in workdir/, unless its name has no "nes" that
   convert.sh could turn into "fig". *)
SourceKept ==
   \A r \in Roms : r.place = "workdir" /\ r.name.ext = "nes" => work[r.name] = Source(r)

(* Of several games of one name with indirect jumps, one only is ever
   converted without an error: its .txt keeps the others out. *)
OneGamePerName ==
   \A r, q \in built : r.name = q.name /\ r.jumps /\ q.jumps => r = q
=============================================================================
