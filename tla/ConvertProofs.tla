--------------------------- MODULE ConvertProofs ----------------------------
(* Theorems about module Convert: for any roms, texts and number of        *)
(* conversions.                                                            *)
EXTENDS Convert, SequenceTheorems, FiniteSetTheorems, WellFoundedInduction, TLAPS

(* The name of an image never ends in "nes". *)
LEMMA ImageName ==
  ASSUME NEW n \in Names
  PROVE  ROM_NAME(n) \in Names /\ ROM_NAME(n).ext # "nes"
<1>1. CASE n.ext = "nes"
  <2>1. n = [stem |-> n.stem, ext |-> n.ext]
    BY ConvertAssumption
  <2>2. [n EXCEPT !.ext = "fig"].ext = "fig"
    BY <2>1
  <2> QED BY <1>1, <2>2, ConvertAssumption DEF ROM_NAME
<1>2. CASE n.ext # "nes"
  BY <1>2, ConvertAssumption DEF ROM_NAME
<1> QED BY <1>1, <1>2

(* Once upernes has looked at its arguments, they are a rom and a name. *)
LEMMA Named ==
  ASSUME TypeOK, pc \notin Unnamed
  PROVE  rom \in Roms /\ rom.name \in Names /\ RomFile(rom)
  BY ConvertAssumption DEF TypeOK, RomFile

(* How the opcodes are read: a table, a refusal or a death. *)
Fill ==
  /\ pc = "fill_structure" /\ UNCHANGED <<files, cfg, work, torn, built, conversions>>
  /\ \/ pc' = "open_nes" /\ text # NoText /\ UNCHANGED <<rom, out, text, trouble>>
     \/ table' = {} /\ text' = NoText /\ Arguments /\ pc' = "exited" /\ trouble' = "table"
     \/ table' = {} /\ text' = NoText /\ Failed /\ UNCHANGED <<rom, out>>
LEMMA FillIs == fill_structure => Fill
<1> DEFINE p == build_list(text)
<1> SUFFICES ASSUME fill_structure PROVE Fill
  OBVIOUS
<1>1. /\ pc = "fill_structure" /\ UNCHANGED <<files, cfg, work, torn, built, conversions>>
      /\ \/ text # NoText /\ Filled(p) /\ TableIs(SearchTable(p.list))
         \/ text # NoText /\ \E T \in Scrambled : TableIs(T)
         \/ table' = {} /\ text' = NoText /\ Arguments /\ Answer0("table")
         \/ Failed /\ table' = {} /\ text' = NoText /\ UNCHANGED <<rom, out>>
  BY Zenon DEF fill_structure
<1> HIDE DEF p
<1>2. CASE text # NoText /\ \E T : TableIs(T)
  BY <1>1, <1>2 DEF TableIs, Fill
<1> QED BY <1>1, <1>2 DEF Fill, Answer0

(* A file written keeps the type of the files. *)
LEMMA PutType ==
  ASSUME TypeOK, pc \notin Unnamed, NEW f \in Linked, NEW whole \in BOOLEAN, Put(f, whole)
  PROVE  files' \in [Linked -> Contents \cup {NoFile}]
<1>1. [of |-> rom, whole |-> whole] \in Contents
  BY Named DEF Contents
<1> QED BY <1>1 DEF Put, TypeOK

LEMMA TextKnown == TypeOK => text \in FirstTexts \cup {NoText}
  BY ConvertAssumption DEF TypeOK, Texts

LEMMA InitType == Init => TypeOK
<1> SUFFICES ASSUME Init PROVE TypeOK
  OBVIOUS
<1>1. \A n \in Names : work[n] \in Stored
  <2> SUFFICES ASSUME NEW n \in Names, \E r \in Roms : Lives(r, n)
               PROVE  Source(CHOOSE r \in Roms : Lives(r, n)) \in {Source(r) : r \in Roms}
    BY DEF Init, Stored
  <2>1. PICK r \in Roms : Lives(r, n)
    OBVIOUS
  <2>2. (CHOOSE q \in Roms : Lives(q, n)) \in Roms
    BY <2>1
  <2> QED BY <2>2
<1>2. 0 \in 0 .. MaxConversions
  BY ConvertAssumption
<1> QED
  BY <1>1, <1>2, ConvertAssumption
  DEF Init, TypeOK, Directories, Troubles, Startable, Running, Patching, Unnamed

LEMMA TypeStep == TypeOK /\ [Next]_vars => TypeOK'
<1> SUFFICES ASSUME TypeOK, [Next]_vars PROVE TypeOK'
  OBVIOUS
<1> USE DEF Unnamed, Startable, Running, Patching
<1>1. CASE CopyStatic
  <2>1. conversions' \in 0 .. MaxConversions
    BY <1>1, ConvertAssumption DEF CopyStatic, TypeOK
  <2>2. text' \in Texts(conversions')
    BY <1>1 DEF CopyStatic
  <2> QED BY <1>1, <2>1, <2>2 DEF CopyStatic, TypeOK, Troubles
<1>2. CASE fill_structure
  BY <1>2, FillIs, ConvertAssumption DEF Fill, Arguments, Failed, TypeOK, Troubles
<1>3. CASE open_nes
  BY <1>3, ConvertAssumption DEF open_nes, Arguments, Failed, TypeOK
<1>4. CASE dump
  <2>1. CASE pc = "nesprg.bin"
    BY <1>4, <2>1 DEF dump, script, TypeOK
  <2>2. CASE pc = "neschr.bin"
    <3>1. files' \in [Linked -> Contents \cup {NoFile}]
      BY <1>4, <2>2, PutType DEF dump, Linked
    <3> QED BY <1>4, <2>2, <3>1 DEF dump, script, TypeOK
  <2> QED BY <1>4, <2>1, <2>2 DEF dump
<1>5. CASE indjmp_init
  BY <1>5 DEF indjmp_init, Answer0, script, TypeOK, Troubles
<1>6. CASE disasm
  <2>1. cfg' \in [Directories -> [Names -> Roms \cup {NoRom}]]
    BY <1>6, Named DEF disasm, TypeOK
  <2> QED BY <1>6, <2>1 DEF disasm, script, TypeOK
<1>7. CASE re
  BY <1>7 DEF re, Answer0, script, TypeOK, Troubles
<1>8. CASE create_indjump_asm_routines
  BY <1>8 DEF create_indjump_asm_routines, Failed, script, TypeOK
<1>9. CASE patchPrgRom
  <2>1. files' \in [Linked -> Contents \cup {NoFile}]
    BY <1>9, PutType DEF patchPrgRom, Linked, ProgramFiles
  <2> QED BY <1>9, <2>1 DEF patchPrgRom, script, TypeOK
<1>10. CASE NoRoutine
  BY <1>10 DEF NoRoutine, Failed, script, TypeOK
<1>11. CASE create_rom_headerfile
  <2>1. files' \in [Linked -> Contents \cup {NoFile}]
    BY <1>11, PutType DEF create_rom_headerfile, Linked, ProgramFiles
  <2> QED BY <1>11, <2>1 DEF create_rom_headerfile, Answer0, Failed, script, TypeOK, Troubles
<1>12. CASE Interrupted
  <2>1. files' \in [Linked -> Contents \cup {NoFile}]
    <3>1. CASE files' = files
      BY <3>1 DEF TypeOK
    <3>2. CASE pc \in Linked /\ Put(pc, FALSE)
      BY <3>2, PutType DEF Linked, ProgramFiles
    <3> QED BY <1>12, <3>1, <3>2 DEF Interrupted
  <2> QED BY <1>12, <2>1 DEF Interrupted, Failed, script, TypeOK
<1>13. CASE DeletePrevious
  BY <1>13 DEF DeletePrevious, script, Stored, TypeOK
<1>14. CASE MakeAll
  <2>1. Image \in Images
    BY <1>14, Named DEF MakeAll, Image, Images, TypeOK
  <2>2. DOMAIN work' = Names
        /\ \A n \in Names : work'[n] \in Stored
    BY <1>14, <2>1 DEF MakeAll, Stored, TypeOK
  <2>3. built' \subseteq Roms
    BY <1>14, Named DEF MakeAll, TypeOK
  <2> QED BY <1>14, <2>2, <2>3 DEF MakeAll, script, TypeOK
<1>15. CASE UNCHANGED vars
  BY <1>15 DEF vars, TypeOK
<1> QED
  BY <1>1, <1>2, <1>3, <1>4, <1>5, <1>6, <1>7, <1>8, <1>9, <1>10, <1>11, <1>12, <1>13, <1>14, <1>15
  DEF Next

(* Types. *)
THEOREM TypeCorrect == Spec => []TypeOK
<1>1. Init => TypeOK
  BY InitType
<1>2. TypeOK /\ [Next]_vars => TypeOK'
  BY TypeStep
<1> QED BY <1>1, <1>2, PTL DEF Spec

-----------------------------------------------------------------------------
(* The sources of workdir/: an image takes the place of nothing but an     *)
(* image, or of a source without "nes".                                    *)
LEMMA SourceInit == Init => SourceKept
<1> SUFFICES ASSUME Init, NEW r \in Roms, r.place = "workdir" PROVE work[r.name] = Source(r)
  BY DEF SourceKept
<1>1. r.name \in Names /\ Lives(r, r.name)
  BY ConvertAssumption DEF RomFile, Lives
<1>2. (CHOOSE q \in Roms : Lives(q, r.name)) = r
  BY <1>1, ConvertAssumption
<1> QED BY <1>1, <1>2 DEF Init

LEMMA SourceStep == TypeOK /\ SourceKept /\ [Next]_vars => SourceKept'
<1> SUFFICES ASSUME TypeOK, SourceKept, [Next]_vars,
                    NEW r \in Roms, r.place = "workdir", r.name.ext = "nes"
             PROVE  work'[r.name] = Source(r)
  BY DEF SourceKept
<1>1. work[r.name] = Source(r) /\ r.name \in Names
  BY ConvertAssumption DEF SourceKept, RomFile
<1>2. CASE DeletePrevious \/ MakeAll
  <2>1. ROM_NAME(rom.name) # r.name
    BY <1>2, Named, ImageName DEF DeletePrevious, MakeAll, Unnamed
  <2> QED BY <1>1, <1>2, <2>1 DEF DeletePrevious, MakeAll, TypeOK
<1>3. CASE UNCHANGED work
  BY <1>1, <1>3
<1> QED
  BY <1>2, <1>3, FillIs
  DEF Next, vars, script, CopyStatic, Fill, open_nes, dump, indjmp_init, disasm, re,
      create_indjump_asm_routines, patchPrgRom, NoRoutine, create_rom_headerfile, Interrupted

(* convert.sh never removes a rom whose name ends in "nes". *)
THEOREM SourceCorrect == Spec => []SourceKept
<1>1. Init => TypeOK /\ SourceKept
  BY InitType, SourceInit
<1>2. TypeOK /\ SourceKept /\ [Next]_vars => (TypeOK /\ SourceKept)'
  BY TypeStep, SourceStep
<1> QED BY <1>1, <1>2, PTL DEF Spec

-----------------------------------------------------------------------------
(* What is known of a conversion, from the place where upernes is.         *)
Mine(f) == files[f] = [of |-> rom, whole |-> TRUE]
AfterCheck == {"recomp.asm", "indjmp.asm"} \cup Patching
Clean == trouble = "none" /\ out = "here"
Over == {"exited", "make"}

(* The files of this conversion that are already there. *)
Progress ==
   out = "here" =>
      /\ pc \in {"init", "disasm"} \cup AfterCheck => Mine("neschr.bin")
      /\ pc \in {"patches", "mapper.inc", "patchedPrg.bin", "romprg.asm"} => Mine("patchedPrgRam.bin")
      /\ pc \in {"mapper.inc", "patchedPrg.bin", "romprg.asm"} => Mine("patchedPrg.asm")
      /\ pc \in {"patchedPrg.bin", "romprg.asm"} => Mine("mapper.inc")
      /\ pc = "romprg.asm" => Mine("patchedPrg.bin")
      /\ pc \in Over /\ trouble = "none" => \A f \in Linked : Mine(f)

(* Why upernes answered 0 after an error. *)
Reasons ==
   /\ pc \in Running => trouble = "none"
   /\ pc \in Over \cup {"done"} =>
         /\ trouble = "name" => ~find_config_filename(rom.name)
         /\ trouble = "config" => ~check_crc(rom)
         /\ trouble = "directory" => out = "missing"
         /\ trouble = "port" => rom.fault = "port"

(* Whose .txt it is. *)
Owner ==
   /\ pc = "disasm" => check_crc(rom)
   /\ out = "here" /\ (pc \in AfterCheck \/ (pc \in Over /\ trouble = "none")) /\ rom.jumps
         => cfg["here"][rom.name] = rom
   /\ \A r \in built : r.jumps => cfg["here"][r.name] = r

(* The program in workdir/ is of one rom, but while it is being replaced. *)
Same == \A f, g \in ProgramFiles : files[f] = files[g]
Untorn == ~torn /\ (pc \notin Patching \/ out # "here") => Same

DoneWell == pc = "done" /\ Clean /\ ~Empty(rom) /\ Fits(rom, rom, rom) =>
   work[ROM_NAME(rom.name)] # NoFile /\ Own(work[ROM_NAME(rom.name)], rom)

IInv == TypeOK /\ Progress /\ Reasons /\ Owner /\ Untorn /\ DoneWell
        /\ MixedOnlySwallowed /\ OneProgram

LEMMA IInvInit == Init => IInv
<1> SUFFICES ASSUME Init PROVE IInv
  OBVIOUS
<1>1. \A n \in Names : work[n] = NoFile \/ work[n].kind = "source"
  BY DEF Init, Source
<1>2. TypeOK
  BY InitType
<1>3. Same
  BY DEF Init, Same, Linked
<1> QED
  BY <1>1, <1>2, <1>3
  DEF Init, IInv, Progress, Reasons, Owner, Untorn, DoneWell, MixedOnlySwallowed, OneProgram,
      AfterCheck, Patching, Over, Running, Clean

(* What a step does to a file named after a rom. *)
LEMMA WorkStep ==
  ASSUME TypeOK, [Next]_vars, NEW n \in Names
  PROVE  \/ work'[n] = work[n]
         \/ work'[n] = NoFile
         \/ MakeAll /\ work'[n] = Image /\ n = ROM_NAME(rom.name)
<1>1. CASE DeletePrevious \/ MakeAll
  <2>1. ROM_NAME(rom.name) \in Names
    BY <1>1, Named, ImageName DEF DeletePrevious, MakeAll, Unnamed
  <2> QED BY <1>1, <2>1 DEF DeletePrevious, MakeAll, TypeOK
<1>2. CASE UNCHANGED work
  BY <1>2
<1> QED
  BY <1>1, <1>2, FillIs
  DEF Next, vars, script, CopyStatic, Fill, open_nes, dump, indjmp_init, disasm, re,
      create_indjump_asm_routines, patchPrgRom, NoRoutine, create_rom_headerfile, Interrupted

(* A file put in workdir/ is of this rom; the others stay. *)
LEMMA PutHere ==
  ASSUME TypeOK, NEW f \in Linked, Put(f, TRUE), out = "here", rom' = rom
  PROVE  Mine(f)' /\ \A g \in Linked : g # f /\ Mine(g) => Mine(g)'
  BY DEF Put, Mine, TypeOK

LEMMA ProgressStep == TypeOK /\ Progress /\ [Next]_vars => Progress'
<1> SUFFICES ASSUME TypeOK, Progress, [Next]_vars, out' = "here" PROVE Progress'
  BY DEF Progress
<1> USE DEF Patching, AfterCheck, Over, Linked, ProgramFiles
<1>1. CASE CopyStatic \/ Interrupted
  BY <1>1 DEF CopyStatic, Interrupted, Failed, Progress
<1>2. CASE fill_structure
  BY <1>2, FillIs DEF Fill, Failed, Progress
<1>3. CASE open_nes
  BY <1>3 DEF open_nes, Failed, Progress
<1>4. CASE dump
  BY <1>4, PutHere DEF dump, script, Progress
<1>5. CASE indjmp_init \/ disasm \/ re \/ create_indjump_asm_routines
  BY <1>5
  DEF indjmp_init, disasm, re, create_indjump_asm_routines, Answer0, Failed, script, Progress, Mine
<1>6. CASE patchPrgRom
  <2>1. CASE pc = "patchedPrg.asm"
    <3>1. Mine("neschr.bin")'
      BY <1>6, <2>1 DEF patchPrgRom, script, Progress, Put, Mine, TypeOK
    <3> QED BY <1>6, <2>1, <3>1 DEF patchPrgRom, Progress
  <2>2. CASE pc # "patchedPrg.asm"
    BY <1>6, <2>2, PutHere DEF patchPrgRom, script, Progress
  <2> QED BY <2>1, <2>2
<1>7. CASE NoRoutine
  BY <1>7 DEF NoRoutine, Failed, Progress
<1>8. CASE create_rom_headerfile
  <2>1. CASE rom.header.prg \in {1, 2}
    BY <1>8, <2>1, PutHere DEF create_rom_headerfile, Answer0, script, Progress
  <2>2. CASE rom.header.prg \notin {1, 2}
    BY <1>8, <2>2 DEF create_rom_headerfile, Failed, Progress
  <2> QED BY <2>1, <2>2
<1>9. CASE DeletePrevious \/ MakeAll
  BY <1>9 DEF DeletePrevious, MakeAll, script, Progress, Mine
<1>10. CASE UNCHANGED vars
  BY <1>10 DEF vars, Progress, Mine
<1> QED
  BY <1>1, <1>2, <1>3, <1>4, <1>5, <1>6, <1>7, <1>8, <1>9, <1>10 DEF Next

LEMMA ReasonsStep == TypeOK /\ Reasons /\ [Next]_vars => Reasons'
<1> SUFFICES ASSUME TypeOK, Reasons, [Next]_vars PROVE Reasons'
  OBVIOUS
<1> USE DEF Running, Patching, Over, Reasons, check_crc
<1>1. CASE CopyStatic \/ fill_structure \/ open_nes \/ Interrupted
  BY <1>1, FillIs DEF CopyStatic, Fill, open_nes, Interrupted, Answer0, Failed
<1>2. CASE dump \/ indjmp_init \/ disasm \/ re \/ create_indjump_asm_routines
  BY <1>2
  DEF dump, indjmp_init, disasm, re, create_indjump_asm_routines, Answer0, Failed, script
<1>3. CASE patchPrgRom \/ NoRoutine \/ create_rom_headerfile
  BY <1>3 DEF patchPrgRom, NoRoutine, create_rom_headerfile, Answer0, Failed, script
<1>4. CASE DeletePrevious \/ MakeAll
  BY <1>4 DEF DeletePrevious, MakeAll, script
<1>5. CASE UNCHANGED vars
  BY <1>5 DEF vars
<1> QED BY <1>1, <1>2, <1>3, <1>4, <1>5 DEF Next

LEMMA OwnerStep ==
  TypeOK /\ Progress /\ Reasons /\ Owner /\ [Next]_vars => Owner'
<1> SUFFICES ASSUME TypeOK, Progress, Reasons, Owner, [Next]_vars PROVE Owner'
  OBVIOUS
<1> USE DEF Patching, AfterCheck, Over, Owner, check_crc
<1>1. CASE CopyStatic \/ fill_structure \/ open_nes \/ Interrupted
  BY <1>1, FillIs DEF CopyStatic, Fill, open_nes, Interrupted, Answer0, Failed, script
<1>2. CASE dump \/ indjmp_init \/ re \/ create_indjump_asm_routines
  BY <1>2 DEF dump, indjmp_init, re, create_indjump_asm_routines, Answer0, Failed, script
<1>3. CASE disasm
  <2>1. rom \in Roms /\ rom.name \in Names /\ out \in Directories
    BY <1>3, Named DEF disasm, Unnamed, TypeOK
  <2>2. \A r \in built : r \in Roms /\ r.name \in Names
    BY ConvertAssumption DEF TypeOK, RomFile
  <2>3. cfg[out][rom.name] \in {NoRom, rom}
    BY <1>3 DEF disasm
  <2>4. \A r \in built : r.jumps => cfg'["here"][r.name] = r
    <3> SUFFICES ASSUME NEW r \in built, r.jumps PROVE cfg'["here"][r.name] = r
      OBVIOUS
    <3>1. cfg["here"][r.name] = r /\ r # NoRom
      BY <2>2, ConvertAssumption
    <3>2. CASE out = "here" /\ r.name = rom.name
      BY <1>3, <2>1, <2>3, <3>1, <3>2 DEF disasm, TypeOK
    <3>3. CASE ~(out = "here" /\ r.name = rom.name)
      BY <1>3, <2>1, <2>2, <3>1, <3>3 DEF disasm, TypeOK, Directories
    <3> QED BY <3>2, <3>3
  <2>5. rom.jumps /\ out = "here" => cfg'["here"][rom.name] = rom
    BY <1>3, <2>1 DEF disasm, TypeOK, Directories
  <2> QED BY <1>3, <2>4, <2>5 DEF disasm, script
<1>4. CASE patchPrgRom \/ NoRoutine \/ create_rom_headerfile
  BY <1>4 DEF patchPrgRom, NoRoutine, create_rom_headerfile, Answer0, Failed, script
<1>5. CASE DeletePrevious
  BY <1>5 DEF DeletePrevious, script
<1>6. CASE MakeAll
  BY <1>6 DEF MakeAll, script
<1>7. CASE UNCHANGED vars
  BY <1>7 DEF vars
<1> QED BY <1>1, <1>2, <1>3, <1>4, <1>5, <1>6, <1>7 DEF Next

LEMMA UntornStep == TypeOK /\ Progress /\ Untorn /\ [Next]_vars => Untorn'
<1> SUFFICES ASSUME TypeOK, Progress, Untorn, [Next]_vars,
                    ~torn', pc' \notin Patching \/ out' # "here"
             PROVE  Same'
  BY DEF Untorn
<1> USE DEF Patching, Linked, ProgramFiles
<1>1. CASE UNCHANGED files /\ ~torn /\ (pc \notin Patching \/ out # "here")
  BY <1>1 DEF Untorn, Same
<1>2. CASE CopyStatic \/ fill_structure \/ open_nes \/ indjmp_init \/ disasm \/ re
           \/ create_indjump_asm_routines \/ NoRoutine \/ DeletePrevious \/ MakeAll
  BY <1>1, <1>2, FillIs
  DEF CopyStatic, Fill, open_nes, indjmp_init, disasm, re, create_indjump_asm_routines,
      NoRoutine, DeletePrevious, MakeAll, script, Startable
<1>3. CASE dump
  <2>1. Same
    BY <1>3 DEF dump, Untorn
  <2> QED BY <1>3, <2>1 DEF dump, Put, Same, TypeOK
<1>4. CASE patchPrgRom
  <2>1. out # "here" /\ Same
    BY <1>4 DEF patchPrgRom, script, Untorn
  <2> QED BY <1>4, <2>1 DEF patchPrgRom, Put, Same, TypeOK
<1>5. CASE create_rom_headerfile
  <2>1. CASE out = "here"
    BY <1>5, <2>1, PutHere DEF create_rom_headerfile, script, Progress, Mine, Same
  <2>2. CASE out # "here"
    BY <1>5, <2>2 DEF create_rom_headerfile, Put, Untorn, Same
  <2> QED BY <2>1, <2>2
<1>6. CASE Interrupted
  <2>1. pc \notin Patching /\ Same
    BY <1>6 DEF Interrupted, Untorn
  <2> QED BY <1>6, <2>1 DEF Interrupted, Put, Same, TypeOK
<1>7. CASE UNCHANGED vars
  BY <1>1, <1>7 DEF vars
<1> QED BY <1>2, <1>3, <1>4, <1>5, <1>6, <1>7 DEF Next

LEMMA DoneStep == TypeOK /\ Progress /\ DoneWell /\ [Next]_vars => DoneWell'
<1> SUFFICES ASSUME TypeOK, Progress, DoneWell, [Next]_vars, pc' = "done", Clean',
                    ~Empty(rom'), Fits(rom', rom', rom')
             PROVE  LET i == work'[ROM_NAME(rom'.name)] IN i # NoFile /\ Own(i, rom')
  BY DEF DoneWell
<1>1. CASE MakeAll
  <2>1. rom \in Roms /\ rom.name \in Names /\ ROM_NAME(rom.name) \in Names /\ rom' = rom
    BY <1>1, Named, ImageName DEF MakeAll, Unnamed, script
  <2>2. \A f \in Linked : Mine(f)
    BY <1>1 DEF MakeAll, Progress, Clean, Over, script
  <2>3. ~Missing /\ ~Cuts /\ FilesFit
    <3>1. [of |-> rom, whole |-> TRUE] \in Contents
      BY <2>1 DEF Contents
    <3>2. ~Missing /\ ~Cuts
      BY <2>1, <2>2, <3>1, ConvertAssumption DEF Missing, Cuts, Mine
    <3>3. FilesFit
      BY <2>1, <2>2 DEF FilesFit, Mine, Linked, ProgramFiles
    <3> QED BY <3>2, <3>3
  <2>4. work'[ROM_NAME(rom.name)] = Image
    BY <1>1, <2>1, <2>3 DEF MakeAll, TypeOK
  <2>5. Image \in Images
    BY <1>1, Named DEF MakeAll, Image, Images, TypeOK, Unnamed
  <2>6. Image # NoFile
    BY <2>5, ConvertAssumption
  <2>7. Own(Image, rom)
    BY <2>2 DEF Own, Image, Mine
  <2> QED BY <2>1, <2>4, <2>6, <2>7
<1>2. CASE UNCHANGED vars
  BY <1>2 DEF vars, DoneWell, Clean
<1> QED
  BY <1>1, <1>2, FillIs
  DEF Next, CopyStatic, Fill, open_nes, dump, indjmp_init, disasm, re, Answer0, Failed,
      create_indjump_asm_routines, patchPrgRom, NoRoutine, create_rom_headerfile, Interrupted,
      DeletePrevious

LEMMA ImagesStep ==
  IInv /\ [Next]_vars => MixedOnlySwallowed' /\ OneProgram'
<1> SUFFICES ASSUME IInv, [Next]_vars, NEW n \in Names,
                    work'[n] # NoFile, work'[n].kind = "image"
             PROVE  /\ ~Own(work'[n], work'[n].of)
                          => work'[n].trouble # "none" \/ work'[n].out # "here"
                    /\ ~torn' => \A f, g \in ProgramFiles : work'[n].parts[f] = work'[n].parts[g]
  BY DEF MixedOnlySwallowed, OneProgram
<1>1. CASE work'[n] = work[n]
  <2>1. torn => torn'
    BY FillIs DEF Next, vars, CopyStatic, Fill, open_nes, dump, indjmp_init, disasm, re,
        create_indjump_asm_routines, patchPrgRom, NoRoutine, create_rom_headerfile, Interrupted,
        DeletePrevious, MakeAll
  <2> QED BY <1>1, <2>1 DEF IInv, MixedOnlySwallowed, OneProgram
<1>2. CASE MakeAll /\ work'[n] = Image
  <2>1. trouble = "none" /\ out = "here" => Own(Image, rom)
    BY <1>2 DEF IInv, Progress, Over, MakeAll, Own, Image, Mine
  <2>2. ~torn => Same
    BY <1>2 DEF IInv, Untorn, MakeAll, Patching
  <2> QED BY <1>2, <2>1, <2>2 DEF MakeAll, Image, Same, Linked
<1> QED BY <1>1, <1>2, WorkStep DEF IInv

LEMMA Inductive == IInv /\ [Next]_vars => IInv'
  BY TypeStep, ProgressStep, ReasonsStep, OwnerStep, UntornStep, DoneStep, ImagesStep DEF IInv

LEMMA Invariant == Spec => []IInv
<1>1. Init => IInv
  BY IInvInit
<1>2. IInv /\ [Next]_vars => IInv'
  BY Inductive
<1> QED BY <1>1, <1>2, PTL DEF Spec

(* Whatever was left in workdir/ by interrupted and refused conversions, a
   rom upernes has nothing against gives an image of its own files. *)
THEOREM GoodCorrect == Spec => []GoodBuilds
<1>1. IInv => GoodBuilds
  BY Named DEF IInv, GoodBuilds, Good, Reasons, Over, DoneWell, Clean, check_crc, TypeOK, Troubles, Unnamed
<1> QED BY <1>1, Invariant, PTL

(* An image of several games comes from an error upernes answered 0 after,
   or from another output path. *)
THEOREM MixedCorrect == Spec => []MixedOnlySwallowed
<1>1. IInv => MixedOnlySwallowed
  BY DEF IInv
<1> QED BY <1>1, Invariant, PTL

(* As long as no upernes died while patching, the program of an image is of
   one game. *)
THEOREM OneProgramCorrect == Spec => []OneProgram
<1>1. IInv => OneProgram
  BY DEF IInv
<1> QED BY <1>1, Invariant, PTL

(* The .txt of a game keeps the other games of its name out. *)
THEOREM OneGameCorrect == Spec => []OneGamePerName
<1>1. IInv => OneGamePerName
  BY DEF IInv, Owner, OneGamePerName
<1> QED BY <1>1, Invariant, PTL

-----------------------------------------------------------------------------
(* The parser, on any text: what it accepts it has read in the text.       *)

(* An item that names a category, a mnemonic, an opcode; s is the first     *)
(* number after b, and on its line.                                         *)
CategoryAt(doc, c, category) ==
   \/ doc[c].k = "category" /\ category = doc[c].v
   \/ doc[c].k = "flags" /\ category = "Flags"
NameAt(doc, w, mnemonic) == doc[w].k \in EndsWithWord /\ mnemonic = doc[w].v
OpcodeAt(doc, b, opcode) ==
   \/ doc[b].k = "byte" /\ opcode = doc[b].v
   \/ doc[b].k = "numbered" /\ opcode = OperandByte
NoneFrom(doc, a, b) == \A q \in a .. b : doc[q].k \notin {"number", "eol"}
SizeAt(doc, b, s, size_B) ==
   b < s /\ doc[s].k = "number" /\ size_B = doc[s].v /\ NoneFrom(doc, b, s - 1)

(* Found in the first n items, each below the one before: the category and  *)
(* the name of m, then an addressing mode, then an opcode, then its size.   *)
Header(doc, n, m) ==
   \E w \in 1 .. n : NameAt(doc, w, m.mnemonic) /\ \E c \in 1 .. w - 1 : CategoryAt(doc, c, m.category)
Mode(doc, n, m, op) ==
   \E a \in 1 .. n : doc[a].k = "mode" /\ op.memaccess = doc[a].v /\ Header(doc, a - 1, m)
Code(doc, n, m, op) ==
   \E b \in 1 .. n : OpcodeAt(doc, b, op.opcode) /\ Mode(doc, b - 1, m, op) /\ NoneFrom(doc, b, n)
Line(doc, n, m, op) ==
   \E b, s \in 1 .. n : /\ OpcodeAt(doc, b, op.opcode) /\ Mode(doc, b - 1, m, op)
                        /\ SizeAt(doc, b, s, op.size_B)

(* Every entry of the table stands in the text, and no two share an opcode,  *)
(* unless the parser went past the end of the array of a mnemonic.          *)
Overruns(doc) == build_list(doc).why = "overrun"
TableFromText == ~Overruns(text) => \A e \in table : Line(text, Len(text), e, e)
OneEntryEach == ~Overruns(text) => \A e, f \in table : e.opcode = f.opcode => e = f

-----------------------------------------------------------------------------
States == {"get_new_element", "opcode_element", "opcode_memuse_line", "opcode_memuse_call",
           "opcode_memuse_code", "opcode_memuse_size", "opcode_memuse_cycles",
           "opcode_memuse_next", "opcode_flags", "opcode_description"}
InMnemonic == States \ {"get_new_element", "opcode_element"}
Conditions == {r[4] : r \in Rules}
Values(doc) == {doc[n].v : n \in 1 .. Len(doc)} \cup {"", 0, NoCategory, "Flags", OperandByte}
OpType(V) == [memaccess : V, opcode : V, size_B : V]
MnemonicType(V) == [mnemonic : V, category : V, ops : Seq(OpType(V))]
Endings == {"", "overrun", "assertion"}
ParserType(V) ==
   [start : Conditions, word : V, m_state : States, category : V, mnemo : MnemonicType(V),
    op : OpType(V), list : Seq(MnemonicType(V)), thrown : BOOLEAN,
    why : Endings]

(* What the parser knows after n items, from the state it is in. *)
Knows(doc, n, p) ==
   /\ p.category # NoCategory => \E c \in 1 .. n : CategoryAt(doc, c, p.category)
   /\ p.start = "name" => n > 0 /\ NameAt(doc, n, p.word)
   /\ p.m_state = "opcode_element" => p.category # NoCategory
   /\ p.m_state \in InMnemonic => Header(doc, n, p.mnemo)
   /\ p.m_state \in {"opcode_memuse_call", "opcode_memuse_code"} => Mode(doc, n, p.mnemo, p.op)
   /\ p.m_state = "opcode_memuse_size" => p.start = "smemuse" /\ Code(doc, n, p.mnemo, p.op)
   /\ p.m_state = "opcode_memuse_cycles" => Line(doc, n, p.mnemo, p.op)
Keeps(doc, n, m) == \A y \in 1 .. Len(m.ops) : Line(doc, n, m, m.ops[y])
Parsed(doc, n, p) ==
   ~p.thrown => /\ Knows(doc, n, p)
                /\ Keeps(doc, n, p.mnemo)
                /\ \A i \in 1 .. Len(p.list) : Keeps(doc, n, p.list[i])

(* What is above stays above. *)
LEMMA AboveGrows ==
  ASSUME NEW doc, NEW n \in Nat, NEW m, NEW op
  PROVE  /\ Header(doc, n, m) => Header(doc, n + 1, m)
         /\ Mode(doc, n, m, op) => Mode(doc, n + 1, m, op)
         /\ Line(doc, n, m, op) => Line(doc, n + 1, m, op)
<1>1. \A i \in 1 .. n : i \in 1 .. n + 1
  OBVIOUS
<1> QED BY <1>1 DEF Header, Mode, Line

LEMMA KeepsGrows ==
  ASSUME NEW doc, NEW n \in Nat, NEW m, Keeps(doc, n, m)
  PROVE  Keeps(doc, n + 1, m)
  BY AboveGrows DEF Keeps

(* What each token tells of the item it comes from. *)
Told(start, k, token, next) ==
  /\ token = "CATEGORY" => k = "category" /\ next = "INITIAL"
  /\ token = "FLAGS" => k = "flags" /\ next = "sflags"
  /\ token = "MEMUSE" => k = "mode"
  /\ token = "BYTE" => k \in {"byte", "numbered"} /\ next = "smemuse"
  /\ token = "NUMBER" => k = "number" /\ next = "smemuse"
  /\ token = "OPCODESTR" => k = "eol" /\ start = "name"
  /\ next = "name" => k \in EndsWithWord /\ token = ""
  /\ start = "smemuse" /\ token = "" => next = "smemuse" /\ k \notin {"number", "eol"}

LEMMA RulesTell == \A r \in Rules : Told(r[1], r[2], r[3], r[4])
<1> SUFFICES ASSUME NEW r \in Rules
             PROVE  Told(r[1], r[2], r[3], r[4])
  OBVIOUS
<1>1. CASE r \in FixedRules
  <2>1. CASE r = <<"INITIAL", "eol", "EOL", "INITIAL">>
    BY <2>1 DEF Told
  <2>2. CASE r = <<"INITIAL", "semi", "SEMCOL", "INITIAL">>
    BY <2>2 DEF Told
  <2>3. CASE r = <<"INITIAL", "comment", "COMMENT", "COMMENT">>
    BY <2>3 DEF Told
  <2>4. CASE r = <<"COMMENT", "eol", "EOL", "INITIAL">>
    BY <2>4 DEF Told
  <2>5. CASE r = <<"INITIAL", "category", "CATEGORY", "INITIAL">>
    BY <2>5 DEF Told
  <2>6. CASE r = <<"INITIAL", "flags", "FLAGS", "sflags">>
    BY <2>6 DEF Told
  <2>7. CASE r = <<"INITIAL", "opcode", "OPCODEDEF", "sopcode">>
    BY <2>7 DEF Told
  <2>8. CASE r = <<"sflags", "opcode", "OPCODEDEF", "sopcode">>
    BY <2>8 DEF Told
  <2>9. CASE r = <<"INITIAL", "description", "DESCRIPTION", "sdescription">>
    BY <2>9 DEF Told
  <2>10. CASE r = <<"INITIAL", "mode", "MEMUSE", "smemc">>
    BY <2>10 DEF Told
  <2>11. CASE r = <<"smemc", "semi", "", "sopstr">>
    BY <2>11 DEF Told
  <2>12. CASE r = <<"sdescription", "eol", "DESCRIPTION_TXT", "INITIAL">>
    BY <2>12 DEF Told
  <2>13. CASE r = <<"name", "eol", "OPCODESTR", "INITIAL">>
    BY <2>13 DEF Told
  <2>14. CASE r = <<"sopstr", "semi", "", "smemuse">>
    BY <2>14 DEF Told
  <2>15. CASE r = <<"operand", "semi", "", "smemuse">>
    BY <2>15 DEF Told
  <2>16. CASE r = <<"smemuse", "byte", "BYTE", "smemuse">>
    BY <2>16 DEF Told
  <2>17. CASE r = <<"smemuse", "numbered", "BYTE", "smemuse">>
    BY <2>17 DEF Told
  <2>18. CASE r = <<"smemuse", "number", "NUMBER", "smemuse">>
    BY <2>18 DEF Told
  <2>19. CASE r = <<"smemuse", "eol", "EOL", "INITIAL">>
    BY <2>19 DEF Told
  <2>20. CASE r = <<"sflags", "eol", "EOL", "INITIAL">>
    BY <2>20 DEF Told
  <2> QED
    BY <1>1, <2>1, <2>2, <2>3, <2>4, <2>5, <2>6, <2>7, <2>8, <2>9, <2>10, <2>11, <2>12, <2>13, <2>14, <2>15, <2>16, <2>17, <2>18, <2>19, <2>20, Zenon DEF FixedRules
<1>2. CASE r \in {"sopcode", "name"} \X EndsWithWord \X {""} \X {"name"}
  BY <1>2 DEF Told
<1>3. CASE r \in {"name"} \X (Kinds \ (EndsWithWord \cup {"eol"})) \X {""} \X {"sopcode"}
  BY <1>3 DEF Told
<1>4. CASE r \in {"sopstr"} \X (Kinds \ {"semi"}) \X {"OPSTR"} \X {"operand"}
  BY <1>4 DEF Told
<1> QED BY <1>1, <1>2, <1>3, <1>4 DEF Rules

LEMMA Tokens ==
  ASSUME NEW start, NEW k \in Kinds
  PROVE  /\ Told(start, k, yylex(start, k).token, yylex(start, k).next)
         /\ start \in Conditions => yylex(start, k).next \in Conditions
<1> DEFINE lex == yylex(start, k)
<1>1. CASE \E r \in Rules : r[1] = start /\ r[2] = k
  <2>1. PICK r \in Rules : r[1] = start /\ r[2] = k /\ lex = [token |-> r[3], next |-> r[4]]
    BY <1>1 DEF yylex
  <2>2. lex.token = r[3] /\ lex.next = r[4]
    BY <2>1
  <2> QED BY <2>1, <2>2, RulesTell DEF Conditions
<1>2. CASE ~\E r \in Rules : r[1] = start /\ r[2] = k
  <2>1. lex.token = "" /\ lex.next = start
    BY <1>2 DEF yylex
  <2> DEFINE Has(a, b) == \E r \in Rules : r[1] = a /\ r[2] = b
  <2>2. Has("smemuse", "number") /\ Has("smemuse", "eol")
    <3>1. /\ <<"smemuse", "number", "NUMBER", "smemuse">> \in Rules
          /\ <<"smemuse", "eol", "EOL", "INITIAL">> \in Rules
      BY DEF Rules, FixedRules
    <3> QED BY <3>1
  <2>3. ASSUME k \notin EndsWithWord
        PROVE  Has("name", k)
    <3>1. CASE k = "eol"
      <4>1. <<"name", "eol", "OPCODESTR", "INITIAL">> \in Rules
        BY DEF Rules, FixedRules
      <4> QED BY <3>1, <4>1
    <3>2. CASE k # "eol"
      <4>1. <<"name", k, "", "sopcode">> \in Rules
        BY <2>3, <3>2 DEF Rules
      <4> QED BY <4>1
    <3> QED BY <3>1, <3>2
  <2>4. Told(start, k, "", start)
    <3> HIDE DEF Has
    <3>1. ~Has(start, k)
      BY <1>2 DEF Has
    <3> QED BY <2>2, <2>3, <3>1 DEF Told
  <2> QED BY <2>1, <2>4
<1> QED BY <1>1, <1>2

(* The parser stays one. *)
LEMMA DispatchType ==
  ASSUME NEW V, NEW p \in ParserType(V), NEW v \in V, NEW res, "Flags" \in V
  PROVE  Dispatch(p, res, v) \in ParserType(V)
<1> USE DEF ParserType, States, Goto, Throw
<1>1. Throw(p) \in ParserType(V) /\ \A s \in States : Goto(p, s) \in ParserType(V)
  OBVIOUS
<1>12. Lost(p, "overrun") \in ParserType(V) /\ Lost(p, "assertion") \in ParserType(V)
  <2>1. "overrun" \in Endings /\ "assertion" \in Endings
    BY Zenon DEF Endings
  <2> QED BY <2>1 DEF Lost
<1>2. get_new(p, res, v) \in ParserType(V)
  <2>1. [p EXCEPT !.category = v] \in ParserType(V) /\ [p EXCEPT !.category = "Flags"] \in ParserType(V)
    OBVIOUS
  <2>2. Goto(p, "opcode_element") \in ParserType(V)
    BY <1>1
  <2> HIDE DEF ParserType, Goto, Throw
  <2> QED BY <1>1, <2>1, <2>2 DEF get_new
<1>3. get_opcode(p, res, v) \in ParserType(V)
  <2>1. [mnemonic |-> v, category |-> p.category, ops |-> <<>>] \in MnemonicType(V)
    BY DEF MnemonicType
  <2> QED BY <1>1, <2>1 DEF get_opcode
<1>4. get_memuse_line(p, res, v) \in ParserType(V)
  <2>1. [Goto(p, "opcode_memuse_call") EXCEPT !.op.memaccess = v] \in ParserType(V)
    BY DEF OpType
  <2> HIDE DEF ParserType, Goto, Throw
  <2> QED BY <1>1, <1>12, <2>1 DEF get_memuse_line
<1>5. get_call_str(p, res) \in ParserType(V)
  BY <1>1 DEF get_call_str
<1>6. get_op_code(p, res, v) \in ParserType(V)
  BY <1>1 DEF get_op_code, OpType
<1>7. get_opcall_size(p, res, v) \in ParserType(V)
  BY <1>1 DEF get_opcall_size, OpType
<1>8. get_opcode_cycles(p, res) \in ParserType(V)
  <2> DEFINE next == Goto(p, "opcode_memuse_next")
  <2>1. Append(p.mnemo.ops, p.op) \in Seq(OpType(V))
    BY DEF MnemonicType
  <2>2. [p.mnemo EXCEPT !.ops = Append(@, p.op)] \in MnemonicType(V)
    BY <2>1 DEF MnemonicType
  <2>3. next \in ParserType(V) /\ next.mnemo = p.mnemo /\ next.op = p.op
    BY <1>1
  <2>4. [next EXCEPT !.mnemo.ops = Append(@, p.op)] \in ParserType(V)
    BY <2>2, <2>3
  <2> HIDE DEF next, ParserType, Throw
  <2>5. get_opcode_cycles(p, res) \in {p, [next EXCEPT !.mnemo.ops = Append(@, p.op)], Throw(p)}
    BY DEF get_opcode_cycles, next
  <2> QED BY <1>1, <2>4, <2>5
<1>9. memuse_next_state(p, res, v) \in ParserType(V)
  BY <1>1, <1>4 DEF memuse_next_state
<1>10. get_active_flags(p, res) \in ParserType(V)
  BY <1>1 DEF get_active_flags
<1>11. get_description(p, res) \in ParserType(V)
  <2>1. Append(p.list, p.mnemo) \in Seq(MnemonicType(V))
    OBVIOUS
  <2>2. [Goto(p, "get_new_element") EXCEPT !.list = Append(@, p.mnemo)] \in ParserType(V)
    BY <2>1
  <2> HIDE DEF ParserType, Goto, Throw
  <2> QED BY <1>1, <1>12, <2>2 DEF get_description
<1> QED
  BY <1>2, <1>3, <1>4, <1>5, <1>6, <1>7, <1>8, <1>9, <1>10, <1>11 DEF Dispatch

(* A parser that stops says why; one that goes on has nothing to say.       *)
LEMMA DispatchTells ==
  ASSUME NEW V, NEW p \in ParserType(V), NEW v \in V, NEW res
  PROVE  LET d == Dispatch(p, res, v) IN d.thrown \/ d.why = p.why
<1> DEFINE Tells(d) == d.thrown \/ d.why = p.why
<1> USE DEF ParserType, Goto, Throw, Lost
<1>1. /\ Tells(p) /\ Tells(Throw(p)) /\ \A s \in States : Tells(Goto(p, s))
      /\ Tells(Lost(p, "overrun")) /\ Tells(Lost(p, "assertion"))
  OBVIOUS
<1>2. Tells(get_new(p, res, v)) /\ Tells(get_opcode(p, res, v))
  BY DEF get_new, get_opcode
<1>3. Tells(get_memuse_line(p, res, v)) /\ Tells(get_description(p, res))
  BY DEF get_memuse_line, get_description
<1>4. Tells(get_call_str(p, res)) /\ Tells(get_active_flags(p, res))
  BY DEF get_call_str, get_active_flags
<1>5. Tells(get_op_code(p, res, v)) /\ Tells(get_opcall_size(p, res, v))
  BY DEF get_op_code, get_opcall_size
<1>6. Tells(get_opcode_cycles(p, res))
  BY DEF get_opcode_cycles
<1>7. Tells(memuse_next_state(p, res, v))
  BY <1>3 DEF memuse_next_state
<1>8. p.m_state \in States
  OBVIOUS
<1> HIDE DEF ParserType, Goto, Throw, Lost, Tells
<1>9. Tells(Dispatch(p, res, v))
  BY <1>2, <1>3, <1>4, <1>5, <1>6, <1>7, <1>8 DEF Dispatch, States
<1> QED BY <1>9 DEF Tells

(* An item read into a parser: its token, its value and what it leaves. *)
Given(p, i) == yylex(p.start, i.k)
Shifted(p, i) == [p EXCEPT !.start = Given(p, i).next, !.word = i.v]
ValueOf(p, i) ==
   CASE Given(p, i).token = "OPCODESTR" -> p.word
     [] i.k = "numbered" -> OperandByte
     [] OTHER -> i.v

LEMMA ReadIs ==
  ASSUME NEW p, NEW i
  PROVE  /\ p.thrown => Read(p, i) = p
         /\ ~p.thrown /\ Given(p, i).token = "" => Read(p, i) = Shifted(p, i)
         /\ ~p.thrown /\ Given(p, i).token # ""
               => Read(p, i) = Dispatch(Shifted(p, i), Given(p, i).token, ValueOf(p, i))
  BY Zenon DEF Read, Given, Shifted, ValueOf

(* Reading an item changes the condition of the scanner and its word only. *)
LEMMA ShiftedIs ==
  ASSUME NEW V, NEW p \in ParserType(V), NEW i, i.k \in Kinds, i.v \in V, OperandByte \in V
  PROVE  /\ Shifted(p, i) \in ParserType(V) /\ ValueOf(p, i) \in V
         /\ Shifted(p, i).start = Given(p, i).next /\ Shifted(p, i).word = i.v
         /\ Shifted(p, i).m_state = p.m_state /\ Shifted(p, i).category = p.category
         /\ Shifted(p, i).mnemo = p.mnemo /\ Shifted(p, i).op = p.op
         /\ Shifted(p, i).list = p.list /\ Shifted(p, i).thrown = p.thrown
         /\ Shifted(p, i).why = p.why
<1>1. p.start \in Conditions /\ p.word \in V
  BY DEF ParserType
<1>2. Given(p, i).next \in Conditions
  BY <1>1, Tokens DEF Given
<1> HIDE DEF Conditions
<1>3. ValueOf(p, i) \in V
  BY <1>1 DEF ValueOf
<1> QED BY <1>2, <1>3 DEF Shifted, ParserType

LEMMA ReadType ==
  ASSUME NEW V, NEW p \in ParserType(V), NEW i, i.k \in Kinds, i.v \in V,
         OperandByte \in V, "Flags" \in V
  PROVE  Read(p, i) \in ParserType(V)
<1>1. Shifted(p, i) \in ParserType(V) /\ ValueOf(p, i) \in V
  BY ShiftedIs
<1>2. Dispatch(Shifted(p, i), Given(p, i).token, ValueOf(p, i)) \in ParserType(V)
  BY <1>1, DispatchType
<1> QED BY <1>1, <1>2, ReadIs DEF ParserType

LEMMA ReadTells ==
  ASSUME NEW V, NEW p \in ParserType(V), NEW i, i.k \in Kinds, i.v \in V, OperandByte \in V,
         p.thrown \/ p.why # "overrun"
  PROVE  Read(p, i).thrown \/ Read(p, i).why # "overrun"
<1> DEFINE d == Dispatch(Shifted(p, i), Given(p, i).token, ValueOf(p, i))
<1>1. Shifted(p, i) \in ParserType(V) /\ ValueOf(p, i) \in V /\ Shifted(p, i).why = p.why
  BY ShiftedIs
<1>2. d.thrown \/ d.why = p.why
  BY <1>1, DispatchTells
<1> HIDE DEF d
<1>3. Read(p, i) \in {p, Shifted(p, i), d} /\ (Read(p, i) = p \/ ~p.thrown)
  <2>1. CASE p.thrown
    BY <2>1, ReadIs
  <2>2. CASE ~p.thrown /\ Given(p, i).token = ""
    BY <2>2, ReadIs, Zenon
  <2>3. CASE ~p.thrown /\ Given(p, i).token # ""
    BY <2>3, ReadIs, Zenon DEF d
  <2> QED BY <2>1, <2>2, <2>3, Zenon
<1> QED BY <1>1, <1>2, <1>3, Zenon

(* What the parser holds, once it has read the item below n. *)
Held(doc, n, q) ==
   /\ q.category # NoCategory => \E c \in 1 .. n : CategoryAt(doc, c, q.category)
   /\ q.m_state = "opcode_element" => q.category # NoCategory
   /\ q.m_state \in InMnemonic => Header(doc, n + 1, q.mnemo)
   /\ q.m_state \in {"opcode_memuse_call", "opcode_memuse_code"} => Mode(doc, n, q.mnemo, q.op)
   /\ q.m_state = "opcode_memuse_cycles" => Line(doc, n + 1, q.mnemo, q.op)
   /\ Keeps(doc, n + 1, q.mnemo)
   /\ \A j \in 1 .. Len(q.list) : Keeps(doc, n + 1, q.list[j])

LEMMA NowHeld ==
  ASSUME NEW V, NEW doc, NEW n \in Nat, NEW p \in ParserType(V), ~p.thrown, Parsed(doc, n, p),
         doc[n + 1].k \in Kinds, doc[n + 1].v \in V, OperandByte \in V
  PROVE  Held(doc, n, Shifted(p, doc[n + 1]))
<1> DEFINE q == Shifted(p, doc[n + 1])
<1>1. q.m_state = p.m_state /\ q.category = p.category /\ q.mnemo = p.mnemo /\ q.op = p.op /\ q.list = p.list
  BY ShiftedIs
<1>2. Knows(doc, n, p) /\ Keeps(doc, n, p.mnemo) /\ \A j \in 1 .. Len(p.list) : Keeps(doc, n, p.list[j])
  BY DEF Parsed
<1>3. Keeps(doc, n + 1, p.mnemo) /\ \A j \in 1 .. Len(p.list) : Keeps(doc, n + 1, p.list[j])
  BY <1>2, KeepsGrows
<1>4. /\ p.m_state \in InMnemonic => Header(doc, n + 1, p.mnemo)
      /\ p.m_state = "opcode_memuse_cycles" => Line(doc, n + 1, p.mnemo, p.op)
  BY <1>2, AboveGrows DEF Knows
<1> HIDE DEF q
<1>5. /\ q.category # NoCategory => \E c \in 1 .. n : CategoryAt(doc, c, q.category)
      /\ q.m_state = "opcode_element" => q.category # NoCategory
      /\ q.m_state \in {"opcode_memuse_call", "opcode_memuse_code"} => Mode(doc, n, q.mnemo, q.op)
  BY <1>1, <1>2 DEF Knows
<1> QED BY <1>1, <1>3, <1>4, <1>5 DEF Held, q

(* An item without a token. *)
Silent(p, i) == Given(p, i).token = ""
LEMMA ShiftedParsed ==
  ASSUME NEW V, NEW doc, NEW n \in Nat, NEW p \in ParserType(V), ~p.thrown, Parsed(doc, n, p),
         doc[n + 1].k \in Kinds, doc[n + 1].v \in V, OperandByte \in V,
         Silent(p, doc[n + 1])
  PROVE  Parsed(doc, n + 1, Shifted(p, doc[n + 1]))
<1> DEFINE i == doc[n + 1]
           q == Shifted(p, i)
<1>1. /\ q.m_state = p.m_state /\ q.category = p.category /\ q.mnemo = p.mnemo /\ q.op = p.op
      /\ q.start = Given(p, i).next /\ q.word = i.v
  <2> HIDE DEF i
  <2> QED BY ShiftedIs DEF i
<1>2. Told(p.start, i.k, "", Given(p, i).next)
  BY Tokens DEF Given, Silent
<1>3. Held(doc, n, q)
  BY NowHeld
<1>4. Knows(doc, n, p)
  BY DEF Parsed
<1>5. q.start = "name" => NameAt(doc, n + 1, q.word)
  BY <1>1, <1>2 DEF Told, NameAt
<1>6. ASSUME q.m_state = "opcode_memuse_size"
      PROVE  q.start = "smemuse" /\ Code(doc, n + 1, q.mnemo, q.op)
  <2>1. p.start = "smemuse" /\ Code(doc, n, p.mnemo, p.op)
    BY <1>1, <1>4, <1>6 DEF Knows
  <2>2. q.start = "smemuse" /\ i.k \notin {"number", "eol"}
    BY <1>1, <1>2, <2>1 DEF Told
  <2>3. PICK b \in 1 .. n : OpcodeAt(doc, b, p.op.opcode) /\ Mode(doc, b - 1, p.mnemo, p.op) /\ NoneFrom(doc, b, n)
    BY <2>1 DEF Code
  <2>4. NoneFrom(doc, b, n + 1)
    <3>1. \A j \in b .. n + 1 : j \in b .. n \/ j = n + 1
      BY <2>3
    <3> QED BY <2>2, <2>3, <3>1 DEF NoneFrom
  <2>5. b \in 1 .. n + 1
    BY <2>3
  <2> QED BY <1>1, <2>2, <2>3, <2>4, <2>5 DEF Code
<1>7. q.m_state \in {"opcode_memuse_call", "opcode_memuse_code"} => Mode(doc, n + 1, q.mnemo, q.op)
  BY <1>3, AboveGrows DEF Held
<1>8. n + 1 > 0 /\ 1 .. n \subseteq 1 .. n + 1
  <2>1. \A m \in Nat : m + 1 > 0 /\ 1 .. m \subseteq 1 .. m + 1
    OBVIOUS
  <2> QED BY <2>1
<1>9. q.category # NoCategory => \E c \in 1 .. n + 1 : CategoryAt(doc, c, q.category)
  <2> HIDE DEF q
  <2> QED BY <1>3, <1>8, Zenon DEF Held
<1> HIDE DEF q
<1>10. Knows(doc, n + 1, q)
  BY <1>3, <1>5, <1>6, <1>7, <1>8, <1>9 DEF Knows, Held
<1> QED BY <1>3, <1>10 DEF Parsed, Held, q

(* An item with a token: it is enough to look at what the step changes. *)
Stepped(doc, n, q, d) ==
   /\ d.start # "name"
   /\ d.category = q.category \/ CategoryAt(doc, n + 1, d.category)
   /\ d.mnemo = q.mnemo \/ Keeps(doc, n + 1, d.mnemo)
   /\ d.list = q.list \/ d.list = Append(q.list, q.mnemo)
   /\ d.m_state = "opcode_element" => d.category # NoCategory
   /\ d.m_state \in InMnemonic => Header(doc, n + 1, d.mnemo)
   /\ d.m_state \in {"opcode_memuse_call", "opcode_memuse_code"} => Mode(doc, n + 1, d.mnemo, d.op)
   /\ d.m_state = "opcode_memuse_size" => d.start = "smemuse" /\ Code(doc, n + 1, d.mnemo, d.op)
   /\ d.m_state = "opcode_memuse_cycles" => Line(doc, n + 1, d.mnemo, d.op)

LEMMA StepParsed ==
  ASSUME NEW V, NEW doc, NEW n \in Nat, NEW q \in ParserType(V), NEW d,
         Held(doc, n, q), Stepped(doc, n, q, d)
  PROVE  Parsed(doc, n + 1, d)
<1>1. ASSUME d.category # NoCategory
      PROVE  \E c \in 1 .. n + 1 : CategoryAt(doc, c, d.category)
  <2>1. CASE CategoryAt(doc, n + 1, d.category)
    <3>1. n + 1 \in 1 .. n + 1
      OBVIOUS
    <3> QED BY <2>1, <3>1
  <2>2. CASE d.category = q.category
    BY <1>1, <2>2 DEF Held
  <2> QED BY <2>1, <2>2 DEF Stepped
<1>2. Knows(doc, n + 1, d)
  BY <1>1 DEF Knows, Stepped
<1>3. Keeps(doc, n + 1, d.mnemo)
  BY DEF Held, Stepped
<1>4. \A j \in 1 .. Len(d.list) : Keeps(doc, n + 1, d.list[j])
  <2>1. CASE d.list = q.list
    BY <2>1 DEF Held
  <2>2. CASE d.list = Append(q.list, q.mnemo)
    <3>1. q.list \in Seq(MnemonicType(V)) /\ q.mnemo \in MnemonicType(V)
      BY DEF ParserType
    <3>2. \A j \in 1 .. Len(d.list) : (j \in 1 .. Len(q.list) /\ d.list[j] = q.list[j]) \/ d.list[j] = q.mnemo
      BY <2>2, <3>1
    <3> QED BY <3>2 DEF Held
  <2> QED BY <2>1, <2>2 DEF Stepped
<1> QED BY <1>2, <1>3, <1>4 DEF Parsed

(* An item with a token, by the state of the parser. *)
LEMMA TokenParsed ==
  ASSUME NEW V, NEW doc, NEW n \in Nat, NEW p \in ParserType(V), ~p.thrown, Parsed(doc, n, p),
         doc[n + 1].k \in Kinds, doc[n + 1].v \in V, OperandByte \in V, "Flags" \in V,
         ~Silent(p, doc[n + 1])
  PROVE  Parsed(doc, n + 1,
                Dispatch(Shifted(p, doc[n + 1]), Given(p, doc[n + 1]).token, ValueOf(p, doc[n + 1])))
<1> DEFINE i == doc[n + 1]
           tok == Given(p, i).token
           v == ValueOf(p, i)
           q == Shifted(p, i)
           d == Dispatch(q, tok, v)
<1> SUFFICES Parsed(doc, n + 1, d)
  OBVIOUS
<1> HIDE DEF i
<1>1. /\ q.m_state = p.m_state /\ q.category = p.category /\ q.mnemo = p.mnemo /\ q.op = p.op
      /\ q.start = Given(p, i).next /\ q.word = i.v
      /\ q \in ParserType(V) /\ v \in V
  BY ShiftedIs DEF i
<1>2. Told(p.start, i.k, tok, q.start)
  BY <1>1, Tokens DEF Given, i
<1>3. Held(doc, n, q)
  BY NowHeld DEF i
<1>4. Knows(doc, n, p)
  BY DEF Parsed
<1>5. tok # ""
  BY DEF Silent, i
<1>6. d \in ParserType(V)
  BY <1>1, DispatchType
<1>7. v = (CASE tok = "OPCODESTR" -> p.word [] i.k = "numbered" -> OperandByte [] OTHER -> i.v)
  BY DEF ValueOf
<1>8. q.start # "name"
  BY <1>2, <1>5 DEF Told
<1>9. n + 1 \in 1 .. n + 1 /\ 1 .. n \subseteq 1 .. n + 1 /\ (n + 1) - 1 = n
  <2>1. \A m \in Nat : m + 1 \in 1 .. m + 1 /\ 1 .. m \subseteq 1 .. m + 1 /\ (m + 1) - 1 = m
    OBVIOUS
  <2> QED BY <2>1
<1> HIDE DEF q, v, tok
<1>20. d = Dispatch(q, tok, v)
  OBVIOUS
<1> HIDE DEF d
<1>21. Stepped(doc, n, q, d) => Parsed(doc, n + 1, d)
  BY <1>1, <1>3, StepParsed
<1>22. d.m_state \in {"get_new_element", "opcode_element"} => d.m_state \notin InMnemonic
  BY DEF InMnemonic
<1>10. ASSUME d = Throw(q)
       PROVE  Parsed(doc, n + 1, d)
  <2>1. d.thrown
    BY <1>1, <1>10 DEF Throw, ParserType
  <2> QED BY <2>1 DEF Parsed
<1>27. ASSUME NEW why, d = Lost(q, why)
       PROVE  Parsed(doc, n + 1, d)
  <2>1. d.thrown
    BY <1>1, <1>27 DEF Lost, ParserType
  <2> QED BY <2>1 DEF Parsed
<1>11. CASE q.m_state = "get_new_element"
  <2>1. d = get_new(q, tok, v)
    BY <1>11, <1>20 DEF Dispatch
  <2>2. CASE tok \in {"COMMENT", "EOL"}
    <3>1. d = q
      BY <2>1, <2>2 DEF get_new
    <3> QED BY <1>1, <1>3, <1>8, <1>11, <3>1, <1>21, <1>22 DEF Stepped
  <2>3. CASE tok = "CATEGORY"
    <3>1. d = [q EXCEPT !.category = v]
      BY <2>1, <2>3 DEF get_new
    <3>2. CategoryAt(doc, n + 1, v)
      BY <1>2, <1>7, <2>3 DEF Told, CategoryAt, i
    <3>3. d.category = v /\ d.m_state = q.m_state /\ d.start = q.start /\ d.mnemo = q.mnemo /\ d.list = q.list
      BY <1>1, <3>1 DEF ParserType
    <3> QED BY <1>1, <1>3, <1>6, <1>8, <1>11, <3>2, <3>3, <1>21, <1>22 DEF Stepped
  <2>4. CASE tok = "FLAGS"
    <3>1. d = [q EXCEPT !.category = "Flags"]
      BY <2>1, <2>4 DEF get_new
    <3>2. CategoryAt(doc, n + 1, "Flags")
      BY <1>2, <2>4 DEF Told, CategoryAt, i
    <3>3. d.category = "Flags" /\ d.m_state = q.m_state /\ d.start = q.start /\ d.mnemo = q.mnemo /\ d.list = q.list
      BY <1>1, <3>1 DEF ParserType
    <3> QED BY <1>1, <1>3, <1>6, <1>8, <1>11, <3>2, <3>3, <1>21, <1>22 DEF Stepped
  <2>5. CASE tok = "OPCODEDEF" /\ q.category # NoCategory
    <3>1. d = Goto(q, "opcode_element")
      BY <2>1, <2>5 DEF get_new
    <3>2. /\ d.category = q.category /\ d.m_state = "opcode_element" /\ d.start = q.start
          /\ d.mnemo = q.mnemo /\ d.list = q.list
      BY <1>1, <3>1 DEF ParserType, Goto
    <3> QED BY <1>1, <1>3, <1>6, <1>8, <2>5, <3>2, <1>21, <1>22 DEF Stepped
  <2>6. CASE tok \notin {"COMMENT", "EOL", "CATEGORY", "FLAGS"} /\ ~(tok = "OPCODEDEF" /\ q.category # NoCategory)
    <3>1. d = Throw(q)
      BY <2>1, <2>6 DEF get_new
    <3> QED BY <1>10, <3>1
  <2> QED BY <2>2, <2>3, <2>4, <2>5, <2>6
<1>12. CASE q.m_state = "opcode_element"
  <2>1. d = get_opcode(q, tok, v)
    BY <1>12, <1>20 DEF Dispatch
  <2>2. CASE tok # "OPCODESTR"
    BY <1>10, <2>1, <2>2 DEF get_opcode
  <2>3. CASE tok = "OPCODESTR"
    <3> DEFINE m == [mnemonic |-> v, category |-> q.category, ops |-> <<>>]
    <3>1. d = [Goto(q, "opcode_memuse_line") EXCEPT !.mnemo = m]
      BY <2>1, <2>3 DEF get_opcode
    <3>2. d.category = q.category /\ d.m_state = "opcode_memuse_line" /\ d.start = q.start /\ d.mnemo = m /\ d.list = q.list
      BY <1>1, <3>1 DEF ParserType, Goto
    <3>3. n > 0 /\ NameAt(doc, n, v)
      BY <1>2, <1>4, <1>7, <2>3 DEF Told, Knows
    <3>4. PICK c \in 1 .. n : CategoryAt(doc, c, q.category)
      BY <1>3, <1>12 DEF Held
    <3>5. c # n
      BY <3>3, <3>4 DEF CategoryAt, NameAt, EndsWithWord
    <3>6. n \in 1 .. n + 1 /\ c \in 1 .. n - 1
      BY <3>3, <3>4, <3>5
    <3>7. Header(doc, n + 1, m)
      BY <3>3, <3>4, <3>6 DEF Header
    <3>8. Keeps(doc, n + 1, m)
      BY DEF Keeps
    <3> QED BY <1>1, <1>3, <1>6, <1>8, <3>2, <3>7, <3>8, <1>21 DEF Stepped
  <2> QED BY <2>2, <2>3
<1>13. ASSUME d = get_memuse_line(q, tok, v), q.m_state \in InMnemonic
       PROVE  Parsed(doc, n + 1, d)
  <2>1. CASE tok # "MEMUSE"
    BY <1>10, <1>13, <2>1 DEF get_memuse_line
  <2>3. CASE tok = "MEMUSE" /\ Len(q.mnemo.ops) >= MAXOPS
    <3>1. d = Lost(q, "overrun")
      BY <1>13, <2>3 DEF get_memuse_line
    <3> QED BY <1>27, <3>1
  <2>2. CASE tok = "MEMUSE" /\ ~(Len(q.mnemo.ops) >= MAXOPS)
    <3>1. d = [Goto(q, "opcode_memuse_call") EXCEPT !.op.memaccess = v]
      BY <1>13, <2>2 DEF get_memuse_line
    <3>2. /\ d.category = q.category /\ d.m_state = "opcode_memuse_call" /\ d.start = q.start
          /\ d.mnemo = q.mnemo /\ d.list = q.list /\ d.op.memaccess = v
      BY <1>1, <3>1 DEF ParserType, OpType, Goto
    <3>3. i.k = "mode" /\ v = i.v
      BY <1>2, <1>7, <2>2 DEF Told
    <3>4. Header(doc, n, q.mnemo)
      BY <1>1, <1>4, <1>13 DEF Knows
    <3>5. Header(doc, n + 1, q.mnemo)
      BY <1>3, <1>13 DEF Held
    <3>6. Mode(doc, n + 1, d.mnemo, d.op)
      BY <1>9, <3>2, <3>3, <3>4 DEF Mode, i
    <3> QED BY <1>8, <1>21, <3>2, <3>5, <3>6 DEF Stepped
  <2> QED BY <2>1, <2>2, <2>3
<1>14. CASE q.m_state = "opcode_memuse_line"
  <2>1. d = get_memuse_line(q, tok, v)
    BY <1>14, <1>20 DEF Dispatch
  <2> QED BY <1>13, <1>14, <2>1 DEF InMnemonic, States
<1>15. CASE q.m_state = "opcode_memuse_call"
  <2>1. d = get_call_str(q, tok)
    BY <1>15, <1>20 DEF Dispatch
  <2>2. CASE tok # "OPSTR"
    BY <1>10, <2>1, <2>2 DEF get_call_str
  <2>3. CASE tok = "OPSTR"
    <3>1. d = Goto(q, "opcode_memuse_code")
      BY <2>1, <2>3 DEF get_call_str
    <3>2. /\ d.category = q.category /\ d.m_state = "opcode_memuse_code" /\ d.start = q.start
          /\ d.mnemo = q.mnemo /\ d.list = q.list /\ d.op = q.op
      BY <1>1, <3>1 DEF ParserType, Goto
    <3>3. Header(doc, n + 1, q.mnemo)
      BY <1>3, <1>15 DEF Held, InMnemonic, States
    <3>4. Mode(doc, n, q.mnemo, q.op)
      BY <1>3, <1>15 DEF Held
    <3>5. Mode(doc, n + 1, d.mnemo, d.op)
      BY <3>2, <3>4, AboveGrows
    <3> QED BY <1>8, <1>21, <3>2, <3>3, <3>5 DEF Stepped
  <2> QED BY <2>2, <2>3
<1>16. CASE q.m_state = "opcode_memuse_code"
  <2>1. d = get_op_code(q, tok, v)
    BY <1>16, <1>20 DEF Dispatch
  <2>2. CASE tok # "BYTE"
    BY <1>10, <2>1, <2>2 DEF get_op_code
  <2>3. CASE tok = "BYTE"
    <3>1. d = [Goto(q, "opcode_memuse_size") EXCEPT !.op.opcode = v]
      BY <2>1, <2>3 DEF get_op_code
    <3>2. /\ d.category = q.category /\ d.m_state = "opcode_memuse_size" /\ d.start = q.start
          /\ d.mnemo = q.mnemo /\ d.list = q.list /\ d.op.opcode = v /\ d.op.memaccess = q.op.memaccess
      BY <1>1, <3>1 DEF ParserType, OpType, Goto
    <3>3. Header(doc, n + 1, q.mnemo)
      BY <1>3, <1>16 DEF Held, InMnemonic, States
    <3>4. Mode(doc, n, d.mnemo, d.op)
      BY <1>3, <1>16, <3>2 DEF Held, Mode
    <3>5. OpcodeAt(doc, n + 1, v) /\ i.k \in {"byte", "numbered"} /\ q.start = "smemuse"
      BY <1>2, <1>7, <2>3 DEF Told, OpcodeAt, i
    <3>6. NoneFrom(doc, n + 1, n + 1)
      BY <3>5 DEF NoneFrom, i
    <3>7. Code(doc, n + 1, d.mnemo, d.op)
      BY <1>9, <3>2, <3>4, <3>5, <3>6 DEF Code
    <3> QED BY <1>8, <1>21, <3>2, <3>3, <3>5, <3>7 DEF Stepped
  <2> QED BY <2>2, <2>3
<1>17. CASE q.m_state = "opcode_memuse_size"
  <2>1. d = get_opcall_size(q, tok, v)
    BY <1>17, <1>20 DEF Dispatch
  <2>2. CASE tok # "NUMBER"
    BY <1>10, <2>1, <2>2 DEF get_opcall_size
  <2>3. CASE tok = "NUMBER"
    <3>1. d = [Goto(q, "opcode_memuse_cycles") EXCEPT !.op.size_B = v]
      BY <2>1, <2>3 DEF get_opcall_size
    <3>2. /\ d.category = q.category /\ d.m_state = "opcode_memuse_cycles" /\ d.start = q.start
          /\ d.mnemo = q.mnemo /\ d.list = q.list /\ d.op.size_B = v
          /\ d.op.opcode = q.op.opcode /\ d.op.memaccess = q.op.memaccess
      BY <1>1, <3>1 DEF ParserType, OpType, Goto
    <3>3. Header(doc, n + 1, q.mnemo)
      BY <1>3, <1>17 DEF Held, InMnemonic, States
    <3>4. Code(doc, n, q.mnemo, q.op)
      BY <1>1, <1>4, <1>17 DEF Knows
    <3>5. PICK b \in 1 .. n : OpcodeAt(doc, b, q.op.opcode) /\ Mode(doc, b - 1, q.mnemo, q.op) /\ NoneFrom(doc, b, n)
      BY <3>4 DEF Code
    <3>6. i.k = "number" /\ v = i.v
      BY <1>2, <1>7, <2>3 DEF Told
    <3>7. b < n + 1 /\ b \in 1 .. n + 1
      BY <3>5
    <3>8. SizeAt(doc, b, n + 1, v)
      BY <1>9, <3>5, <3>6, <3>7 DEF SizeAt, i
    <3>9. OpcodeAt(doc, b, d.op.opcode) /\ Mode(doc, b - 1, d.mnemo, d.op)
      BY <3>2, <3>5 DEF Mode
    <3>10. Line(doc, n + 1, d.mnemo, d.op)
      BY <1>9, <3>2, <3>7, <3>8, <3>9 DEF Line
    <3> QED BY <1>8, <1>21, <3>2, <3>3, <3>10 DEF Stepped
  <2> QED BY <2>2, <2>3
<1>18. CASE q.m_state = "opcode_memuse_cycles"
  <2>1. d = get_opcode_cycles(q, tok)
    BY <1>18, <1>20 DEF Dispatch
  <2>2. Header(doc, n + 1, q.mnemo) /\ Line(doc, n + 1, q.mnemo, q.op) /\ Keeps(doc, n + 1, q.mnemo)
    BY <1>3, <1>18 DEF Held, InMnemonic, States
  <2>3. CASE tok = "NUMBER"
    <3>1. d = q
      BY <2>1, <2>3 DEF get_opcode_cycles
    <3> QED BY <1>8, <1>18, <1>21, <2>2, <3>1 DEF Stepped
  <2>4. CASE tok = "EOL"
    <3>1. d = [Goto(q, "opcode_memuse_next") EXCEPT !.mnemo.ops = Append(@, q.op)]
      BY <2>1, <2>4 DEF get_opcode_cycles
    <3>2. q.mnemo \in MnemonicType(V)
      BY <1>1 DEF ParserType
    <3>3. /\ d.category = q.category /\ d.m_state = "opcode_memuse_next" /\ d.start = q.start
          /\ d.mnemo = [q.mnemo EXCEPT !.ops = Append(@, q.op)] /\ d.list = q.list
      BY <1>1, <3>1 DEF ParserType, Goto
    <3>4. /\ d.mnemo.mnemonic = q.mnemo.mnemonic /\ d.mnemo.category = q.mnemo.category
          /\ d.mnemo.ops = Append(q.mnemo.ops, q.op)
      BY <3>2, <3>3 DEF MnemonicType
    <3>5. Header(doc, n + 1, d.mnemo) /\ Line(doc, n + 1, d.mnemo, q.op)
      BY <2>2, <3>4 DEF Header, Line, Mode
    <3>6. ASSUME NEW y \in 1 .. Len(d.mnemo.ops)
          PROVE  Line(doc, n + 1, d.mnemo, d.mnemo.ops[y])
      <4>1. q.mnemo.ops \in Seq(OpType(V)) /\ q.op \in OpType(V)
        BY <1>1, <3>2 DEF MnemonicType, ParserType
      <4>2. (y \in 1 .. Len(q.mnemo.ops) /\ d.mnemo.ops[y] = q.mnemo.ops[y]) \/ d.mnemo.ops[y] = q.op
        BY <3>4, <3>6, <4>1
      <4>3. CASE y \in 1 .. Len(q.mnemo.ops) /\ d.mnemo.ops[y] = q.mnemo.ops[y]
        <5>1. Line(doc, n + 1, q.mnemo, d.mnemo.ops[y])
          BY <2>2, <4>3 DEF Keeps
        <5> QED BY <3>4, <5>1 DEF Line, Mode, Header
      <4> QED BY <3>5, <4>2, <4>3
    <3>7. Keeps(doc, n + 1, d.mnemo)
      BY <3>6 DEF Keeps
    <3> QED BY <1>8, <1>21, <3>3, <3>5, <3>7 DEF Stepped
  <2>5. CASE tok \notin {"NUMBER", "EOL"}
    <3>1. d = Throw(q)
      BY <2>1, <2>5 DEF get_opcode_cycles
    <3> QED BY <1>10, <3>1
  <2> QED BY <2>3, <2>4, <2>5
<1>19. ASSUME NEW s \in {"opcode_flags", "opcode_description"}, d = Goto(q, s), q.m_state \in InMnemonic
       PROVE  Parsed(doc, n + 1, d)
  <2>1. /\ d.category = q.category /\ d.m_state = s /\ d.start = q.start
        /\ d.mnemo = q.mnemo /\ d.list = q.list
    BY <1>1, <1>19 DEF ParserType, Goto
  <2>2. Header(doc, n + 1, q.mnemo)
    BY <1>3, <1>19 DEF Held
  <2> QED BY <1>8, <1>19, <1>21, <2>1, <2>2 DEF Stepped
<1>23. CASE q.m_state = "opcode_memuse_next"
  <2>1. d = memuse_next_state(q, tok, v)
    BY <1>20, <1>23 DEF Dispatch
  <2>2. q.m_state \in InMnemonic
    BY <1>23 DEF InMnemonic, States
  <2>3. \/ d = Goto(q, "opcode_flags") \/ d = Goto(q, "opcode_description")
        \/ d = get_memuse_line(q, tok, v) \/ d = Throw(q)
    BY <2>1 DEF memuse_next_state
  <2> QED BY <1>10, <1>13, <1>19, <2>2, <2>3
<1>24. CASE q.m_state = "opcode_flags"
  <2>1. d = get_active_flags(q, tok)
    BY <1>20, <1>24 DEF Dispatch
  <2>2. q.m_state \in InMnemonic
    BY <1>24 DEF InMnemonic, States
  <2>3. d = q \/ d = Goto(q, "opcode_description") \/ d = Throw(q)
    BY <2>1 DEF get_active_flags
  <2>4. ASSUME d = q
        PROVE  Parsed(doc, n + 1, d)
    <3>1. Header(doc, n + 1, q.mnemo)
      BY <1>3, <2>2 DEF Held
    <3> QED BY <1>8, <1>21, <1>24, <2>4, <3>1 DEF Stepped
  <2> QED BY <1>10, <1>19, <2>2, <2>3, <2>4
<1>25. CASE q.m_state = "opcode_description"
  <2>1. d = get_description(q, tok)
    BY <1>20, <1>25 DEF Dispatch
  <2>2. CASE tok # "DESCRIPTION_TXT"
    BY <1>10, <2>1, <2>2 DEF get_description
  <2>4. CASE tok = "DESCRIPTION_TXT" /\ Len(q.list) + 1 >= MAXMNEMONICS
    <3>1. d = Lost(q, "assertion")
      BY <2>1, <2>4 DEF get_description
    <3> QED BY <1>27, <3>1
  <2>3. CASE tok = "DESCRIPTION_TXT" /\ ~(Len(q.list) + 1 >= MAXMNEMONICS)
    <3>1. d = [Goto(q, "get_new_element") EXCEPT !.list = Append(@, q.mnemo)]
      BY <2>1, <2>3 DEF get_description
    <3>2. /\ d.category = q.category /\ d.m_state = "get_new_element" /\ d.start = q.start
          /\ d.mnemo = q.mnemo /\ d.list = Append(q.list, q.mnemo)
      BY <1>1, <3>1 DEF ParserType, Goto
    <3> QED BY <1>8, <1>21, <1>22, <3>2 DEF Stepped
  <2> QED BY <2>2, <2>3, <2>4
<1>26. q.m_state \in States
  BY <1>1 DEF ParserType
<1> QED
  BY <1>11, <1>12, <1>14, <1>15, <1>16, <1>17, <1>18, <1>23, <1>24, <1>25, <1>26 DEF States

LEMMA ReadParsed ==
  ASSUME NEW V, NEW doc, NEW n \in Nat, NEW p \in ParserType(V), Parsed(doc, n, p),
         doc[n + 1].k \in Kinds, doc[n + 1].v \in V, OperandByte \in V, "Flags" \in V
  PROVE  Parsed(doc, n + 1, Read(p, doc[n + 1]))
<1>1. CASE p.thrown
  BY <1>1, ReadIs DEF Parsed
<1>2. CASE ~p.thrown /\ Silent(p, doc[n + 1])
  <2>1. Read(p, doc[n + 1]) = Shifted(p, doc[n + 1])
    BY <1>2, ReadIs DEF Silent
  <2> QED BY <1>2, <2>1, ShiftedParsed
<1>3. CASE ~p.thrown /\ ~Silent(p, doc[n + 1])
  <2>1. Read(p, doc[n + 1]) =
           Dispatch(Shifted(p, doc[n + 1]), Given(p, doc[n + 1]).token, ValueOf(p, doc[n + 1]))
    BY <1>3, ReadIs DEF Silent
  <2>2. Parsed(doc, n + 1,
               Dispatch(Shifted(p, doc[n + 1]), Given(p, doc[n + 1]).token, ValueOf(p, doc[n + 1])))
    BY <1>3, TokenParsed
  <2> QED BY <2>1, <2>2, Zenon
<1> QED BY <1>1, <1>2, <1>3

-----------------------------------------------------------------------------
(* Item after item: induction over the numbers of items.                   *)

LEMMA LessWellFounded == IsWellFoundedOn({p \in Nat \X Nat : p[1] < p[2]}, Nat)
BY NatLessThanWellFounded DEF OpToRel

(* Induction, on a set of numbers: no operator parameter. *)
LEMMA SetInduction ==
  ASSUME NEW S, 0 \in S, \A n \in Nat : n \in S => n + 1 \in S
  PROVE  \A n \in Nat : n \in S
<1> DEFINE T == Nat \ S
<1> SUFFICES ASSUME T # {} PROVE FALSE
  OBVIOUS
<1>1. PICK x \in T : \A y \in T : <<y, x>> \notin {p \in Nat \X Nat : p[1] < p[2]}
  BY LessWellFounded, WFMin
<1>2. x # 0 /\ x \in Nat
  OBVIOUS
<1>3. x - 1 \in Nat /\ x - 1 < x
  BY <1>2
<1>4. x - 1 \notin T
  BY <1>1, <1>2, <1>3
<1>5. (x - 1) + 1 = x
  BY <1>2
<1> QED BY <1>2, <1>3, <1>4, <1>5

(* What the parser holds after each of the first k items. *)
After(doc, f, n) == IF n = 0 THEN NewParser ELSE Read(f[n - 1], doc[n])
Reads(doc, f, k) == f = [n \in 0 .. k |-> After(doc, f, n)]

LEMMA Reading ==
  ASSUME NEW doc, NEW L \in Nat
  PROVE  \E f : Reads(doc, f, L)
<1> DEFINE S == {k \in Nat : \E f : Reads(doc, f, k)}
<1>1. 0 \in S
  <2> DEFINE f == [n \in 0 .. 0 |-> NewParser]
  <2>1. \A n \in 0 .. 0 : After(doc, f, n) = NewParser
    BY DEF After
  <2>2. Reads(doc, f, 0)
    BY <2>1 DEF Reads
  <2> QED BY <2>2
<1>2. ASSUME NEW k \in Nat, k \in S
      PROVE  k + 1 \in S
  <2>1. PICK f : Reads(doc, f, k)
    BY <1>2
  <2> DEFINE Body(n) == IF n = k + 1 THEN Read(f[k], doc[k + 1]) ELSE f[n]
             g == [n \in 0 .. k + 1 |-> Body(n)]
  <2>2. ASSUME NEW n \in 0 .. k + 1
        PROVE  Body(n) = After(doc, g, n)
    <3>1. CASE n = k + 1
      <4>1. n # 0 /\ n - 1 = k /\ k \in 0 .. k + 1 /\ k # k + 1
        BY <3>1
      <4>2. g[n - 1] = f[k]
        BY <4>1
      <4> QED BY <3>1, <4>1, <4>2 DEF After
    <3>2. CASE n = 0
      <4>1. 0 \in 0 .. k /\ 0 # k + 1
        OBVIOUS
      <4>2. f[0] = NewParser
        BY <2>1, <4>1 DEF Reads, After
      <4> QED BY <3>2, <4>1, <4>2 DEF After
    <3>3. CASE n \in 1 .. k
      <4>1. n # 0 /\ n # k + 1 /\ n - 1 # k + 1 /\ n - 1 \in 0 .. k + 1 /\ n \in 0 .. k
        BY <3>3
      <4>2. f[n] = After(doc, f, n)
        BY <2>1, <4>1, Zenon DEF Reads
      <4>3. g[n - 1] = f[n - 1]
        BY <4>1
      <4> QED BY <4>1, <4>2, <4>3 DEF After
    <3> QED BY <3>1, <3>2, <3>3
  <2> HIDE DEF Body
  <2>3. Reads(doc, g, k + 1)
    BY <2>2 DEF Reads
  <2> QED BY <2>3
<1>3. L \in S
  <2> HIDE DEF S
  <2> QED BY <1>1, <1>2, SetInduction
<1> QED BY <1>3

(* The last of some numbers. *)
LEMMA LastIs ==
  ASSUME NEW L \in Nat, NEW S \in SUBSET (0 .. L), S # {}
  PROVE  Last(S) \in S /\ \A q \in S : q <= Last(S)
<1> DEFINE HasLast(T) == \E p \in T : \A q \in T : q <= p
           K == {k \in Nat : \A T \in SUBSET (0 .. k) : T # {} => HasLast(T)}
<1>1. 0 \in K
  <2> SUFFICES ASSUME NEW T \in SUBSET (0 .. 0), T # {}
               PROVE  HasLast(T)
    OBVIOUS
  <2>1. PICK p \in T : TRUE
    OBVIOUS
  <2>2. \A q \in T : q = p /\ q \in Nat
    OBVIOUS
  <2> QED BY <2>2
<1>2. ASSUME NEW k \in Nat, k \in K
      PROVE  k + 1 \in K
  <2> SUFFICES ASSUME NEW T \in SUBSET (0 .. k + 1), T # {}
               PROVE  HasLast(T)
    OBVIOUS
  <2>1. CASE k + 1 \in T
    BY <2>1
  <2>2. CASE k + 1 \notin T
    <3>1. \A q \in 0 .. k + 1 : q \in 0 .. k \/ q = k + 1
      OBVIOUS
    <3>2. T \in SUBSET (0 .. k)
      BY <2>2, <3>1
    <3> QED BY <1>2, <3>2
  <2> QED BY <2>1, <2>2
<1>3. L \in K
  <2> HIDE DEF K
  <2> QED BY <1>1, <1>2, SetInduction
<1> QED BY <1>3 DEF Last

(* A line read item by item from what was held before it. *)
LEMMA LineRead ==
  ASSUME NEW doc, NEW L \in Nat, NEW f, Reads(doc, f, L),
         NEW a \in 0 .. L, NEW b \in 0 .. L, a <= b
  PROVE  ReadLine(f[a], doc, a, b) = f[b]
<1> DEFINE Value(h, n) == IF n = a THEN f[a] ELSE Read(h[n - 1], doc[n])
           Eq(h) == h = [n \in a .. b |-> Value(h, n)]
           after == CHOOSE h : Eq(h)
           g == [n \in a .. b |-> f[n]]
           S == {k \in Nat : a + k <= b => after[a + k] = f[a + k]}
<1>1. ReadLine(f[a], doc, a, b) = after[b]
  BY DEF ReadLine
<1>2. \A n \in 0 .. L : f[n] = After(doc, f, n)
  BY Zenon DEF Reads
<1>3. \A n \in (a .. b) \ {a} : n # 0 /\ n \in 0 .. L /\ n - 1 \in a .. b /\ f[n] = Read(f[n - 1], doc[n])
  BY <1>2 DEF After
<1>4. Eq(g)
  <2>1. \A n \in a .. b : f[n] = Value(g, n)
    BY <1>3
  <2> HIDE DEF Value
  <2> QED BY <2>1
<1>5. Eq(after)
  <2> HIDE DEF Eq, g
  <2> QED BY <1>4
<1> HIDE DEF after
<1>6. \A n \in a .. b : after[n] = Value(after, n)
  <2> HIDE DEF Value
  <2> QED BY <1>5
<1>7. 0 \in S
  BY <1>6
<1>8. ASSUME NEW k \in Nat, k \in S
      PROVE  k + 1 \in S
  <2> SUFFICES ASSUME a + (k + 1) <= b
               PROVE  after[a + (k + 1)] = f[a + (k + 1)]
    OBVIOUS
  <2> DEFINE n == a + (k + 1)
  <2>1. n \in (a .. b) \ {a} /\ n - 1 = a + k /\ a + k <= b
    OBVIOUS
  <2>2. after[a + k] = f[a + k]
    BY <1>8, <2>1
  <2>3. after[n] = Read(after[n - 1], doc[n]) /\ f[n] = Read(f[n - 1], doc[n])
    BY <1>3, <1>6, <2>1
  <2> HIDE DEF n
  <2>4. after[n] = f[n]
    BY <2>1, <2>2, <2>3
  <2> QED BY <2>4 DEF n
<1>9. b - a \in S /\ b - a \in Nat /\ a + (b - a) = b
  <2>1. b - a \in Nat /\ a + (b - a) = b
    OBVIOUS
  <2> HIDE DEF S
  <2> QED BY <1>7, <1>8, <2>1, SetInduction
<1> QED BY <1>1, <1>9

(* Line by line or item by item, the parser ends with the same. *)
LEMMA LinesRead ==
  ASSUME NEW doc, IsText(doc), NEW f, Reads(doc, f, Len(doc))
  PROVE  build_list(doc) = f[Len(doc)]
<1> DEFINE L == Len(doc)
           ends == {0, L} \cup {p \in DOMAIN doc : doc[p].k = "eol"}
           Above(b) == Last({e \in ends : e < b})
           Value(h, b) == IF b = 0 THEN NewParser
                          ELSE IF h[Above(b)].thrown THEN h[Above(b)]
                          ELSE ReadLine(h[Above(b)], doc, Above(b), b)
           Eq(h) == h = [b \in ends |-> Value(h, b)]
           after == CHOOSE h : Eq(h)
           g == [b \in ends |-> f[b]]
           S == {n \in Nat : \A b \in ends : b <= n => after[b] = f[b]}
<1>1. build_list(doc) = after[L]
  BY DEF build_list
<1>2. L \in Nat /\ DOMAIN doc = 1 .. L /\ ends \subseteq 0 .. L /\ 0 \in ends /\ L \in ends
  BY DEF IsText
<1> HIDE DEF L, ends
<1>3. \A n \in 0 .. L : f[n] = After(doc, f, n)
  BY Zenon DEF Reads, L
<1>4. ASSUME NEW b \in ends, b # 0
      PROVE  Above(b) \in ends /\ Above(b) < b /\ b \in 0 .. L /\ Above(b) \in 0 .. L
  <2> DEFINE T == {e \in ends : e < b}
  <2>1. b \in 0 .. L /\ 0 < b
    BY <1>2, <1>4
  <2>2. T \in SUBSET (0 .. L) /\ T # {}
    BY <1>2, <2>1
  <2>3. Last(T) \in T
    <3> HIDE DEF T
    <3> QED BY <1>2, <2>2, LastIs
  <2> QED BY <1>2, <2>1, <2>3
<1> HIDE DEF Above
<1>5. ASSUME NEW b \in ends, b # 0, f[Above(b)].thrown
      PROVE  f[b] = f[Above(b)]
  <2> DEFINE a == Above(b)
             K == {k \in Nat : a + k <= b => f[a + k] = f[a]}
  <2>1. a \in 0 .. L /\ b \in 0 .. L /\ a < b
    BY <1>4, <1>5
  <2> HIDE DEF a
  <2>2. 0 \in K
    BY <2>1
  <2>3. ASSUME NEW k \in Nat, k \in K
        PROVE  k + 1 \in K
    <3> SUFFICES ASSUME a + (k + 1) <= b
                 PROVE  f[a + (k + 1)] = f[a]
      OBVIOUS
    <3>1. a + (k + 1) \in 0 .. L /\ a + (k + 1) # 0 /\ (a + (k + 1)) - 1 = a + k /\ a + k <= b
      BY <1>2, <2>1
    <3>2. f[a + k] = f[a]
      BY <2>3, <3>1
    <3>3. f[a + (k + 1)] = Read(f[a], doc[a + (k + 1)])
      BY <1>3, <3>1, <3>2 DEF After
    <3>4. f[a].thrown
      BY <1>5 DEF a
    <3> QED BY <3>3, <3>4, ReadIs
  <2>4. b - a \in Nat /\ a + (b - a) = b
    BY <2>1
  <2>5. b - a \in K
    <3> HIDE DEF K
    <3> QED BY <2>2, <2>3, <2>4, SetInduction
  <2>6. f[a + (b - a)] = f[a]
    <3>1. a + (b - a) <= b
      BY <2>1, <2>4
    <3> QED BY <2>5, <3>1
  <2> HIDE DEF K
  <2>7. f[b] = f[a]
    BY <2>4, <2>6
  <2> QED BY <2>7 DEF a
<1>6. ASSUME NEW b \in ends, b # 0
      PROVE  ReadLine(f[Above(b)], doc, Above(b), b) = f[b]
  <2>1. Reads(doc, f, L)
    BY DEF L
  <2>2. Above(b) <= b
    BY <1>2, <1>4, <1>6
  <2>3. b \in 0 .. L /\ Above(b) \in 0 .. L /\ L \in Nat
    BY <1>2, <1>4, <1>6
  <2> QED BY <2>1, <2>2, <2>3, LineRead, Zenon
<1>7. Eq(g)
  <2>1. ASSUME NEW b \in ends
        PROVE  f[b] = Value(g, b)
    <3>1. CASE b = 0
      <4>1. 0 \in 0 .. L
        BY <1>2
      <4> QED BY <1>3, <3>1, <4>1 DEF After
    <3>2. CASE b # 0
      <4>1. g[Above(b)] = f[Above(b)]
        BY <1>4, <3>2
      <4> HIDE DEF g
      <4> QED BY <1>5, <1>6, <3>2, <4>1
    <3> QED BY <3>1, <3>2
  <2> HIDE DEF Value
  <2> QED BY <2>1
<1>8. Eq(after)
  <2> HIDE DEF Eq, g
  <2> QED BY <1>7
<1> HIDE DEF after
<1>9. \A b \in ends : after[b] = Value(after, b)
  <2> HIDE DEF Value
  <2> QED BY <1>8
<1>10. after[0] = f[0]
  <2>1. 0 \in 0 .. L
    BY <1>2
  <2> QED BY <1>2, <1>3, <1>9, <2>1 DEF After
<1>11. 0 \in S
  <2>1. \A b \in ends : b <= 0 => b = 0
    BY <1>2
  <2> QED BY <1>10, <2>1
<1>12. ASSUME NEW n \in Nat, n \in S
       PROVE  n + 1 \in S
  <2> SUFFICES ASSUME NEW b \in ends, b <= n + 1
               PROVE  after[b] = f[b]
    OBVIOUS
  <2>1. CASE b = 0
    BY <1>10, <2>1
  <2>2. CASE b # 0
    <3>1. Above(b) \in ends /\ Above(b) <= n
      BY <1>4, <2>2
    <3>2. after[Above(b)] = f[Above(b)]
      BY <1>12, <3>1
    <3>3. after[b] = Value(after, b)
      BY <1>9
    <3> QED BY <1>5, <1>6, <2>2, <3>2, <3>3
  <2> QED BY <2>1, <2>2
<1>13. L \in S
  <2> HIDE DEF S
  <2> QED BY <1>2, <1>11, <1>12, SetInduction
<1> QED BY <1>1, <1>2, <1>13 DEF L

(* A new parser. *)
LEMMA StartType ==
  ASSUME NEW V, {"", 0, NoCategory} \subseteq V
  PROVE  NewParser \in ParserType(V)
<1>1. "INITIAL" \in Conditions
  <2>1. <<"INITIAL", "eol", "EOL", "INITIAL">> \in Rules
    BY DEF Rules, FixedRules
  <2>2. <<"INITIAL", "eol", "EOL", "INITIAL">>[4] = "INITIAL"
    OBVIOUS
  <2> QED BY <2>1, <2>2, Zenon DEF Conditions
<1>2. [memaccess |-> "", opcode |-> 0, size_B |-> 0] \in OpType(V)
  BY DEF OpType
<1>3. [mnemonic |-> "", category |-> NoCategory, ops |-> <<>>] \in MnemonicType(V)
  <2>1. <<>> \in Seq(OpType(V))
    BY EmptySeq
  <2> QED BY <2>1 DEF MnemonicType
<1>4. <<>> \in Seq(MnemonicType(V))
  BY EmptySeq
<1>5. "" \in Endings
  BY Zenon DEF Endings
<1> HIDE DEF Conditions
<1> QED BY <1>1, <1>2, <1>3, <1>4, <1>5 DEF NewParser, ParserType, States

(* What the parser holds of a text at its end, it has read in the text. *)
LEMMA BuildList ==
  ASSUME NEW doc, IsText(doc)
  PROVE  /\ Parsed(doc, Len(doc), build_list(doc))
         /\ build_list(doc) \in ParserType(Values(doc))
         /\ build_list(doc).thrown \/ build_list(doc).why # "overrun"
<1> DEFINE L == Len(doc)
           V == Values(doc)
           after == CHOOSE f : Reads(doc, f, L)
           Fine(p) == p.thrown \/ p.why # "overrun"
           S == {n \in Nat : n <= L => /\ after[n] \in ParserType(V) /\ Parsed(doc, n, after[n])
                                       /\ Fine(after[n])}
<1>1. L \in Nat /\ DOMAIN doc = 1 .. L /\ \A n \in 1 .. L : doc[n].k \in Kinds /\ doc[n].v \in V
  BY DEF IsText, Values
<1>2. Reads(doc, after, L)
  BY <1>1, Reading
<1>3. build_list(doc) = after[L]
  <2> HIDE DEF after
  <2> QED BY <1>2, LinesRead
<1>4. OperandByte \in V /\ "Flags" \in V /\ {"", 0, NoCategory} \subseteq V
  BY DEF Values
<1> HIDE DEF V, L, after
<1>5. \A n \in 0 .. L : after[n] = After(doc, after, n)
  BY <1>2, Zenon DEF Reads
<1>6. 0 \in S
  <2>1. after[0] = NewParser
    BY <1>1, <1>5 DEF After
  <2>2. NewParser \in ParserType(V)
    BY <1>4, StartType
  <2>3. Parsed(doc, 0, NewParser)
    <3>1. /\ NewParser.category = NoCategory /\ NewParser.start = "INITIAL"
          /\ NewParser.m_state = "get_new_element" /\ NewParser.mnemo.ops = <<>> /\ NewParser.list = <<>>
      BY DEF NewParser
    <3>2. 1 .. Len(<<>>) = {}
      BY EmptySeq
    <3>3. Keeps(doc, 0, NewParser.mnemo) /\ \A j \in 1 .. Len(NewParser.list) : Keeps(doc, 0, NewParser.list[j])
      BY <3>1, <3>2 DEF Keeps
    <3> QED BY <3>1, <3>3 DEF Parsed, Knows, InMnemonic, States
  <2>4. Fine(NewParser)
    BY DEF NewParser
  <2> HIDE DEF Fine
  <2> QED BY <2>1, <2>2, <2>3, <2>4
<1>7. ASSUME NEW n \in Nat, n \in S
      PROVE  n + 1 \in S
  <2> SUFFICES ASSUME n + 1 <= L
               PROVE  /\ after[n + 1] \in ParserType(V) /\ Parsed(doc, n + 1, after[n + 1])
                      /\ Fine(after[n + 1])
    OBVIOUS
  <2>1. n <= L /\ n + 1 \in 0 .. L /\ n + 1 \in 1 .. L /\ n + 1 # 0 /\ (n + 1) - 1 = n
    BY <1>1
  <2>2. after[n] \in ParserType(V) /\ Parsed(doc, n, after[n]) /\ Fine(after[n])
    BY <1>7, <2>1
  <2>3. after[n + 1] = Read(after[n], doc[n + 1])
    BY <1>5, <2>1 DEF After
  <2>4. Fine(Read(after[n], doc[n + 1]))
    BY <1>1, <1>4, <2>1, <2>2, ReadTells
  <2> HIDE DEF Fine
  <2> QED BY <1>1, <1>4, <2>1, <2>2, <2>3, <2>4, ReadType, ReadParsed
<1>8. L \in S
  <2> HIDE DEF S
  <2> QED BY <1>1, <1>6, <1>7, SetInduction
<1> QED BY <1>1, <1>3, <1>8 DEF L, V

(* Where a table comes from. *)
LEMMA TableComes ==
  ASSUME TypeOK, [Next]_vars
  PROVE  \/ table' = {}
         \/ UNCHANGED <<table, text>>
         \/ /\ text' = text /\ IsText(text) /\ Filled(build_list(text))
            /\ table' = SearchTable(build_list(text).list)
         \/ text' = text /\ Overruns(text)
<1>1. CASE fill_structure /\ table' # {}
  <2> DEFINE p == build_list(text)
  <2>1. /\ text # NoText
        /\ \/ Filled(p) /\ TableIs(SearchTable(p.list))
           \/ p.why = "overrun" /\ \E T \in Scrambled : TableIs(T)
    BY <1>1, Zenon DEF fill_structure
  <2>2. IsText(text)
    <3>1. text \in FirstTexts \ {NoText}
      BY <2>1, TextKnown
    <3> QED BY <3>1, ConvertAssumption
  <2> HIDE DEF p
  <2>3. CASE Filled(p) /\ TableIs(SearchTable(p.list))
    BY <2>2, <2>3 DEF TableIs, p
  <2>4. CASE p.why = "overrun" /\ \E T \in Scrambled : TableIs(T)
    BY <2>4 DEF TableIs, Overruns, p
  <2> QED BY <2>1, <2>3, <2>4
<1>2. \/ table' = {} \/ (fill_structure /\ table' # {}) \/ UNCHANGED <<table, text>>
  BY DEF Next, vars, TypeOK, CopyStatic, open_nes, dump, indjmp_init, disasm, re,
     create_indjump_asm_routines, patchPrgRom, NoRoutine, create_rom_headerfile, Interrupted,
     DeletePrevious, MakeAll, script, Startable
<1> QED BY <1>1, <1>2

(* For any text that never fills the array of a mnemonic past its end: every *)
(* entry of the table stands in the text, the opcode where a line names     *)
(* one, the size in the first number of the rest of that line, below the    *)
(* addressing mode, itself below the name of the mnemonic, itself below the *)
(* category. Nothing the parser was left with by a damaged line makes an    *)
(* entry that no line has (parser.cpp, opcodes.cpp).                        *)
THEOREM TableCorrect == Spec => []TableFromText
<1>1. Init => TableFromText
  BY DEF Init, TableFromText
<1>2. ASSUME TypeOK, TableFromText, [Next]_vars
      PROVE  TableFromText'
  <2>1. CASE table' = {}
    BY <2>1 DEF TableFromText
  <2>2. CASE /\ text' = text /\ IsText(text) /\ Filled(build_list(text))
             /\ table' = SearchTable(build_list(text).list)
    <3> DEFINE p == build_list(text)
    <3>1. Filled(p) /\ table' = SearchTable(p.list) /\ text' = text
      BY <2>2
    <3>2. IsText(text)
      BY <2>2
    <3>3. Parsed(text, Len(text), p) /\ p \in ParserType(Values(text)) /\ ~p.thrown
      BY <3>1, <3>2, BuildList DEF Filled
    <3> HIDE DEF p
    <3>4. ASSUME NEW e \in SearchTable(p.list)
          PROVE  Line(text, Len(text), e, e)
      <4>1. PICK a \in Places(p.list) :
                   e = Entry(At(p.list, a).opcode, At(p.list, a).memaccess, At(p.list, a).size_B,
                             p.list[a[1]].mnemonic, p.list[a[1]].category)
        BY <3>4 DEF SearchTable
      <4>2. PICK x \in DOMAIN p.list : \E y \in DOMAIN p.list[x].ops : a = <<x, y>>
        BY <4>1 DEF Places
      <4>9. PICK y \in DOMAIN p.list[x].ops : a = <<x, y>>
        BY <4>2
      <4> DEFINE m == p.list[x]
      <4>3. p.list \in Seq(MnemonicType(Values(text)))
        BY <3>3 DEF ParserType
      <4>4. x \in 1 .. Len(p.list) /\ m \in MnemonicType(Values(text))
        BY <4>2, <4>3
      <4>5. m.ops \in Seq(OpType(Values(text)))
        BY <4>4 DEF MnemonicType
      <4>6. y \in 1 .. Len(m.ops)
        BY <4>9, <4>5
      <4>7. Line(text, Len(text), m, m.ops[y])
        BY <3>3, <4>4, <4>6 DEF Parsed, Keeps
      <4>8. /\ e.opcode = m.ops[y].opcode /\ e.memaccess = m.ops[y].memaccess
            /\ e.size_B = m.ops[y].size_B /\ e.mnemonic = m.mnemonic /\ e.category = m.category
        BY <4>1, <4>9 DEF Entry, At
      <4> QED BY <4>7, <4>8 DEF Line, Mode, Header
    <3> QED BY <3>1, <3>4 DEF TableFromText
  <2>3. CASE UNCHANGED <<table, text>>
    BY <1>2, <2>3 DEF TableFromText
  <2>4. CASE text' = text /\ Overruns(text)
    BY <2>4 DEF TableFromText
  <2> QED BY <1>2, <2>1, <2>2, <2>3, <2>4, TableComes
<1>3. Spec => []TypeOK
  BY TypeCorrect
<1> QED BY <1>1, <1>2, <1>3, PTL DEF Spec

(* Two entries of the table never share an opcode, unless that array was    *)
(* filled past its end: what is looked up is the only answer                *)
(* (opcodes_utils.cpp).                                                     *)
THEOREM OneEntryCorrect == Spec => []OneEntryEach
<1>1. Init => OneEntryEach
  BY DEF Init, OneEntryEach
<1>2. ASSUME TypeOK, OneEntryEach, [Next]_vars
      PROVE  OneEntryEach'
  <2>1. CASE table' = {}
    BY <2>1 DEF OneEntryEach
  <2>2. CASE Filled(build_list(text)) /\ table' = SearchTable(build_list(text).list)
    <3> DEFINE list == build_list(text).list
    <3>1. ~DoubleOpcode(list) /\ table' = SearchTable(list)
      BY <2>2 DEF Filled
    <3> HIDE DEF list
    <3>2. ASSUME NEW a \in Places(list), NEW b \in Places(list), At(list, a).opcode = At(list, b).opcode
          PROVE  a = b
      BY <3>1, <3>2 DEF DoubleOpcode
    <3>3. ASSUME NEW e \in SearchTable(list), NEW f \in SearchTable(list), e.opcode = f.opcode
          PROVE  e = f
      <4> DEFINE EntryOf(a) == Entry(At(list, a).opcode, At(list, a).memaccess, At(list, a).size_B,
                                     list[a[1]].mnemonic, list[a[1]].category)
      <4>1. PICK a \in Places(list) : e = EntryOf(a)
        BY DEF SearchTable
      <4>2. PICK b \in Places(list) : f = EntryOf(b)
        BY DEF SearchTable
      <4>3. EntryOf(a).opcode = At(list, a).opcode /\ EntryOf(b).opcode = At(list, b).opcode
        BY DEF Entry
      <4> HIDE DEF EntryOf
      <4> QED BY <3>2, <3>3, <4>1, <4>2, <4>3
    <3> QED BY <3>1, <3>3 DEF OneEntryEach
  <2>3. CASE UNCHANGED <<table, text>>
    BY <1>2, <2>3 DEF OneEntryEach
  <2>4. CASE text' = text /\ Overruns(text)
    BY <2>4 DEF OneEntryEach
  <2> QED BY <1>2, <2>1, <2>2, <2>3, <2>4, TableComes
<1>3. Spec => []TypeOK
  BY TypeCorrect
<1> QED BY <1>1, <1>2, <1>3, PTL DEF Spec

-----------------------------------------------------------------------------
(* The rules of one item in one condition, spelt out. *)
LEMMA FixedIs ==
  ASSUME NEW r \in FixedRules
  PROVE
    \/ r[1] = "INITIAL" /\ r[2] = "eol" /\ r[3] = "EOL" /\ r[4] = "INITIAL"
    \/ r[1] = "INITIAL" /\ r[2] = "semi" /\ r[3] = "SEMCOL" /\ r[4] = "INITIAL"
    \/ r[1] = "INITIAL" /\ r[2] = "comment" /\ r[3] = "COMMENT" /\ r[4] = "COMMENT"
    \/ r[1] = "COMMENT" /\ r[2] = "eol" /\ r[3] = "EOL" /\ r[4] = "INITIAL"
    \/ r[1] = "INITIAL" /\ r[2] = "category" /\ r[3] = "CATEGORY" /\ r[4] = "INITIAL"
    \/ r[1] = "INITIAL" /\ r[2] = "flags" /\ r[3] = "FLAGS" /\ r[4] = "sflags"
    \/ r[1] = "INITIAL" /\ r[2] = "opcode" /\ r[3] = "OPCODEDEF" /\ r[4] = "sopcode"
    \/ r[1] = "sflags" /\ r[2] = "opcode" /\ r[3] = "OPCODEDEF" /\ r[4] = "sopcode"
    \/ r[1] = "INITIAL" /\ r[2] = "description" /\ r[3] = "DESCRIPTION" /\ r[4] = "sdescription"
    \/ r[1] = "INITIAL" /\ r[2] = "mode" /\ r[3] = "MEMUSE" /\ r[4] = "smemc"
    \/ r[1] = "smemc" /\ r[2] = "semi" /\ r[3] = "" /\ r[4] = "sopstr"
    \/ r[1] = "sdescription" /\ r[2] = "eol" /\ r[3] = "DESCRIPTION_TXT" /\ r[4] = "INITIAL"
    \/ r[1] = "name" /\ r[2] = "eol" /\ r[3] = "OPCODESTR" /\ r[4] = "INITIAL"
    \/ r[1] = "sopstr" /\ r[2] = "semi" /\ r[3] = "" /\ r[4] = "smemuse"
    \/ r[1] = "operand" /\ r[2] = "semi" /\ r[3] = "" /\ r[4] = "smemuse"
    \/ r[1] = "smemuse" /\ r[2] = "byte" /\ r[3] = "BYTE" /\ r[4] = "smemuse"
    \/ r[1] = "smemuse" /\ r[2] = "numbered" /\ r[3] = "BYTE" /\ r[4] = "smemuse"
    \/ r[1] = "smemuse" /\ r[2] = "number" /\ r[3] = "NUMBER" /\ r[4] = "smemuse"
    \/ r[1] = "smemuse" /\ r[2] = "eol" /\ r[3] = "EOL" /\ r[4] = "INITIAL"
    \/ r[1] = "sflags" /\ r[2] = "eol" /\ r[3] = "EOL" /\ r[4] = "INITIAL"
<1>1. CASE r = <<"INITIAL", "eol", "EOL", "INITIAL">>
  BY <1>1
<1>2. CASE r = <<"INITIAL", "semi", "SEMCOL", "INITIAL">>
  BY <1>2
<1>3. CASE r = <<"INITIAL", "comment", "COMMENT", "COMMENT">>
  BY <1>3
<1>4. CASE r = <<"COMMENT", "eol", "EOL", "INITIAL">>
  BY <1>4
<1>5. CASE r = <<"INITIAL", "category", "CATEGORY", "INITIAL">>
  BY <1>5
<1>6. CASE r = <<"INITIAL", "flags", "FLAGS", "sflags">>
  BY <1>6
<1>7. CASE r = <<"INITIAL", "opcode", "OPCODEDEF", "sopcode">>
  BY <1>7
<1>8. CASE r = <<"sflags", "opcode", "OPCODEDEF", "sopcode">>
  BY <1>8
<1>9. CASE r = <<"INITIAL", "description", "DESCRIPTION", "sdescription">>
  BY <1>9
<1>10. CASE r = <<"INITIAL", "mode", "MEMUSE", "smemc">>
  BY <1>10
<1>11. CASE r = <<"smemc", "semi", "", "sopstr">>
  BY <1>11
<1>12. CASE r = <<"sdescription", "eol", "DESCRIPTION_TXT", "INITIAL">>
  BY <1>12
<1>13. CASE r = <<"name", "eol", "OPCODESTR", "INITIAL">>
  BY <1>13
<1>14. CASE r = <<"sopstr", "semi", "", "smemuse">>
  BY <1>14
<1>15. CASE r = <<"operand", "semi", "", "smemuse">>
  BY <1>15
<1>16. CASE r = <<"smemuse", "byte", "BYTE", "smemuse">>
  BY <1>16
<1>17. CASE r = <<"smemuse", "numbered", "BYTE", "smemuse">>
  BY <1>17
<1>18. CASE r = <<"smemuse", "number", "NUMBER", "smemuse">>
  BY <1>18
<1>19. CASE r = <<"smemuse", "eol", "EOL", "INITIAL">>
  BY <1>19
<1>20. CASE r = <<"sflags", "eol", "EOL", "INITIAL">>
  BY <1>20
<1> QED
  BY <1>1, <1>2, <1>3, <1>4, <1>5, <1>6, <1>7, <1>8, <1>9, <1>10, <1>11, <1>12, <1>13, <1>14, <1>15, <1>16, <1>17, <1>18, <1>19, <1>20, Zenon DEF FixedRules

(* Two rules for one item in one condition are the same. *)
LEMMA OneRule ==
  ASSUME NEW r \in Rules, NEW u \in Rules, u[1] = r[1], u[2] = r[2]
  PROVE  u[3] = r[3] /\ u[4] = r[4]
<1> DEFINE Naming == {"sopcode", "name"} \X EndsWithWord \X {""} \X {"name"}
           Others == {"name"} \X (Kinds \ (EndsWithWord \cup {"eol"})) \X {""} \X {"sopcode"}
           Operands == {"sopstr"} \X (Kinds \ {"semi"}) \X {"OPSTR"} \X {"operand"}
<1>1. Rules = FixedRules \cup Naming \cup Others \cup Operands
  BY DEF Rules
<1>2. \A v \in FixedRules : v[1] # "sopcode" /\ (v[1] = "name" => v[2] = "eol") /\ (v[1] = "sopstr" => v[2] = "semi")
  BY FixedIs
<1>3. ASSUME NEW v \in Naming PROVE v[1] \in {"sopcode", "name"} /\ v[2] \in EndsWithWord /\ v[3] = "" /\ v[4] = "name"
  OBVIOUS
<1>4. ASSUME NEW v \in Others
      PROVE  v[1] = "name" /\ v[2] \notin EndsWithWord /\ v[2] # "eol" /\ v[3] = "" /\ v[4] = "sopcode"
  OBVIOUS
<1>5. ASSUME NEW v \in Operands PROVE v[1] = "sopstr" /\ v[2] # "semi" /\ v[3] = "OPSTR" /\ v[4] = "operand"
  OBVIOUS
<1>6. "eol" \notin EndsWithWord
  BY DEF EndsWithWord
<1>7. CASE r \in FixedRules /\ u \in FixedRules
  BY <1>7, FixedIs
<1> HIDE DEF Naming, Others, Operands
<1>8. CASE r \notin FixedRules \/ u \notin FixedRules
  <2>1. CASE r \in FixedRules
    <3>1. u \notin Naming
      BY <1>2, <1>3, <1>6, <2>1
    <3>2. u \notin Others
      BY <1>2, <1>4, <2>1
    <3>3. u \notin Operands
      BY <1>2, <1>5, <2>1
    <3> QED BY <1>1, <1>8, <2>1, <3>1, <3>2, <3>3
  <2>2. CASE u \in FixedRules
    <3>1. r \notin Naming
      BY <1>2, <1>3, <1>6, <2>2
    <3>2. r \notin Others
      BY <1>2, <1>4, <2>2
    <3>3. r \notin Operands
      BY <1>2, <1>5, <2>2
    <3> QED BY <1>1, <1>8, <2>2, <3>1, <3>2, <3>3
  <2>3. CASE r \notin FixedRules /\ u \notin FixedRules
    BY <1>1, <1>3, <1>4, <1>5, <1>6, <2>3
  <2> QED BY <2>1, <2>2, <2>3
<1> QED BY <1>7, <1>8

(* What the scanner makes of an item that has a rule. *)
LEMMA Lexed ==
  ASSUME NEW start, NEW k, NEW token, NEW next, <<start, k, token, next>> \in Rules
  PROVE  yylex(start, k).token = token /\ yylex(start, k).next = next
<1> DEFINE r == <<start, k, token, next>>
           u == CHOOSE v \in Rules : v[1] = start /\ v[2] = k
<1>1. r[1] = start /\ r[2] = k /\ r[3] = token /\ r[4] = next /\ r \in Rules
  OBVIOUS
<1>2. u \in Rules /\ u[1] = start /\ u[2] = k
  <2> HIDE DEF r
  <2> QED BY <1>1
<1>3. yylex(start, k) = [token |-> u[3], next |-> u[4]]
  <2> HIDE DEF r
  <2> QED BY <1>1 DEF yylex
<1> HIDE DEF r, u
<1>4. u[3] = token /\ u[4] = next
  BY <1>1, <1>2, OneRule
<1> QED BY <1>3, <1>4

(* ... and of one that has none. *)
LEMMA Echoed ==
  ASSUME NEW start, NEW k,
         \/ start = "smemuse" /\ k = "semi"
         \/ start = "sflags" /\ k = "flag"
         \/ start = "sdescription" /\ k = "phrase"
  PROVE  yylex(start, k).token = "" /\ yylex(start, k).next = start
<1>1. \A r \in FixedRules : ~(r[1] = start /\ r[2] = k)
  BY FixedIs
<1>2. \A r \in Rules : r \in FixedRules \/ r[1] \in {"sopcode", "name", "sopstr"}
  BY DEF Rules
<1>3. ~\E r \in Rules : r[1] = start /\ r[2] = k
  BY <1>1, <1>2
<1> QED BY <1>3 DEF yylex

(* The condition of the scanner and the state of the parser at each place.   *)
Stands ==
   {<<"section", "INITIAL", "get_new_element">>, <<"remark", "COMMENT", "get_new_element">>,
    <<"title", "sflags", "get_new_element">>, <<"opcode", "sopcode", "opcode_element">>,
    <<"name", "name", "opcode_element">>, <<"first", "INITIAL", "opcode_memuse_line">>,
    <<"mode", "smemc", "opcode_memuse_call">>, <<"call", "sopstr", "opcode_memuse_call">>,
    <<"called", "operand", "opcode_memuse_code">>, <<"code", "smemuse", "opcode_memuse_code">>,
    <<"byte", "smemuse", "opcode_memuse_size">>, <<"size", "smemuse", "opcode_memuse_cycles">>,
    <<"next", "INITIAL", "opcode_memuse_next">>, <<"flags", "sflags", "opcode_flags">>,
    <<"ended", "INITIAL", "opcode_flags">>, <<"description", "sdescription", "opcode_description">>}

(* The same, spelt out.                                                     *)
LEMMA StandsIs ==
  ASSUME NEW t \in Stands
  PROVE
    \/ t[1] = "section" /\ t[2] = "INITIAL" /\ t[3] = "get_new_element"
    \/ t[1] = "remark" /\ t[2] = "COMMENT" /\ t[3] = "get_new_element"
    \/ t[1] = "title" /\ t[2] = "sflags" /\ t[3] = "get_new_element"
    \/ t[1] = "opcode" /\ t[2] = "sopcode" /\ t[3] = "opcode_element"
    \/ t[1] = "name" /\ t[2] = "name" /\ t[3] = "opcode_element"
    \/ t[1] = "first" /\ t[2] = "INITIAL" /\ t[3] = "opcode_memuse_line"
    \/ t[1] = "mode" /\ t[2] = "smemc" /\ t[3] = "opcode_memuse_call"
    \/ t[1] = "call" /\ t[2] = "sopstr" /\ t[3] = "opcode_memuse_call"
    \/ t[1] = "called" /\ t[2] = "operand" /\ t[3] = "opcode_memuse_code"
    \/ t[1] = "code" /\ t[2] = "smemuse" /\ t[3] = "opcode_memuse_code"
    \/ t[1] = "byte" /\ t[2] = "smemuse" /\ t[3] = "opcode_memuse_size"
    \/ t[1] = "size" /\ t[2] = "smemuse" /\ t[3] = "opcode_memuse_cycles"
    \/ t[1] = "next" /\ t[2] = "INITIAL" /\ t[3] = "opcode_memuse_next"
    \/ t[1] = "flags" /\ t[2] = "sflags" /\ t[3] = "opcode_flags"
    \/ t[1] = "ended" /\ t[2] = "INITIAL" /\ t[3] = "opcode_flags"
    \/ t[1] = "description" /\ t[2] = "sdescription" /\ t[3] = "opcode_description"
<1>1. CASE t = <<"section", "INITIAL", "get_new_element">>
  BY <1>1
<1>2. CASE t = <<"remark", "COMMENT", "get_new_element">>
  BY <1>2
<1>3. CASE t = <<"title", "sflags", "get_new_element">>
  BY <1>3
<1>4. CASE t = <<"opcode", "sopcode", "opcode_element">>
  BY <1>4
<1>5. CASE t = <<"name", "name", "opcode_element">>
  BY <1>5
<1>6. CASE t = <<"first", "INITIAL", "opcode_memuse_line">>
  BY <1>6
<1>7. CASE t = <<"mode", "smemc", "opcode_memuse_call">>
  BY <1>7
<1>8. CASE t = <<"call", "sopstr", "opcode_memuse_call">>
  BY <1>8
<1>9. CASE t = <<"called", "operand", "opcode_memuse_code">>
  BY <1>9
<1>10. CASE t = <<"code", "smemuse", "opcode_memuse_code">>
  BY <1>10
<1>11. CASE t = <<"byte", "smemuse", "opcode_memuse_size">>
  BY <1>11
<1>12. CASE t = <<"size", "smemuse", "opcode_memuse_cycles">>
  BY <1>12
<1>13. CASE t = <<"next", "INITIAL", "opcode_memuse_next">>
  BY <1>13
<1>14. CASE t = <<"flags", "sflags", "opcode_flags">>
  BY <1>14
<1>15. CASE t = <<"ended", "INITIAL", "opcode_flags">>
  BY <1>15
<1>16. CASE t = <<"description", "sdescription", "opcode_description">>
  BY <1>16
<1> QED
  BY <1>1, <1>2, <1>3, <1>4, <1>5, <1>6, <1>7, <1>8, <1>9, <1>10, <1>11, <1>12, <1>13, <1>14, <1>15, <1>16, Zenon DEF Stands

(* An item where a whole text has one: what it changes in the parser.        *)
LEMMA SpeltRead ==
  ASSUME NEW V, NEW p \in ParserType(V), ~p.thrown, NEW i, i.k \in Kinds, i.v \in V,
         OperandByte \in V, NEW l, NEW m, NEW q, q = Read(p, i),
         <<l, i.k, m>> \in Spelling, <<l, p.start, p.m_state>> \in Stands,
         i.k = "opcode" => p.category # NoCategory,
         i.k = "mode" => ~(Len(p.mnemo.ops) >= MAXOPS),
         l = "description" /\ m = "section" => ~(Len(p.list) + 1 >= MAXMNEMONICS)
  PROVE  /\ ~q.thrown /\ <<m, q.start, q.m_state>> \in Stands /\ q.word = i.v
         /\ q.category = IF i.k = "category" THEN i.v ELSE IF m = "title" THEN "Flags" ELSE p.category
         /\ m # "first" /\ m # "next" => q.mnemo = p.mnemo
         /\ m = "first" => q.mnemo = [mnemonic |-> p.word, category |-> p.category, ops |-> <<>>]
         /\ m = "next" => /\ q.mnemo.mnemonic = p.mnemo.mnemonic /\ q.mnemo.category = p.mnemo.category
                          /\ q.mnemo.ops = Append(p.mnemo.ops, p.op)
         /\ q.op.memaccess = IF m = "mode" THEN i.v ELSE p.op.memaccess
         /\ q.op.opcode = IF i.k = "byte" THEN i.v ELSE p.op.opcode
         /\ q.op.size_B = IF l = "byte" /\ m = "size" THEN i.v ELSE p.op.size_B
         /\ q.list = IF l = "description" /\ m = "section" THEN Append(p.list, p.mnemo) ELSE p.list
<1> DEFINE s == Shifted(p, i)
           v == ValueOf(p, i)
<1>1. /\ s \in ParserType(V) /\ s.start = Given(p, i).next /\ s.word = i.v /\ s.m_state = p.m_state
      /\ s.category = p.category /\ s.mnemo = p.mnemo /\ s.op = p.op /\ s.list = p.list /\ ~s.thrown
  BY ShiftedIs
<1>2. Given(p, i).token = "" => q = s
  BY ReadIs
<1>3. Given(p, i).token # "" => q = Dispatch(s, Given(p, i).token, v)
  BY ReadIs
<1>4. s.op \in OpType(V) /\ s.mnemo \in MnemonicType(V)
  BY <1>1 DEF ParserType
<1>5. /\ Given(p, i).token = "OPCODESTR" /\ i.k # "numbered" => v = p.word
      /\ Given(p, i).token # "OPCODESTR" /\ i.k # "numbered" => v = i.v
  <2>1. ASSUME Given(p, i).token = "OPCODESTR", i.k # "numbered" PROVE v = p.word
    BY <2>1 DEF ValueOf
  <2>2. ASSUME Given(p, i).token # "OPCODESTR", i.k # "numbered" PROVE v = i.v
    BY <2>2 DEF ValueOf
  <2> QED BY <2>1, <2>2
<1> HIDE DEF s, v
<1>11. CASE <<l, i.k, m>> = <<"section", "eol", "section">>
  <2>1. l = "section" /\ i.k = "eol" /\ m = "section"
    BY <1>11
  <2>2. p.start = "INITIAL" /\ p.m_state = "get_new_element"
    BY <2>1, StandsIs
  <2>3. Given(p, i).token = "EOL" /\ Given(p, i).next = "INITIAL"
    <3>1. <<"INITIAL", "eol", "EOL", "INITIAL">> \in Rules
      BY DEF Rules, FixedRules
    <3>2. yylex("INITIAL", "eol").token = "EOL" /\ yylex("INITIAL", "eol").next = "INITIAL"
      BY <3>1, Lexed
    <3> QED BY <2>1, <2>2, <3>2 DEF Given
  <2>4. q = get_new(s, "EOL", v)
    BY <1>1, <1>3, <2>2, <2>3 DEF Dispatch
  <2>5. /\ ~q.thrown /\ q.start = "INITIAL" /\ q.m_state = "get_new_element" /\ q.word = i.v
        /\ q.category = p.category /\ q.mnemo = p.mnemo
        /\ q.op.memaccess = p.op.memaccess /\ q.op.opcode = p.op.opcode /\ q.op.size_B = p.op.size_B
        /\ q.list = p.list
    BY <1>1, <1>4, <1>5, <2>1, <2>2, <2>3, <2>4 DEF get_new, Goto, ParserType, OpType, MnemonicType
  <2>6. <<m, q.start, q.m_state>> = <<"section", "INITIAL", "get_new_element">>
    BY <2>1, <2>5
  <2>7. <<m, q.start, q.m_state>> \in Stands
    BY <2>6 DEF Stands
  <2> QED BY <2>1, <2>5, <2>7
<1>12. CASE <<l, i.k, m>> = <<"section", "comment", "remark">>
  <2>1. l = "section" /\ i.k = "comment" /\ m = "remark"
    BY <1>12
  <2>2. p.start = "INITIAL" /\ p.m_state = "get_new_element"
    BY <2>1, StandsIs
  <2>3. Given(p, i).token = "COMMENT" /\ Given(p, i).next = "COMMENT"
    <3>1. <<"INITIAL", "comment", "COMMENT", "COMMENT">> \in Rules
      BY DEF Rules, FixedRules
    <3>2. yylex("INITIAL", "comment").token = "COMMENT" /\ yylex("INITIAL", "comment").next = "COMMENT"
      BY <3>1, Lexed
    <3> QED BY <2>1, <2>2, <3>2 DEF Given
  <2>4. q = get_new(s, "COMMENT", v)
    BY <1>1, <1>3, <2>2, <2>3 DEF Dispatch
  <2>5. /\ ~q.thrown /\ q.start = "COMMENT" /\ q.m_state = "get_new_element" /\ q.word = i.v
        /\ q.category = p.category /\ q.mnemo = p.mnemo
        /\ q.op.memaccess = p.op.memaccess /\ q.op.opcode = p.op.opcode /\ q.op.size_B = p.op.size_B
        /\ q.list = p.list
    BY <1>1, <1>4, <1>5, <2>1, <2>2, <2>3, <2>4 DEF get_new, Goto, ParserType, OpType, MnemonicType
  <2>6. <<m, q.start, q.m_state>> = <<"remark", "COMMENT", "get_new_element">>
    BY <2>1, <2>5
  <2>7. <<m, q.start, q.m_state>> \in Stands
    BY <2>6 DEF Stands
  <2> QED BY <2>1, <2>5, <2>7
<1>13. CASE <<l, i.k, m>> = <<"remark", "eol", "section">>
  <2>1. l = "remark" /\ i.k = "eol" /\ m = "section"
    BY <1>13
  <2>2. p.start = "COMMENT" /\ p.m_state = "get_new_element"
    BY <2>1, StandsIs
  <2>3. Given(p, i).token = "EOL" /\ Given(p, i).next = "INITIAL"
    <3>1. <<"COMMENT", "eol", "EOL", "INITIAL">> \in Rules
      BY DEF Rules, FixedRules
    <3>2. yylex("COMMENT", "eol").token = "EOL" /\ yylex("COMMENT", "eol").next = "INITIAL"
      BY <3>1, Lexed
    <3> QED BY <2>1, <2>2, <3>2 DEF Given
  <2>4. q = get_new(s, "EOL", v)
    BY <1>1, <1>3, <2>2, <2>3 DEF Dispatch
  <2>5. /\ ~q.thrown /\ q.start = "INITIAL" /\ q.m_state = "get_new_element" /\ q.word = i.v
        /\ q.category = p.category /\ q.mnemo = p.mnemo
        /\ q.op.memaccess = p.op.memaccess /\ q.op.opcode = p.op.opcode /\ q.op.size_B = p.op.size_B
        /\ q.list = p.list
    BY <1>1, <1>4, <1>5, <2>1, <2>2, <2>3, <2>4 DEF get_new, Goto, ParserType, OpType, MnemonicType
  <2>6. <<m, q.start, q.m_state>> = <<"section", "INITIAL", "get_new_element">>
    BY <2>1, <2>5
  <2>7. <<m, q.start, q.m_state>> \in Stands
    BY <2>6 DEF Stands
  <2> QED BY <2>1, <2>5, <2>7
<1>14. CASE <<l, i.k, m>> = <<"section", "category", "section">>
  <2>1. l = "section" /\ i.k = "category" /\ m = "section"
    BY <1>14
  <2>2. p.start = "INITIAL" /\ p.m_state = "get_new_element"
    BY <2>1, StandsIs
  <2>3. Given(p, i).token = "CATEGORY" /\ Given(p, i).next = "INITIAL"
    <3>1. <<"INITIAL", "category", "CATEGORY", "INITIAL">> \in Rules
      BY DEF Rules, FixedRules
    <3>2. yylex("INITIAL", "category").token = "CATEGORY" /\ yylex("INITIAL", "category").next = "INITIAL"
      BY <3>1, Lexed
    <3> QED BY <2>1, <2>2, <3>2 DEF Given
  <2>4. q = get_new(s, "CATEGORY", v)
    BY <1>1, <1>3, <2>2, <2>3 DEF Dispatch
  <2>5. /\ ~q.thrown /\ q.start = "INITIAL" /\ q.m_state = "get_new_element" /\ q.word = i.v
        /\ q.category = i.v /\ q.mnemo = p.mnemo
        /\ q.op.memaccess = p.op.memaccess /\ q.op.opcode = p.op.opcode /\ q.op.size_B = p.op.size_B
        /\ q.list = p.list
    BY <1>1, <1>4, <1>5, <2>1, <2>2, <2>3, <2>4 DEF get_new, Goto, ParserType, OpType, MnemonicType
  <2>6. <<m, q.start, q.m_state>> = <<"section", "INITIAL", "get_new_element">>
    BY <2>1, <2>5
  <2>7. <<m, q.start, q.m_state>> \in Stands
    BY <2>6 DEF Stands
  <2> QED BY <2>1, <2>5, <2>7
<1>15. CASE <<l, i.k, m>> = <<"section", "flags", "title">>
  <2>1. l = "section" /\ i.k = "flags" /\ m = "title"
    BY <1>15
  <2>2. p.start = "INITIAL" /\ p.m_state = "get_new_element"
    BY <2>1, StandsIs
  <2>3. Given(p, i).token = "FLAGS" /\ Given(p, i).next = "sflags"
    <3>1. <<"INITIAL", "flags", "FLAGS", "sflags">> \in Rules
      BY DEF Rules, FixedRules
    <3>2. yylex("INITIAL", "flags").token = "FLAGS" /\ yylex("INITIAL", "flags").next = "sflags"
      BY <3>1, Lexed
    <3> QED BY <2>1, <2>2, <3>2 DEF Given
  <2>4. q = get_new(s, "FLAGS", v)
    BY <1>1, <1>3, <2>2, <2>3 DEF Dispatch
  <2>5. /\ ~q.thrown /\ q.start = "sflags" /\ q.m_state = "get_new_element" /\ q.word = i.v
        /\ q.category = "Flags" /\ q.mnemo = p.mnemo
        /\ q.op.memaccess = p.op.memaccess /\ q.op.opcode = p.op.opcode /\ q.op.size_B = p.op.size_B
        /\ q.list = p.list
    BY <1>1, <1>4, <1>5, <2>1, <2>2, <2>3, <2>4 DEF get_new, Goto, ParserType, OpType, MnemonicType
  <2>6. <<m, q.start, q.m_state>> = <<"title", "sflags", "get_new_element">>
    BY <2>1, <2>5
  <2>7. <<m, q.start, q.m_state>> \in Stands
    BY <2>6 DEF Stands
  <2> QED BY <2>1, <2>5, <2>7
<1>16. CASE <<l, i.k, m>> = <<"title", "eol", "section">>
  <2>1. l = "title" /\ i.k = "eol" /\ m = "section"
    BY <1>16
  <2>2. p.start = "sflags" /\ p.m_state = "get_new_element"
    BY <2>1, StandsIs
  <2>3. Given(p, i).token = "EOL" /\ Given(p, i).next = "INITIAL"
    <3>1. <<"sflags", "eol", "EOL", "INITIAL">> \in Rules
      BY DEF Rules, FixedRules
    <3>2. yylex("sflags", "eol").token = "EOL" /\ yylex("sflags", "eol").next = "INITIAL"
      BY <3>1, Lexed
    <3> QED BY <2>1, <2>2, <3>2 DEF Given
  <2>4. q = get_new(s, "EOL", v)
    BY <1>1, <1>3, <2>2, <2>3 DEF Dispatch
  <2>5. /\ ~q.thrown /\ q.start = "INITIAL" /\ q.m_state = "get_new_element" /\ q.word = i.v
        /\ q.category = p.category /\ q.mnemo = p.mnemo
        /\ q.op.memaccess = p.op.memaccess /\ q.op.opcode = p.op.opcode /\ q.op.size_B = p.op.size_B
        /\ q.list = p.list
    BY <1>1, <1>4, <1>5, <2>1, <2>2, <2>3, <2>4 DEF get_new, Goto, ParserType, OpType, MnemonicType
  <2>6. <<m, q.start, q.m_state>> = <<"section", "INITIAL", "get_new_element">>
    BY <2>1, <2>5
  <2>7. <<m, q.start, q.m_state>> \in Stands
    BY <2>6 DEF Stands
  <2> QED BY <2>1, <2>5, <2>7
<1>17. CASE <<l, i.k, m>> = <<"section", "opcode", "opcode">>
  <2>1. l = "section" /\ i.k = "opcode" /\ m = "opcode"
    BY <1>17
  <2>2. p.start = "INITIAL" /\ p.m_state = "get_new_element"
    BY <2>1, StandsIs
  <2>3. Given(p, i).token = "OPCODEDEF" /\ Given(p, i).next = "sopcode"
    <3>1. <<"INITIAL", "opcode", "OPCODEDEF", "sopcode">> \in Rules
      BY DEF Rules, FixedRules
    <3>2. yylex("INITIAL", "opcode").token = "OPCODEDEF" /\ yylex("INITIAL", "opcode").next = "sopcode"
      BY <3>1, Lexed
    <3> QED BY <2>1, <2>2, <3>2 DEF Given
  <2>4. q = get_new(s, "OPCODEDEF", v)
    BY <1>1, <1>3, <2>2, <2>3 DEF Dispatch
  <2>5. /\ ~q.thrown /\ q.start = "sopcode" /\ q.m_state = "opcode_element" /\ q.word = i.v
        /\ q.category = p.category /\ q.mnemo = p.mnemo
        /\ q.op.memaccess = p.op.memaccess /\ q.op.opcode = p.op.opcode /\ q.op.size_B = p.op.size_B
        /\ q.list = p.list
    BY <1>1, <1>4, <1>5, <2>1, <2>2, <2>3, <2>4 DEF get_new, Goto, ParserType, OpType, MnemonicType
  <2>6. <<m, q.start, q.m_state>> = <<"opcode", "sopcode", "opcode_element">>
    BY <2>1, <2>5
  <2>7. <<m, q.start, q.m_state>> \in Stands
    BY <2>6 DEF Stands
  <2> QED BY <2>1, <2>5, <2>7
<1>18. CASE <<l, i.k, m>> = <<"opcode", "word", "name">>
  <2>1. l = "opcode" /\ i.k = "word" /\ m = "name"
    BY <1>18
  <2>2. p.start = "sopcode" /\ p.m_state = "opcode_element"
    BY <2>1, StandsIs
  <2>3. Given(p, i).token = "" /\ Given(p, i).next = "name"
    <3>1. <<"sopcode", "word", "", "name">> \in Rules
      BY DEF Rules, EndsWithWord, Kinds
    <3>2. yylex("sopcode", "word").token = "" /\ yylex("sopcode", "word").next = "name"
      BY <3>1, Lexed, Zenon
    <3> QED BY <2>1, <2>2, <3>2 DEF Given
  <2>4. q = s
    BY <1>2, <2>3
  <2>5. <<m, q.start, q.m_state>> = <<"name", "name", "opcode_element">>
    BY <1>1, <2>1, <2>2, <2>3, <2>4
  <2> QED BY <1>1, <2>1, <2>4, <2>5 DEF Stands
<1>19. CASE <<l, i.k, m>> = <<"name", "eol", "first">>
  <2>1. l = "name" /\ i.k = "eol" /\ m = "first"
    BY <1>19
  <2>2. p.start = "name" /\ p.m_state = "opcode_element"
    BY <2>1, StandsIs
  <2>3. Given(p, i).token = "OPCODESTR" /\ Given(p, i).next = "INITIAL"
    <3>1. <<"name", "eol", "OPCODESTR", "INITIAL">> \in Rules
      BY DEF Rules, FixedRules
    <3>2. yylex("name", "eol").token = "OPCODESTR" /\ yylex("name", "eol").next = "INITIAL"
      BY <3>1, Lexed
    <3> QED BY <2>1, <2>2, <3>2 DEF Given
  <2>4. q = get_opcode(s, "OPCODESTR", v)
    BY <1>1, <1>3, <2>2, <2>3 DEF Dispatch
  <2>5. /\ ~q.thrown /\ q.start = "INITIAL" /\ q.m_state = "opcode_memuse_line" /\ q.word = i.v
        /\ q.category = p.category /\ q.mnemo = [mnemonic |-> p.word, category |-> p.category, ops |-> <<>>]
        /\ q.op.memaccess = p.op.memaccess /\ q.op.opcode = p.op.opcode /\ q.op.size_B = p.op.size_B
        /\ q.list = p.list
    BY <1>1, <1>4, <1>5, <2>1, <2>2, <2>3, <2>4 DEF get_opcode, Goto, ParserType, OpType, MnemonicType
  <2>6. <<m, q.start, q.m_state>> = <<"first", "INITIAL", "opcode_memuse_line">>
    BY <2>1, <2>5
  <2>7. <<m, q.start, q.m_state>> \in Stands
    BY <2>6 DEF Stands
  <2> QED BY <2>1, <2>5, <2>7
<1>20. CASE <<l, i.k, m>> = <<"first", "mode", "mode">>
  <2>1. l = "first" /\ i.k = "mode" /\ m = "mode"
    BY <1>20
  <2>2. p.start = "INITIAL" /\ p.m_state = "opcode_memuse_line"
    BY <2>1, StandsIs
  <2>3. Given(p, i).token = "MEMUSE" /\ Given(p, i).next = "smemc"
    <3>1. <<"INITIAL", "mode", "MEMUSE", "smemc">> \in Rules
      BY DEF Rules, FixedRules
    <3>2. yylex("INITIAL", "mode").token = "MEMUSE" /\ yylex("INITIAL", "mode").next = "smemc"
      BY <3>1, Lexed
    <3> QED BY <2>1, <2>2, <3>2 DEF Given
  <2>4. q = get_memuse_line(s, "MEMUSE", v)
    BY <1>1, <1>3, <2>2, <2>3 DEF Dispatch
  <2>5. /\ ~q.thrown /\ q.start = "smemc" /\ q.m_state = "opcode_memuse_call" /\ q.word = i.v
        /\ q.category = p.category /\ q.mnemo = p.mnemo
        /\ q.op.memaccess = i.v /\ q.op.opcode = p.op.opcode /\ q.op.size_B = p.op.size_B
        /\ q.list = p.list
    BY <1>1, <1>4, <1>5, <2>1, <2>2, <2>3, <2>4 DEF get_memuse_line, Goto, ParserType, OpType, MnemonicType
  <2>6. <<m, q.start, q.m_state>> = <<"mode", "smemc", "opcode_memuse_call">>
    BY <2>1, <2>5
  <2>7. <<m, q.start, q.m_state>> \in Stands
    BY <2>6 DEF Stands
  <2> QED BY <2>1, <2>5, <2>7
<1>21. CASE <<l, i.k, m>> = <<"next", "mode", "mode">>
  <2>1. l = "next" /\ i.k = "mode" /\ m = "mode"
    BY <1>21
  <2>2. p.start = "INITIAL" /\ p.m_state = "opcode_memuse_next"
    BY <2>1, StandsIs
  <2>3. Given(p, i).token = "MEMUSE" /\ Given(p, i).next = "smemc"
    <3>1. <<"INITIAL", "mode", "MEMUSE", "smemc">> \in Rules
      BY DEF Rules, FixedRules
    <3>2. yylex("INITIAL", "mode").token = "MEMUSE" /\ yylex("INITIAL", "mode").next = "smemc"
      BY <3>1, Lexed
    <3> QED BY <2>1, <2>2, <3>2 DEF Given
  <2>4. q = get_memuse_line(s, "MEMUSE", v)
    <3>1. q = memuse_next_state(s, "MEMUSE", v)
      BY <1>1, <1>3, <2>2, <2>3 DEF Dispatch
    <3> QED BY <3>1 DEF memuse_next_state
  <2>5. /\ ~q.thrown /\ q.start = "smemc" /\ q.m_state = "opcode_memuse_call" /\ q.word = i.v
        /\ q.category = p.category /\ q.mnemo = p.mnemo
        /\ q.op.memaccess = i.v /\ q.op.opcode = p.op.opcode /\ q.op.size_B = p.op.size_B
        /\ q.list = p.list
    BY <1>1, <1>4, <1>5, <2>1, <2>2, <2>3, <2>4 DEF get_memuse_line, Goto, ParserType, OpType, MnemonicType
  <2>6. <<m, q.start, q.m_state>> = <<"mode", "smemc", "opcode_memuse_call">>
    BY <2>1, <2>5
  <2>7. <<m, q.start, q.m_state>> \in Stands
    BY <2>6 DEF Stands
  <2> QED BY <2>1, <2>5, <2>7
<1>22. CASE <<l, i.k, m>> = <<"mode", "semi", "call">>
  <2>1. l = "mode" /\ i.k = "semi" /\ m = "call"
    BY <1>22
  <2>2. p.start = "smemc" /\ p.m_state = "opcode_memuse_call"
    BY <2>1, StandsIs
  <2>3. Given(p, i).token = "" /\ Given(p, i).next = "sopstr"
    <3>1. <<"smemc", "semi", "", "sopstr">> \in Rules
      BY DEF Rules, FixedRules
    <3>2. yylex("smemc", "semi").token = "" /\ yylex("smemc", "semi").next = "sopstr"
      BY <3>1, Lexed, Zenon
    <3> QED BY <2>1, <2>2, <3>2 DEF Given
  <2>4. q = s
    BY <1>2, <2>3
  <2>5. <<m, q.start, q.m_state>> = <<"call", "sopstr", "opcode_memuse_call">>
    BY <1>1, <2>1, <2>2, <2>3, <2>4
  <2> QED BY <1>1, <2>1, <2>4, <2>5 DEF Stands
<1>23. CASE <<l, i.k, m>> = <<"call", "numbered", "called">>
  <2>1. l = "call" /\ i.k = "numbered" /\ m = "called"
    BY <1>23
  <2>2. p.start = "sopstr" /\ p.m_state = "opcode_memuse_call"
    BY <2>1, StandsIs
  <2>3. Given(p, i).token = "OPSTR" /\ Given(p, i).next = "operand"
    <3>1. <<"sopstr", "numbered", "OPSTR", "operand">> \in Rules
      BY DEF Rules, EndsWithWord, Kinds
    <3>2. yylex("sopstr", "numbered").token = "OPSTR" /\ yylex("sopstr", "numbered").next = "operand"
      BY <3>1, Lexed
    <3> QED BY <2>1, <2>2, <3>2 DEF Given
  <2>4. q = get_call_str(s, "OPSTR")
    BY <1>1, <1>3, <2>2, <2>3 DEF Dispatch
  <2>5. /\ ~q.thrown /\ q.start = "operand" /\ q.m_state = "opcode_memuse_code" /\ q.word = i.v
        /\ q.category = p.category /\ q.mnemo = p.mnemo
        /\ q.op.memaccess = p.op.memaccess /\ q.op.opcode = p.op.opcode /\ q.op.size_B = p.op.size_B
        /\ q.list = p.list
    BY <1>1, <1>4, <1>5, <2>1, <2>2, <2>3, <2>4 DEF get_call_str, Goto, ParserType, OpType, MnemonicType
  <2>6. <<m, q.start, q.m_state>> = <<"called", "operand", "opcode_memuse_code">>
    BY <2>1, <2>5
  <2>7. <<m, q.start, q.m_state>> \in Stands
    BY <2>6 DEF Stands
  <2> QED BY <2>1, <2>5, <2>7
<1>24. CASE <<l, i.k, m>> = <<"call", "bare", "called">>
  <2>1. l = "call" /\ i.k = "bare" /\ m = "called"
    BY <1>24
  <2>2. p.start = "sopstr" /\ p.m_state = "opcode_memuse_call"
    BY <2>1, StandsIs
  <2>3. Given(p, i).token = "OPSTR" /\ Given(p, i).next = "operand"
    <3>1. <<"sopstr", "bare", "OPSTR", "operand">> \in Rules
      BY DEF Rules, EndsWithWord, Kinds
    <3>2. yylex("sopstr", "bare").token = "OPSTR" /\ yylex("sopstr", "bare").next = "operand"
      BY <3>1, Lexed
    <3> QED BY <2>1, <2>2, <3>2 DEF Given
  <2>4. q = get_call_str(s, "OPSTR")
    BY <1>1, <1>3, <2>2, <2>3 DEF Dispatch
  <2>5. /\ ~q.thrown /\ q.start = "operand" /\ q.m_state = "opcode_memuse_code" /\ q.word = i.v
        /\ q.category = p.category /\ q.mnemo = p.mnemo
        /\ q.op.memaccess = p.op.memaccess /\ q.op.opcode = p.op.opcode /\ q.op.size_B = p.op.size_B
        /\ q.list = p.list
    BY <1>1, <1>4, <1>5, <2>1, <2>2, <2>3, <2>4 DEF get_call_str, Goto, ParserType, OpType, MnemonicType
  <2>6. <<m, q.start, q.m_state>> = <<"called", "operand", "opcode_memuse_code">>
    BY <2>1, <2>5
  <2>7. <<m, q.start, q.m_state>> \in Stands
    BY <2>6 DEF Stands
  <2> QED BY <2>1, <2>5, <2>7
<1>25. CASE <<l, i.k, m>> = <<"called", "semi", "code">>
  <2>1. l = "called" /\ i.k = "semi" /\ m = "code"
    BY <1>25
  <2>2. p.start = "operand" /\ p.m_state = "opcode_memuse_code"
    BY <2>1, StandsIs
  <2>3. Given(p, i).token = "" /\ Given(p, i).next = "smemuse"
    <3>1. <<"operand", "semi", "", "smemuse">> \in Rules
      BY DEF Rules, FixedRules
    <3>2. yylex("operand", "semi").token = "" /\ yylex("operand", "semi").next = "smemuse"
      BY <3>1, Lexed, Zenon
    <3> QED BY <2>1, <2>2, <3>2 DEF Given
  <2>4. q = s
    BY <1>2, <2>3
  <2>5. <<m, q.start, q.m_state>> = <<"code", "smemuse", "opcode_memuse_code">>
    BY <1>1, <2>1, <2>2, <2>3, <2>4
  <2> QED BY <1>1, <2>1, <2>4, <2>5 DEF Stands
<1>26. CASE <<l, i.k, m>> = <<"code", "byte", "byte">>
  <2>1. l = "code" /\ i.k = "byte" /\ m = "byte"
    BY <1>26
  <2>2. p.start = "smemuse" /\ p.m_state = "opcode_memuse_code"
    BY <2>1, StandsIs
  <2>3. Given(p, i).token = "BYTE" /\ Given(p, i).next = "smemuse"
    <3>1. <<"smemuse", "byte", "BYTE", "smemuse">> \in Rules
      BY DEF Rules, FixedRules
    <3>2. yylex("smemuse", "byte").token = "BYTE" /\ yylex("smemuse", "byte").next = "smemuse"
      BY <3>1, Lexed
    <3> QED BY <2>1, <2>2, <3>2 DEF Given
  <2>4. q = get_op_code(s, "BYTE", v)
    BY <1>1, <1>3, <2>2, <2>3 DEF Dispatch
  <2>5. /\ ~q.thrown /\ q.start = "smemuse" /\ q.m_state = "opcode_memuse_size" /\ q.word = i.v
        /\ q.category = p.category /\ q.mnemo = p.mnemo
        /\ q.op.memaccess = p.op.memaccess /\ q.op.opcode = i.v /\ q.op.size_B = p.op.size_B
        /\ q.list = p.list
    BY <1>1, <1>4, <1>5, <2>1, <2>2, <2>3, <2>4 DEF get_op_code, Goto, ParserType, OpType, MnemonicType
  <2>6. <<m, q.start, q.m_state>> = <<"byte", "smemuse", "opcode_memuse_size">>
    BY <2>1, <2>5
  <2>7. <<m, q.start, q.m_state>> \in Stands
    BY <2>6 DEF Stands
  <2> QED BY <2>1, <2>5, <2>7
<1>27. CASE <<l, i.k, m>> = <<"byte", "semi", "byte">>
  <2>1. l = "byte" /\ i.k = "semi" /\ m = "byte"
    BY <1>27
  <2>2. p.start = "smemuse" /\ p.m_state = "opcode_memuse_size"
    BY <2>1, StandsIs
  <2>3. Given(p, i).token = "" /\ Given(p, i).next = "smemuse"
    BY <2>1, <2>2, Echoed DEF Given
  <2>4. q = s
    BY <1>2, <2>3
  <2>5. <<m, q.start, q.m_state>> = <<"byte", "smemuse", "opcode_memuse_size">>
    BY <1>1, <2>1, <2>2, <2>3, <2>4
  <2> QED BY <1>1, <2>1, <2>4, <2>5 DEF Stands
<1>28. CASE <<l, i.k, m>> = <<"byte", "number", "size">>
  <2>1. l = "byte" /\ i.k = "number" /\ m = "size"
    BY <1>28
  <2>2. p.start = "smemuse" /\ p.m_state = "opcode_memuse_size"
    BY <2>1, StandsIs
  <2>3. Given(p, i).token = "NUMBER" /\ Given(p, i).next = "smemuse"
    <3>1. <<"smemuse", "number", "NUMBER", "smemuse">> \in Rules
      BY DEF Rules, FixedRules
    <3>2. yylex("smemuse", "number").token = "NUMBER" /\ yylex("smemuse", "number").next = "smemuse"
      BY <3>1, Lexed
    <3> QED BY <2>1, <2>2, <3>2 DEF Given
  <2>4. q = get_opcall_size(s, "NUMBER", v)
    BY <1>1, <1>3, <2>2, <2>3 DEF Dispatch
  <2>5. /\ ~q.thrown /\ q.start = "smemuse" /\ q.m_state = "opcode_memuse_cycles" /\ q.word = i.v
        /\ q.category = p.category /\ q.mnemo = p.mnemo
        /\ q.op.memaccess = p.op.memaccess /\ q.op.opcode = p.op.opcode /\ q.op.size_B = i.v
        /\ q.list = p.list
    BY <1>1, <1>4, <1>5, <2>1, <2>2, <2>3, <2>4 DEF get_opcall_size, Goto, ParserType, OpType, MnemonicType
  <2>6. <<m, q.start, q.m_state>> = <<"size", "smemuse", "opcode_memuse_cycles">>
    BY <2>1, <2>5
  <2>7. <<m, q.start, q.m_state>> \in Stands
    BY <2>6 DEF Stands
  <2> QED BY <2>1, <2>5, <2>7
<1>29. CASE <<l, i.k, m>> = <<"size", "semi", "size">>
  <2>1. l = "size" /\ i.k = "semi" /\ m = "size"
    BY <1>29
  <2>2. p.start = "smemuse" /\ p.m_state = "opcode_memuse_cycles"
    BY <2>1, StandsIs
  <2>3. Given(p, i).token = "" /\ Given(p, i).next = "smemuse"
    BY <2>1, <2>2, Echoed DEF Given
  <2>4. q = s
    BY <1>2, <2>3
  <2>5. <<m, q.start, q.m_state>> = <<"size", "smemuse", "opcode_memuse_cycles">>
    BY <1>1, <2>1, <2>2, <2>3, <2>4
  <2> QED BY <1>1, <2>1, <2>4, <2>5 DEF Stands
<1>30. CASE <<l, i.k, m>> = <<"size", "number", "size">>
  <2>1. l = "size" /\ i.k = "number" /\ m = "size"
    BY <1>30
  <2>2. p.start = "smemuse" /\ p.m_state = "opcode_memuse_cycles"
    BY <2>1, StandsIs
  <2>3. Given(p, i).token = "NUMBER" /\ Given(p, i).next = "smemuse"
    <3>1. <<"smemuse", "number", "NUMBER", "smemuse">> \in Rules
      BY DEF Rules, FixedRules
    <3>2. yylex("smemuse", "number").token = "NUMBER" /\ yylex("smemuse", "number").next = "smemuse"
      BY <3>1, Lexed
    <3> QED BY <2>1, <2>2, <3>2 DEF Given
  <2>4. q = get_opcode_cycles(s, "NUMBER")
    BY <1>1, <1>3, <2>2, <2>3 DEF Dispatch
  <2>5. /\ ~q.thrown /\ q.start = "smemuse" /\ q.m_state = "opcode_memuse_cycles" /\ q.word = i.v
        /\ q.category = p.category /\ q.mnemo = p.mnemo
        /\ q.op.memaccess = p.op.memaccess /\ q.op.opcode = p.op.opcode /\ q.op.size_B = p.op.size_B
        /\ q.list = p.list
    BY <1>1, <1>4, <1>5, <2>1, <2>2, <2>3, <2>4 DEF get_opcode_cycles, Goto, ParserType, OpType, MnemonicType
  <2>6. <<m, q.start, q.m_state>> = <<"size", "smemuse", "opcode_memuse_cycles">>
    BY <2>1, <2>5
  <2>7. <<m, q.start, q.m_state>> \in Stands
    BY <2>6 DEF Stands
  <2> QED BY <2>1, <2>5, <2>7
<1>31. CASE <<l, i.k, m>> = <<"size", "eol", "next">>
  <2>1. l = "size" /\ i.k = "eol" /\ m = "next"
    BY <1>31
  <2>2. p.start = "smemuse" /\ p.m_state = "opcode_memuse_cycles"
    BY <2>1, StandsIs
  <2>3. Given(p, i).token = "EOL" /\ Given(p, i).next = "INITIAL"
    <3>1. <<"smemuse", "eol", "EOL", "INITIAL">> \in Rules
      BY DEF Rules, FixedRules
    <3>2. yylex("smemuse", "eol").token = "EOL" /\ yylex("smemuse", "eol").next = "INITIAL"
      BY <3>1, Lexed
    <3> QED BY <2>1, <2>2, <3>2 DEF Given
  <2>4. q = get_opcode_cycles(s, "EOL")
    BY <1>1, <1>3, <2>2, <2>3 DEF Dispatch
  <2>5. /\ ~q.thrown /\ q.start = "INITIAL" /\ q.m_state = "opcode_memuse_next" /\ q.word = i.v
        /\ q.category = p.category /\ q.mnemo.mnemonic = p.mnemo.mnemonic /\ q.mnemo.category = p.mnemo.category /\ q.mnemo.ops = Append(p.mnemo.ops, p.op)
        /\ q.op.memaccess = p.op.memaccess /\ q.op.opcode = p.op.opcode /\ q.op.size_B = p.op.size_B
        /\ q.list = p.list
    <3> DEFINE next == Goto(s, "opcode_memuse_next")
    <3>1. next \in ParserType(V) /\ next.mnemo = p.mnemo /\ next.op = p.op /\ next.start = s.start
          /\ next.m_state = "opcode_memuse_next" /\ next.word = s.word /\ next.category = p.category
          /\ next.list = p.list /\ ~next.thrown
      BY <1>1 DEF Goto, ParserType, States
    <3>2. q = [next EXCEPT !.mnemo.ops = Append(@, s.op)]
      BY <2>4 DEF get_opcode_cycles
    <3>3. next.mnemo \in MnemonicType(V)
      BY <1>1, <1>4, <3>1
    <3> HIDE DEF next
    <3>4. /\ q.start = next.start /\ q.m_state = next.m_state /\ q.word = next.word
          /\ q.category = next.category /\ q.list = next.list /\ q.thrown = next.thrown /\ q.op = next.op
          /\ q.mnemo = [next.mnemo EXCEPT !.ops = Append(@, s.op)]
      BY <3>1, <3>2 DEF ParserType
    <3>5. /\ q.mnemo.mnemonic = next.mnemo.mnemonic /\ q.mnemo.category = next.mnemo.category
          /\ q.mnemo.ops = Append(next.mnemo.ops, s.op)
      BY <3>3, <3>4 DEF MnemonicType
    <3> QED BY <1>1, <2>1, <2>2, <2>3, <3>1, <3>4, <3>5
  <2>6. <<m, q.start, q.m_state>> = <<"next", "INITIAL", "opcode_memuse_next">>
    BY <2>1, <2>5
  <2>7. <<m, q.start, q.m_state>> \in Stands
    BY <2>6 DEF Stands
  <2> QED BY <2>1, <2>5, <2>7
<1>32. CASE <<l, i.k, m>> = <<"next", "flags", "flags">>
  <2>1. l = "next" /\ i.k = "flags" /\ m = "flags"
    BY <1>32
  <2>2. p.start = "INITIAL" /\ p.m_state = "opcode_memuse_next"
    BY <2>1, StandsIs
  <2>3. Given(p, i).token = "FLAGS" /\ Given(p, i).next = "sflags"
    <3>1. <<"INITIAL", "flags", "FLAGS", "sflags">> \in Rules
      BY DEF Rules, FixedRules
    <3>2. yylex("INITIAL", "flags").token = "FLAGS" /\ yylex("INITIAL", "flags").next = "sflags"
      BY <3>1, Lexed
    <3> QED BY <2>1, <2>2, <3>2 DEF Given
  <2>4. q = memuse_next_state(s, "FLAGS", v)
    BY <1>1, <1>3, <2>2, <2>3 DEF Dispatch
  <2>5. /\ ~q.thrown /\ q.start = "sflags" /\ q.m_state = "opcode_flags" /\ q.word = i.v
        /\ q.category = p.category /\ q.mnemo = p.mnemo
        /\ q.op.memaccess = p.op.memaccess /\ q.op.opcode = p.op.opcode /\ q.op.size_B = p.op.size_B
        /\ q.list = p.list
    BY <1>1, <1>4, <1>5, <2>1, <2>2, <2>3, <2>4 DEF memuse_next_state, Goto, ParserType, OpType, MnemonicType
  <2>6. <<m, q.start, q.m_state>> = <<"flags", "sflags", "opcode_flags">>
    BY <2>1, <2>5
  <2>7. <<m, q.start, q.m_state>> \in Stands
    BY <2>6 DEF Stands
  <2> QED BY <2>1, <2>5, <2>7
<1>33. CASE <<l, i.k, m>> = <<"flags", "flag", "flags">>
  <2>1. l = "flags" /\ i.k = "flag" /\ m = "flags"
    BY <1>33
  <2>2. p.start = "sflags" /\ p.m_state = "opcode_flags"
    BY <2>1, StandsIs
  <2>3. Given(p, i).token = "" /\ Given(p, i).next = "sflags"
    BY <2>1, <2>2, Echoed DEF Given
  <2>4. q = s
    BY <1>2, <2>3
  <2>5. <<m, q.start, q.m_state>> = <<"flags", "sflags", "opcode_flags">>
    BY <1>1, <2>1, <2>2, <2>3, <2>4
  <2> QED BY <1>1, <2>1, <2>4, <2>5 DEF Stands
<1>34. CASE <<l, i.k, m>> = <<"flags", "eol", "ended">>
  <2>1. l = "flags" /\ i.k = "eol" /\ m = "ended"
    BY <1>34
  <2>2. p.start = "sflags" /\ p.m_state = "opcode_flags"
    BY <2>1, StandsIs
  <2>3. Given(p, i).token = "EOL" /\ Given(p, i).next = "INITIAL"
    <3>1. <<"sflags", "eol", "EOL", "INITIAL">> \in Rules
      BY DEF Rules, FixedRules
    <3>2. yylex("sflags", "eol").token = "EOL" /\ yylex("sflags", "eol").next = "INITIAL"
      BY <3>1, Lexed
    <3> QED BY <2>1, <2>2, <3>2 DEF Given
  <2>4. q = get_active_flags(s, "EOL")
    BY <1>1, <1>3, <2>2, <2>3 DEF Dispatch
  <2>5. /\ ~q.thrown /\ q.start = "INITIAL" /\ q.m_state = "opcode_flags" /\ q.word = i.v
        /\ q.category = p.category /\ q.mnemo = p.mnemo
        /\ q.op.memaccess = p.op.memaccess /\ q.op.opcode = p.op.opcode /\ q.op.size_B = p.op.size_B
        /\ q.list = p.list
    BY <1>1, <1>4, <1>5, <2>1, <2>2, <2>3, <2>4 DEF get_active_flags, Goto, ParserType, OpType, MnemonicType
  <2>6. <<m, q.start, q.m_state>> = <<"ended", "INITIAL", "opcode_flags">>
    BY <2>1, <2>5
  <2>7. <<m, q.start, q.m_state>> \in Stands
    BY <2>6 DEF Stands
  <2> QED BY <2>1, <2>5, <2>7
<1>35. CASE <<l, i.k, m>> = <<"next", "description", "description">>
  <2>1. l = "next" /\ i.k = "description" /\ m = "description"
    BY <1>35
  <2>2. p.start = "INITIAL" /\ p.m_state = "opcode_memuse_next"
    BY <2>1, StandsIs
  <2>3. Given(p, i).token = "DESCRIPTION" /\ Given(p, i).next = "sdescription"
    <3>1. <<"INITIAL", "description", "DESCRIPTION", "sdescription">> \in Rules
      BY DEF Rules, FixedRules
    <3>2. yylex("INITIAL", "description").token = "DESCRIPTION" /\ yylex("INITIAL", "description").next = "sdescription"
      BY <3>1, Lexed
    <3> QED BY <2>1, <2>2, <3>2 DEF Given
  <2>4. q = memuse_next_state(s, "DESCRIPTION", v)
    BY <1>1, <1>3, <2>2, <2>3 DEF Dispatch
  <2>5. /\ ~q.thrown /\ q.start = "sdescription" /\ q.m_state = "opcode_description" /\ q.word = i.v
        /\ q.category = p.category /\ q.mnemo = p.mnemo
        /\ q.op.memaccess = p.op.memaccess /\ q.op.opcode = p.op.opcode /\ q.op.size_B = p.op.size_B
        /\ q.list = p.list
    BY <1>1, <1>4, <1>5, <2>1, <2>2, <2>3, <2>4 DEF memuse_next_state, Goto, ParserType, OpType, MnemonicType
  <2>6. <<m, q.start, q.m_state>> = <<"description", "sdescription", "opcode_description">>
    BY <2>1, <2>5
  <2>7. <<m, q.start, q.m_state>> \in Stands
    BY <2>6 DEF Stands
  <2> QED BY <2>1, <2>5, <2>7
<1>36. CASE <<l, i.k, m>> = <<"ended", "description", "description">>
  <2>1. l = "ended" /\ i.k = "description" /\ m = "description"
    BY <1>36
  <2>2. p.start = "INITIAL" /\ p.m_state = "opcode_flags"
    BY <2>1, StandsIs
  <2>3. Given(p, i).token = "DESCRIPTION" /\ Given(p, i).next = "sdescription"
    <3>1. <<"INITIAL", "description", "DESCRIPTION", "sdescription">> \in Rules
      BY DEF Rules, FixedRules
    <3>2. yylex("INITIAL", "description").token = "DESCRIPTION" /\ yylex("INITIAL", "description").next = "sdescription"
      BY <3>1, Lexed
    <3> QED BY <2>1, <2>2, <3>2 DEF Given
  <2>4. q = get_active_flags(s, "DESCRIPTION")
    BY <1>1, <1>3, <2>2, <2>3 DEF Dispatch
  <2>5. /\ ~q.thrown /\ q.start = "sdescription" /\ q.m_state = "opcode_description" /\ q.word = i.v
        /\ q.category = p.category /\ q.mnemo = p.mnemo
        /\ q.op.memaccess = p.op.memaccess /\ q.op.opcode = p.op.opcode /\ q.op.size_B = p.op.size_B
        /\ q.list = p.list
    BY <1>1, <1>4, <1>5, <2>1, <2>2, <2>3, <2>4 DEF get_active_flags, Goto, ParserType, OpType, MnemonicType
  <2>6. <<m, q.start, q.m_state>> = <<"description", "sdescription", "opcode_description">>
    BY <2>1, <2>5
  <2>7. <<m, q.start, q.m_state>> \in Stands
    BY <2>6 DEF Stands
  <2> QED BY <2>1, <2>5, <2>7
<1>37. CASE <<l, i.k, m>> = <<"description", "phrase", "description">>
  <2>1. l = "description" /\ i.k = "phrase" /\ m = "description"
    BY <1>37
  <2>2. p.start = "sdescription" /\ p.m_state = "opcode_description"
    BY <2>1, StandsIs
  <2>3. Given(p, i).token = "" /\ Given(p, i).next = "sdescription"
    BY <2>1, <2>2, Echoed DEF Given
  <2>4. q = s
    BY <1>2, <2>3
  <2>5. <<m, q.start, q.m_state>> = <<"description", "sdescription", "opcode_description">>
    BY <1>1, <2>1, <2>2, <2>3, <2>4
  <2> QED BY <1>1, <2>1, <2>4, <2>5 DEF Stands
<1>38. CASE <<l, i.k, m>> = <<"description", "eol", "section">>
  <2>1. l = "description" /\ i.k = "eol" /\ m = "section"
    BY <1>38
  <2>2. p.start = "sdescription" /\ p.m_state = "opcode_description"
    BY <2>1, StandsIs
  <2>3. Given(p, i).token = "DESCRIPTION_TXT" /\ Given(p, i).next = "INITIAL"
    <3>1. <<"sdescription", "eol", "DESCRIPTION_TXT", "INITIAL">> \in Rules
      BY DEF Rules, FixedRules
    <3>2. yylex("sdescription", "eol").token = "DESCRIPTION_TXT" /\ yylex("sdescription", "eol").next = "INITIAL"
      BY <3>1, Lexed
    <3> QED BY <2>1, <2>2, <3>2 DEF Given
  <2>4. q = get_description(s, "DESCRIPTION_TXT")
    BY <1>1, <1>3, <2>2, <2>3 DEF Dispatch
  <2>5. /\ ~q.thrown /\ q.start = "INITIAL" /\ q.m_state = "get_new_element" /\ q.word = i.v
        /\ q.category = p.category /\ q.mnemo = p.mnemo
        /\ q.op.memaccess = p.op.memaccess /\ q.op.opcode = p.op.opcode /\ q.op.size_B = p.op.size_B
        /\ q.list = Append(p.list, p.mnemo)
    BY <1>1, <1>4, <1>5, <2>1, <2>2, <2>3, <2>4 DEF get_description, Goto, ParserType, OpType, MnemonicType
  <2>6. <<m, q.start, q.m_state>> = <<"section", "INITIAL", "get_new_element">>
    BY <2>1, <2>5
  <2>7. <<m, q.start, q.m_state>> \in Stands
    BY <2>6 DEF Stands
  <2> QED BY <2>1, <2>5, <2>7
<1> QED
  BY <1>11, <1>12, <1>13, <1>14, <1>15, <1>16, <1>17, <1>18, <1>19, <1>20, <1>21, <1>22, <1>23, <1>24, <1>25, <1>26, <1>27, <1>28, <1>29, <1>30, <1>31, <1>32, <1>33, <1>34, <1>35, <1>36, <1>37, <1>38, Zenon DEF Spelling

(* The places where any word may stand, and those outside a mnemonic.       *)
Loose == {"remark", "description"}
Outside == {"section", "remark", "title"}

(* What the places around an item tell of it.                               *)
LEMMA SpellingTells ==
  ASSUME NEW l, NEW k, NEW m, <<l, k, m>> \in Spelling
  PROVE  /\ k \in {"comment", "description"} => m \in Loose
         /\ l \in Loose /\ m \notin Loose => k = "eol"
         /\ k = "category" => l = "section"
         /\ k = "flags" => (l = "section" /\ m = "title") \/ (l = "next" /\ m = "flags")
         /\ m = "title" => k = "flags"
         /\ k = "opcode" => l = "section" /\ m = "opcode"
         /\ m = "opcode" => k = "opcode"
         /\ k = "description" => m = "description"
         /\ m \in Outside => l \in Outside \cup {"description"}
         /\ m = "description" => l = "description" \/ k = "description"
         /\ m \notin Outside \cup {"description"} => k = "opcode" \/ l \notin Outside \cup {"description"}
         /\ k = "word" => l = "opcode" /\ m = "name"
         /\ k = "byte" => l = "code" /\ m = "byte"
         /\ l # "name" /\ k = "eol" => m \in {"section", "next", "ended"}
<1>1. CASE <<l, k, m>> = <<"section", "eol", "section">>
  <2>1. l = "section" /\ k = "eol" /\ m = "section"
    BY <1>1
  <2> QED BY <2>1 DEF Loose, Outside
<1>2. CASE <<l, k, m>> = <<"section", "comment", "remark">>
  <2>1. l = "section" /\ k = "comment" /\ m = "remark"
    BY <1>2
  <2> QED BY <2>1 DEF Loose, Outside
<1>3. CASE <<l, k, m>> = <<"remark", "eol", "section">>
  <2>1. l = "remark" /\ k = "eol" /\ m = "section"
    BY <1>3
  <2> QED BY <2>1 DEF Loose, Outside
<1>4. CASE <<l, k, m>> = <<"section", "category", "section">>
  <2>1. l = "section" /\ k = "category" /\ m = "section"
    BY <1>4
  <2> QED BY <2>1 DEF Loose, Outside
<1>5. CASE <<l, k, m>> = <<"section", "flags", "title">>
  <2>1. l = "section" /\ k = "flags" /\ m = "title"
    BY <1>5
  <2> QED BY <2>1 DEF Loose, Outside
<1>6. CASE <<l, k, m>> = <<"title", "eol", "section">>
  <2>1. l = "title" /\ k = "eol" /\ m = "section"
    BY <1>6
  <2> QED BY <2>1 DEF Loose, Outside
<1>7. CASE <<l, k, m>> = <<"section", "opcode", "opcode">>
  <2>1. l = "section" /\ k = "opcode" /\ m = "opcode"
    BY <1>7
  <2> QED BY <2>1 DEF Loose, Outside
<1>8. CASE <<l, k, m>> = <<"opcode", "word", "name">>
  <2>1. l = "opcode" /\ k = "word" /\ m = "name"
    BY <1>8
  <2> QED BY <2>1 DEF Loose, Outside
<1>9. CASE <<l, k, m>> = <<"name", "eol", "first">>
  <2>1. l = "name" /\ k = "eol" /\ m = "first"
    BY <1>9
  <2> QED BY <2>1 DEF Loose, Outside
<1>10. CASE <<l, k, m>> = <<"first", "mode", "mode">>
  <2>1. l = "first" /\ k = "mode" /\ m = "mode"
    BY <1>10
  <2> QED BY <2>1 DEF Loose, Outside
<1>11. CASE <<l, k, m>> = <<"next", "mode", "mode">>
  <2>1. l = "next" /\ k = "mode" /\ m = "mode"
    BY <1>11
  <2> QED BY <2>1 DEF Loose, Outside
<1>12. CASE <<l, k, m>> = <<"mode", "semi", "call">>
  <2>1. l = "mode" /\ k = "semi" /\ m = "call"
    BY <1>12
  <2> QED BY <2>1 DEF Loose, Outside
<1>13. CASE <<l, k, m>> = <<"call", "numbered", "called">>
  <2>1. l = "call" /\ k = "numbered" /\ m = "called"
    BY <1>13
  <2> QED BY <2>1 DEF Loose, Outside
<1>14. CASE <<l, k, m>> = <<"call", "bare", "called">>
  <2>1. l = "call" /\ k = "bare" /\ m = "called"
    BY <1>14
  <2> QED BY <2>1 DEF Loose, Outside
<1>15. CASE <<l, k, m>> = <<"called", "semi", "code">>
  <2>1. l = "called" /\ k = "semi" /\ m = "code"
    BY <1>15
  <2> QED BY <2>1 DEF Loose, Outside
<1>16. CASE <<l, k, m>> = <<"code", "byte", "byte">>
  <2>1. l = "code" /\ k = "byte" /\ m = "byte"
    BY <1>16
  <2> QED BY <2>1 DEF Loose, Outside
<1>17. CASE <<l, k, m>> = <<"byte", "semi", "byte">>
  <2>1. l = "byte" /\ k = "semi" /\ m = "byte"
    BY <1>17
  <2> QED BY <2>1 DEF Loose, Outside
<1>18. CASE <<l, k, m>> = <<"byte", "number", "size">>
  <2>1. l = "byte" /\ k = "number" /\ m = "size"
    BY <1>18
  <2> QED BY <2>1 DEF Loose, Outside
<1>19. CASE <<l, k, m>> = <<"size", "semi", "size">>
  <2>1. l = "size" /\ k = "semi" /\ m = "size"
    BY <1>19
  <2> QED BY <2>1 DEF Loose, Outside
<1>20. CASE <<l, k, m>> = <<"size", "number", "size">>
  <2>1. l = "size" /\ k = "number" /\ m = "size"
    BY <1>20
  <2> QED BY <2>1 DEF Loose, Outside
<1>21. CASE <<l, k, m>> = <<"size", "eol", "next">>
  <2>1. l = "size" /\ k = "eol" /\ m = "next"
    BY <1>21
  <2> QED BY <2>1 DEF Loose, Outside
<1>22. CASE <<l, k, m>> = <<"next", "flags", "flags">>
  <2>1. l = "next" /\ k = "flags" /\ m = "flags"
    BY <1>22
  <2> QED BY <2>1 DEF Loose, Outside
<1>23. CASE <<l, k, m>> = <<"flags", "flag", "flags">>
  <2>1. l = "flags" /\ k = "flag" /\ m = "flags"
    BY <1>23
  <2> QED BY <2>1 DEF Loose, Outside
<1>24. CASE <<l, k, m>> = <<"flags", "eol", "ended">>
  <2>1. l = "flags" /\ k = "eol" /\ m = "ended"
    BY <1>24
  <2> QED BY <2>1 DEF Loose, Outside
<1>25. CASE <<l, k, m>> = <<"next", "description", "description">>
  <2>1. l = "next" /\ k = "description" /\ m = "description"
    BY <1>25
  <2> QED BY <2>1 DEF Loose, Outside
<1>26. CASE <<l, k, m>> = <<"ended", "description", "description">>
  <2>1. l = "ended" /\ k = "description" /\ m = "description"
    BY <1>26
  <2> QED BY <2>1 DEF Loose, Outside
<1>27. CASE <<l, k, m>> = <<"description", "phrase", "description">>
  <2>1. l = "description" /\ k = "phrase" /\ m = "description"
    BY <1>27
  <2> QED BY <2>1 DEF Loose, Outside
<1>28. CASE <<l, k, m>> = <<"description", "eol", "section">>
  <2>1. l = "description" /\ k = "eol" /\ m = "section"
    BY <1>28
  <2> QED BY <2>1 DEF Loose, Outside
<1> QED
  BY <1>1, <1>2, <1>3, <1>4, <1>5, <1>6, <1>7, <1>8, <1>9, <1>10, <1>11, <1>12, <1>13, <1>14, <1>15, <1>16, <1>17, <1>18, <1>19, <1>20, <1>21, <1>22, <1>23, <1>24, <1>25, <1>26, <1>27, <1>28, Zenon DEF Spelling

(* One mnemonic too many kills upernes.                                     *)
LEMMA SpeltLost ==
  ASSUME NEW V, NEW p \in ParserType(V), ~p.thrown, NEW i, i.k \in Kinds, i.v \in V,
         OperandByte \in V, NEW l, NEW m, l = "description" /\ m = "section",
         <<l, i.k, m>> \in Spelling, <<l, p.start, p.m_state>> \in Stands,
         Len(p.list) + 1 >= MAXMNEMONICS
  PROVE  Read(p, i).thrown /\ Read(p, i).why = "assertion"
<1> DEFINE s == Shifted(p, i)
<1>1. i.k = "eol"
  BY SpellingTells DEF Loose
<1>2. p.start = "sdescription" /\ p.m_state = "opcode_description"
  BY StandsIs
<1>3. Given(p, i).token = "DESCRIPTION_TXT"
  <2>1. <<"sdescription", "eol", "DESCRIPTION_TXT", "INITIAL">> \in Rules
    BY DEF Rules, FixedRules
  <2>2. yylex("sdescription", "eol").token = "DESCRIPTION_TXT"
    BY <2>1, Lexed
  <2> QED BY <1>1, <1>2, <2>2 DEF Given
<1>4. s \in ParserType(V) /\ s.m_state = p.m_state /\ s.list = p.list
  BY ShiftedIs
<1>5. Read(p, i) = Dispatch(s, "DESCRIPTION_TXT", ValueOf(p, i))
  BY <1>3, ReadIs
<1> HIDE DEF s
<1>6. Read(p, i) = get_description(s, "DESCRIPTION_TXT")
  BY <1>2, <1>4, <1>5 DEF Dispatch
<1>7. Read(p, i) = Lost(s, "assertion")
  BY <1>4, <1>6 DEF get_description
<1> QED BY <1>4, <1>7 DEF Lost, ParserType

(* The items of some kinds before an item, and the last of them.            *)
LEMMA BeforeStep ==
  ASSUME NEW doc, NEW m \in Nat \ {0}, NEW S
  PROVE  /\ doc[m].k \notin S => Before(doc, m + 1, S) = Before(doc, m, S)
         /\ doc[m].k \in S => Before(doc, m + 1, S) # {} /\ Last(Before(doc, m + 1, S)) = m
         /\ Before(doc, m, S) \in SUBSET (0 .. m)
<1>1. 1 .. ((m + 1) - 1) = (1 .. (m - 1)) \cup {m}
  OBVIOUS
<1>2. ASSUME doc[m].k \notin S
      PROVE  Before(doc, m + 1, S) = Before(doc, m, S)
  BY <1>1, <1>2 DEF Before
<1>3. ASSUME doc[m].k \in S
      PROVE  Before(doc, m + 1, S) # {} /\ Last(Before(doc, m + 1, S)) = m
  <2> DEFINE T == Before(doc, m + 1, S)
  <2>1. m \in T /\ T \in SUBSET (0 .. m)
    BY <1>1, <1>3 DEF Before
  <2> HIDE DEF T
  <2>2. Last(T) \in T /\ \A q \in T : q <= Last(T)
    BY <2>1, LastIs
  <2>3. Last(T) \in 0 .. m /\ m <= Last(T)
    BY <2>1, <2>2
  <2>4. Last(T) = m
    BY <2>3
  <2> QED BY <2>1, <2>4 DEF T
<1>4. Before(doc, m, S) \in SUBSET (0 .. m)
  BY DEF Before
<1> QED BY <1>2, <1>3, <1>4

(* The last line of a remark or of a description has ended.                 *)
Closed(doc, n) ==
   \A q \in 1 .. n : doc[q].k \in {"comment", "description"} => \E e \in q .. n : doc[e].k = "eol"
(* The last of the headers and descriptions of the mnemonics.               *)
LastMark(doc, n) == doc[Last(Before(doc, n + 1, {"opcode", "description"}))].k
Marks(doc, at, n) ==
   LET none == Before(doc, n + 1, {"opcode", "description"}) = {} IN
   IF at[n] \in Outside THEN none \/ LastMark(doc, n) = "description"
   ELSE ~none /\ (at[n] = "description" \/ LastMark(doc, n) = "opcode")

(* They hold after every item of a text that is spelt.                      *)
LEMMA SpeltMarks ==
  ASSUME NEW doc, IsText(doc), NEW at, Spelt(doc, at)
  PROVE  \A n \in 0 .. Len(doc) : (at[n] \notin Loose => Closed(doc, n)) /\ Marks(doc, at, n)
<1> DEFINE L == Len(doc)
           Right(n) == (at[n] \notin Loose => Closed(doc, n))
                      /\ (at[n] = "description" => LastMark(doc, n) = "description")
                      /\ Marks(doc, at, n)
           S == {n \in Nat : n <= L => Right(n)}
<1>1. L \in Nat /\ \A n \in 1 .. L : <<at[n - 1], doc[n].k, at[n]>> \in Spelling
  BY DEF IsText, Spelt
<1>2. 0 \in S
  <2>1. at[0] = "section" /\ Closed(doc, 0) /\ Before(doc, 0 + 1, {"opcode", "description"}) = {}
    BY DEF Spelt, Closed, Before
  <2> QED BY <2>1 DEF Marks, Outside
<1>3. ASSUME NEW n \in Nat, n \in S
      PROVE  n + 1 \in S
  <2> SUFFICES ASSUME n + 1 <= L
               PROVE  Right(n + 1)
    OBVIOUS
  <2> DEFINE l == at[n]
             k == doc[n + 1].k
             m == at[n + 1]
             D == {"opcode", "description"}
  <2>1. n + 1 \in 1 .. L /\ (n + 1) - 1 = n /\ n <= L
    BY <1>1
  <2>2. <<l, k, m>> \in Spelling
    BY <1>1, <2>1
  <2>3. Right(n)
    BY <1>3, <2>1
  <2> HIDE DEF l, k, m, Right
  <2>4. ASSUME m \notin Loose
        PROVE  Closed(doc, n + 1)
    <3> SUFFICES ASSUME NEW q \in 1 .. n + 1, doc[q].k \in {"comment", "description"}
                 PROVE  \E e \in q .. n + 1 : doc[e].k = "eol"
      BY DEF Closed
    <3>1. q # n + 1
      BY <2>2, <2>4, SpellingTells DEF k
    <3>2. q \in 1 .. n /\ n + 1 \in q .. n + 1 /\ q .. n \subseteq q .. n + 1
      BY <3>1
    <3>3. CASE l \in Loose
      <4>1. doc[n + 1].k = "eol"
        BY <2>2, <2>4, <3>3, SpellingTells DEF k
      <4> QED BY <3>2, <4>1
    <3>4. CASE l \notin Loose
      <4>1. \E e \in q .. n : doc[e].k = "eol"
        BY <2>3, <3>2, <3>4 DEF Right, Closed, l
      <4> QED BY <3>2, <4>1
    <3> QED BY <3>3, <3>4
  <2>5. /\ k \notin D => Before(doc, (n + 1) + 1, D) = Before(doc, n + 1, D)
        /\ k \in D => /\ Before(doc, (n + 1) + 1, D) # {}
                      /\ Last(Before(doc, (n + 1) + 1, D)) = n + 1
    <3>1. n + 1 \in Nat \ {0}
      OBVIOUS
    <3> HIDE DEF D
    <3> QED BY <3>1, BeforeStep DEF k
  <2>6. (m = "description" => LastMark(doc, n + 1) = "description") /\ Marks(doc, at, n + 1)
    <3>1. /\ l = "description" => LastMark(doc, n) = "description" /\ Before(doc, n + 1, D) # {}
          /\ l \in Outside => Before(doc, n + 1, D) = {} \/ LastMark(doc, n) = "description"
          /\ l \notin Outside \cup {"description"} => Before(doc, n + 1, D) # {} /\ LastMark(doc, n) = "opcode"
      BY <2>3 DEF Right, Marks, l, Outside
    <3>2. CASE k \in D
      <4>1. Before(doc, (n + 1) + 1, D) # {} /\ LastMark(doc, n + 1) = k
        BY <2>5, <3>2 DEF LastMark, k
      <4>2. (k = "opcode" /\ m = "opcode") \/ (k = "description" /\ m = "description")
        BY <2>2, <3>2, SpellingTells
      <4> QED BY <4>1, <4>2 DEF Marks, m, Outside
    <3>3. CASE k \notin D
      <4>1. Before(doc, (n + 1) + 1, D) = Before(doc, n + 1, D) /\ LastMark(doc, n + 1) = LastMark(doc, n)
        BY <2>5, <3>3 DEF LastMark
      <4>2. /\ m \in Outside => l \in Outside \cup {"description"}
            /\ m = "description" => l = "description"
            /\ m \notin Outside \cup {"description"} => l \notin Outside \cup {"description"}
        BY <2>2, <3>3, SpellingTells
      <4> HIDE DEF D
      <4> QED BY <3>1, <4>1, <4>2 DEF Marks, m, Outside, D
    <3> QED BY <3>2, <3>3
  <2> QED BY <2>4, <2>6 DEF Right, m
<1>4. ASSUME NEW n \in 0 .. L PROVE Right(n)
  <2>1. n \in Nat /\ n <= L
    BY <1>1
  <2> HIDE DEF S, Right
  <2>2. n \in S
    BY <1>2, <1>3, <2>1, SetInduction
  <2> QED BY <2>1, <2>2 DEF S
<1> QED BY <1>4

(* An item that follows no remark nor description stands in none.           *)
LEMMA SpeltPlain ==
  ASSUME NEW doc, IsText(doc), NEW at, Spelt(doc, at), NEW p \in 1 .. Len(doc), at[p - 1] \notin Loose
  PROVE  Plain(doc, p)
<1>1. Len(doc) \in Nat /\ p - 1 \in 0 .. Len(doc)
  BY DEF IsText
<1>2. Closed(doc, p - 1)
  BY <1>1, SpeltMarks
<1> SUFFICES ASSUME NEW q \in 1 .. (p - 1), doc[q].k \in {"comment", "description"}
             PROVE  ~SameLine(doc, q, p)
  BY DEF Plain
<1>3. PICK e \in q .. (p - 1) : doc[e].k = "eol"
  BY <1>2 DEF Closed
<1>4. e \in q .. p
  BY <1>1, <1>3
<1> QED BY <1>3, <1>4 DEF SameLine

(* The headers of the categories; the words and the bytes are as they look. *)
LEMMA SpeltHeaders ==
  ASSUME NEW doc, IsText(doc), NEW at, Spelt(doc, at), NEW p \in 1 .. Len(doc)
  PROVE  /\ p \in Headers(doc) <=> doc[p].k = "category" \/ (doc[p].k = "flags" /\ at[p] = "title")
         /\ doc[p].k \in {"word", "byte"} => Plain(doc, p)
<1> DEFINE l == at[p - 1]
           k == doc[p].k
           above == {q \in Before(doc, p, {"opcode", "description"}) :
                       doc[q].k = "description" \/ Plain(doc, q)}
<1>1. Len(doc) \in Nat /\ DOMAIN doc = 1 .. Len(doc) /\ p - 1 \in 0 .. Len(doc) /\ (p - 1) + 1 = p
  BY DEF IsText
<1>2. <<l, k, at[p]>> \in Spelling
  BY DEF Spelt
<1>3. above = Before(doc, p, {"opcode", "description"})
  <2> SUFFICES ASSUME NEW q \in Before(doc, p, {"opcode", "description"}), doc[q].k = "opcode"
               PROVE  Plain(doc, q)
    BY DEF Before
  <2>1. q \in 1 .. Len(doc)
    BY <1>1 DEF Before
  <2>2. <<at[q - 1], doc[q].k, at[q]>> \in Spelling
    BY <2>1 DEF Spelt
  <2>3. at[q - 1] = "section"
    BY <2>2, SpellingTells
  <2> QED BY <2>1, <2>3, SpeltPlain DEF Loose
<1>4. k \in {"word", "byte", "category", "flags"} => Plain(doc, p)
  <2>1. k \in {"word", "byte", "category", "flags"} => l \in {"opcode", "code", "section", "next"}
    BY <1>2, SpellingTells
  <2> QED BY <2>1, SpeltPlain DEF Loose
<1>5. Marks(doc, at, p - 1)
  BY <1>1, SpeltMarks
<1>6. Before(doc, (p - 1) + 1, {"opcode", "description"}) = above
  BY <1>1, <1>3
<1> HIDE DEF above
<1>7. l = "section" => above = {} \/ doc[Last(above)].k = "description"
  BY <1>5, <1>6 DEF Marks, LastMark, Outside
<1>8. l = "next" => above # {} /\ doc[Last(above)].k = "opcode"
  BY <1>5, <1>6 DEF Marks, LastMark, Outside
<1>9. p \in Headers(doc) <=> /\ k \in {"category", "flags"} /\ Plain(doc, p)
                             /\ above = {} \/ doc[Last(above)].k = "description"
  BY <1>1 DEF Headers, above
<1> HIDE DEF l, k
<1>10. /\ k = "category" => l = "section"
       /\ k = "flags" => (l = "section" /\ at[p] = "title") \/ (l = "next" /\ at[p] = "flags")
  BY <1>2, SpellingTells
<1> QED BY <1>4, <1>7, <1>8, <1>9, <1>10 DEF k

-----------------------------------------------------------------------------
(* The entries of a mnemonic; the lines of the first n items, as written.   *)
Entries(m) ==
   {Entry(m.ops[y].opcode, m.ops[y].memaccess, m.ops[y].size_B, m.mnemonic, m.category) : y \in DOMAIN m.ops}
Lines(doc, n) == {LineOf(doc, b) : b \in {c \in 1 .. n : doc[c].k = "byte"}}
Known(p) == SearchTable(p.list) \cup Entries(p.mnemo)
NoHeader(doc, n) == {q \in Headers(doc) : q < n} = {}
Above(doc, n, k) == Last(Before(doc, n, {k}))

(* The line being read: its opcode is item b.                               *)
OnLine(doc, at, n, p, b) ==
   LET e == LineOf(doc, b) IN
   /\ doc[b].k = "byte" /\ Known(p) \cup {e} = Lines(doc, n)
   /\ e.opcode = p.op.opcode /\ e.memaccess = p.op.memaccess
   /\ e.mnemonic = p.mnemo.mnemonic /\ e.category = p.mnemo.category
   /\ IF at[n] = "size" THEN e.size_B = p.op.size_B ELSE \A s \in b .. n : doc[s].k # "number"

(* The parser holds what is written above, and waits for what is to come.   *)
Bare == Outside \cup {"opcode", "name"}
Exact(doc, at, n, p) ==
   /\ ~p.thrown /\ <<at[n], p.start, p.m_state>> \in Stands
   /\ ~NoHeader(doc, n + 1) => p.category = CategoryAbove(doc, n + 1)
   /\ at[n] \in {"opcode", "name"} => p.category = CategoryAbove(doc, n + 1)
   /\ at[n] = "name" => n > 0 /\ doc[n].k = "word" /\ p.word = doc[n].v
   /\ at[n] \notin Bare \cup {"flags", "ended", "description"} =>
         LET w == Above(doc, n + 1, "word")
         IN p.mnemo.mnemonic = doc[w].v /\ p.mnemo.category = CategoryAbove(doc, w)
   /\ at[n] \in {"mode", "call", "called", "code"} =>
         p.op.memaccess = doc[Above(doc, n + 1, "mode")].v
   /\ at[n] \in Bare => Entries(p.mnemo) \subseteq SearchTable(p.list)
   /\ IF at[n] \in {"byte", "size"} THEN \E b \in 1 .. n : OnLine(doc, at, n, p, b)
      ELSE Known(p) = Lines(doc, n)

InLine == {"mode", "call", "called", "code", "byte", "size"}

(* The lines of the last mnemonic: those in its array, and the one being     *)
(* read.                                                                    *)
LastOpcode(doc, o, n) ==
   o \in 1 .. n /\ doc[o].k = "opcode" /\ \A c \in 1 .. n : o < c => doc[c].k # "opcode"
ModesTo(doc, o, n) == {m \in 1 .. n : o < m /\ doc[m].k = "mode"}
Counts(doc, at, n, p) ==
   at[n] \in InLine \cup {"opcode", "name", "first", "next"} =>
      \E o \in 1 .. n : /\ LastOpcode(doc, o, n)
                        /\ Cardinality(ModesTo(doc, o, n)) =
                              IF at[n] \in {"opcode", "name"} THEN 0
                              ELSE Len(p.mnemo.ops) + (IF at[n] \in InLine THEN 1 ELSE 0)

(* What follows an item: more of what the places say.                       *)
LEMMA PlacesTell ==
  ASSUME NEW l, NEW k, NEW m, <<l, k, m>> \in Spelling
  PROVE  /\ m = "first" => l = "name" /\ k = "eol"
         /\ m = "next" => l = "size" /\ k = "eol"
         /\ m = "name" => l = "opcode" /\ k = "word"
         /\ m = "mode" => k = "mode" /\ l \notin Bare \cup {"flags", "ended", "description"}
         /\ m \in {"call", "called", "code"} => l \in {"mode", "call", "called"} /\ k # "mode"
         /\ m = "byte" => (l = "code" /\ k = "byte") \/ (l = "byte" /\ k = "semi")
         /\ m = "size" => (l = "byte" /\ k = "number") \/ (l = "size" /\ k \in {"semi", "number"})
         /\ k = "byte" => m = "byte"
         /\ l = "description" => m \in {"description", "section"}
         /\ l \in {"byte", "size"} => m \in {"byte", "size", "next"}
         /\ m \in Bare => l \in Bare \/ (l = "description" /\ m = "section")
         /\ m \notin Bare \cup {"flags", "ended", "description"} =>
               m = "first" \/ (l \notin Bare \cup {"flags", "ended", "description"} /\ k # "word")
         /\ k = "mode" => m = "mode" /\ l \in {"first", "next"}
         /\ m \in InLine => k = "mode" \/ l \in InLine
<1>1. CASE <<l, k, m>> = <<"section", "eol", "section">>
  <2>1. l = "section" /\ k = "eol" /\ m = "section"
    BY <1>1
  <2> QED BY <2>1 DEF Bare, Outside, InLine
<1>2. CASE <<l, k, m>> = <<"section", "comment", "remark">>
  <2>1. l = "section" /\ k = "comment" /\ m = "remark"
    BY <1>2
  <2> QED BY <2>1 DEF Bare, Outside, InLine
<1>3. CASE <<l, k, m>> = <<"remark", "eol", "section">>
  <2>1. l = "remark" /\ k = "eol" /\ m = "section"
    BY <1>3
  <2> QED BY <2>1 DEF Bare, Outside, InLine
<1>4. CASE <<l, k, m>> = <<"section", "category", "section">>
  <2>1. l = "section" /\ k = "category" /\ m = "section"
    BY <1>4
  <2> QED BY <2>1 DEF Bare, Outside, InLine
<1>5. CASE <<l, k, m>> = <<"section", "flags", "title">>
  <2>1. l = "section" /\ k = "flags" /\ m = "title"
    BY <1>5
  <2> QED BY <2>1 DEF Bare, Outside, InLine
<1>6. CASE <<l, k, m>> = <<"title", "eol", "section">>
  <2>1. l = "title" /\ k = "eol" /\ m = "section"
    BY <1>6
  <2> QED BY <2>1 DEF Bare, Outside, InLine
<1>7. CASE <<l, k, m>> = <<"section", "opcode", "opcode">>
  <2>1. l = "section" /\ k = "opcode" /\ m = "opcode"
    BY <1>7
  <2> QED BY <2>1 DEF Bare, Outside, InLine
<1>8. CASE <<l, k, m>> = <<"opcode", "word", "name">>
  <2>1. l = "opcode" /\ k = "word" /\ m = "name"
    BY <1>8
  <2> QED BY <2>1 DEF Bare, Outside, InLine
<1>9. CASE <<l, k, m>> = <<"name", "eol", "first">>
  <2>1. l = "name" /\ k = "eol" /\ m = "first"
    BY <1>9
  <2> QED BY <2>1 DEF Bare, Outside, InLine
<1>10. CASE <<l, k, m>> = <<"first", "mode", "mode">>
  <2>1. l = "first" /\ k = "mode" /\ m = "mode"
    BY <1>10
  <2> QED BY <2>1 DEF Bare, Outside, InLine
<1>11. CASE <<l, k, m>> = <<"next", "mode", "mode">>
  <2>1. l = "next" /\ k = "mode" /\ m = "mode"
    BY <1>11
  <2> QED BY <2>1 DEF Bare, Outside, InLine
<1>12. CASE <<l, k, m>> = <<"mode", "semi", "call">>
  <2>1. l = "mode" /\ k = "semi" /\ m = "call"
    BY <1>12
  <2> QED BY <2>1 DEF Bare, Outside, InLine
<1>13. CASE <<l, k, m>> = <<"call", "numbered", "called">>
  <2>1. l = "call" /\ k = "numbered" /\ m = "called"
    BY <1>13
  <2> QED BY <2>1 DEF Bare, Outside, InLine
<1>14. CASE <<l, k, m>> = <<"call", "bare", "called">>
  <2>1. l = "call" /\ k = "bare" /\ m = "called"
    BY <1>14
  <2> QED BY <2>1 DEF Bare, Outside, InLine
<1>15. CASE <<l, k, m>> = <<"called", "semi", "code">>
  <2>1. l = "called" /\ k = "semi" /\ m = "code"
    BY <1>15
  <2> QED BY <2>1 DEF Bare, Outside, InLine
<1>16. CASE <<l, k, m>> = <<"code", "byte", "byte">>
  <2>1. l = "code" /\ k = "byte" /\ m = "byte"
    BY <1>16
  <2> QED BY <2>1 DEF Bare, Outside, InLine
<1>17. CASE <<l, k, m>> = <<"byte", "semi", "byte">>
  <2>1. l = "byte" /\ k = "semi" /\ m = "byte"
    BY <1>17
  <2> QED BY <2>1 DEF Bare, Outside, InLine
<1>18. CASE <<l, k, m>> = <<"byte", "number", "size">>
  <2>1. l = "byte" /\ k = "number" /\ m = "size"
    BY <1>18
  <2> QED BY <2>1 DEF Bare, Outside, InLine
<1>19. CASE <<l, k, m>> = <<"size", "semi", "size">>
  <2>1. l = "size" /\ k = "semi" /\ m = "size"
    BY <1>19
  <2> QED BY <2>1 DEF Bare, Outside, InLine
<1>20. CASE <<l, k, m>> = <<"size", "number", "size">>
  <2>1. l = "size" /\ k = "number" /\ m = "size"
    BY <1>20
  <2> QED BY <2>1 DEF Bare, Outside, InLine
<1>21. CASE <<l, k, m>> = <<"size", "eol", "next">>
  <2>1. l = "size" /\ k = "eol" /\ m = "next"
    BY <1>21
  <2> QED BY <2>1 DEF Bare, Outside, InLine
<1>22. CASE <<l, k, m>> = <<"next", "flags", "flags">>
  <2>1. l = "next" /\ k = "flags" /\ m = "flags"
    BY <1>22
  <2> QED BY <2>1 DEF Bare, Outside, InLine
<1>23. CASE <<l, k, m>> = <<"flags", "flag", "flags">>
  <2>1. l = "flags" /\ k = "flag" /\ m = "flags"
    BY <1>23
  <2> QED BY <2>1 DEF Bare, Outside, InLine
<1>24. CASE <<l, k, m>> = <<"flags", "eol", "ended">>
  <2>1. l = "flags" /\ k = "eol" /\ m = "ended"
    BY <1>24
  <2> QED BY <2>1 DEF Bare, Outside, InLine
<1>25. CASE <<l, k, m>> = <<"next", "description", "description">>
  <2>1. l = "next" /\ k = "description" /\ m = "description"
    BY <1>25
  <2> QED BY <2>1 DEF Bare, Outside, InLine
<1>26. CASE <<l, k, m>> = <<"ended", "description", "description">>
  <2>1. l = "ended" /\ k = "description" /\ m = "description"
    BY <1>26
  <2> QED BY <2>1 DEF Bare, Outside, InLine
<1>27. CASE <<l, k, m>> = <<"description", "phrase", "description">>
  <2>1. l = "description" /\ k = "phrase" /\ m = "description"
    BY <1>27
  <2> QED BY <2>1 DEF Bare, Outside, InLine
<1>28. CASE <<l, k, m>> = <<"description", "eol", "section">>
  <2>1. l = "description" /\ k = "eol" /\ m = "section"
    BY <1>28
  <2> QED BY <2>1 DEF Bare, Outside, InLine
<1> QED
  BY <1>1, <1>2, <1>3, <1>4, <1>5, <1>6, <1>7, <1>8, <1>9, <1>10, <1>11, <1>12, <1>13, <1>14, <1>15, <1>16, <1>17, <1>18, <1>19, <1>20, <1>21, <1>22, <1>23, <1>24, <1>25, <1>26, <1>27, <1>28, Zenon DEF Spelling

(* The table of a list, and of a list with a mnemonic more.                 *)
LEMMA TableOf ==
  ASSUME NEW list
  PROVE  SearchTable(list) = UNION {Entries(list[x]) : x \in DOMAIN list}
<1> DEFINE Of(a) == Entry(At(list, a).opcode, At(list, a).memaccess, At(list, a).size_B,
                          list[a[1]].mnemonic, list[a[1]].category)
           U == UNION {Entries(list[x]) : x \in DOMAIN list}
<1>1. ASSUME NEW e \in SearchTable(list)
      PROVE  e \in U
  <2>1. PICK a \in Places(list) : e = Of(a)
    BY DEF SearchTable
  <2>2. PICK x \in DOMAIN list : \E y \in DOMAIN list[x].ops : a = <<x, y>>
    BY DEF Places
  <2>3. PICK y \in DOMAIN list[x].ops : a = <<x, y>>
    BY <2>2
  <2>4. e \in Entries(list[x])
    BY <2>1, <2>3 DEF Entries, At
  <2> QED BY <2>4
<1>2. ASSUME NEW e \in U
      PROVE  e \in SearchTable(list)
  <2>1. PICK x \in DOMAIN list : e \in Entries(list[x])
    OBVIOUS
  <2>2. PICK y \in DOMAIN list[x].ops :
               e = Entry(list[x].ops[y].opcode, list[x].ops[y].memaccess, list[x].ops[y].size_B,
                         list[x].mnemonic, list[x].category)
    BY <2>1 DEF Entries
  <2>3. <<x, y>> \in Places(list)
    BY DEF Places
  <2>4. e = Of(<<x, y>>)
    BY <2>2 DEF At
  <2> HIDE DEF Of
  <2>5. \E a \in Places(list) : e = Of(a)
    BY <2>3, <2>4
  <2> QED BY <2>5 DEF SearchTable, Of
<1> QED BY <1>1, <1>2

(* One mnemonic more.                                                       *)
LEMMA TableGrows ==
  ASSUME NEW T, NEW list \in Seq(T), NEW m \in T
  PROVE  SearchTable(Append(list, m)) = SearchTable(list) \cup Entries(m)
<1> DEFINE more == Append(list, m)
<1>1. DOMAIN more = DOMAIN list \cup {Len(list) + 1} /\ more[Len(list) + 1] = m
      /\ \A x \in DOMAIN list : more[x] = list[x]
  OBVIOUS
<1>2. SearchTable(more) = UNION {Entries(more[x]) : x \in DOMAIN more}
      /\ SearchTable(list) = UNION {Entries(list[x]) : x \in DOMAIN list}
  BY TableOf
<1> HIDE DEF more
<1>3. ASSUME NEW e
      PROVE  /\ e \in SearchTable(more) <=> \E x \in DOMAIN more : e \in Entries(more[x])
             /\ e \in SearchTable(list) <=> \E x \in DOMAIN list : e \in Entries(list[x])
  BY <1>2
<1>4. ASSUME NEW e
      PROVE  e \in SearchTable(more) <=> e \in SearchTable(list) \cup Entries(m)
  BY <1>1, <1>3
<1>5. SearchTable(more) = SearchTable(list) \cup Entries(m)
  BY <1>4
<1> QED BY <1>5 DEF more

(* One line more of a mnemonic.                                             *)
LEMMA EntriesGrow ==
  ASSUME NEW T, NEW m, NEW n, m.ops \in Seq(T), NEW op \in T,
         n.ops = Append(m.ops, op), n.mnemonic = m.mnemonic, n.category = m.category
  PROVE  Entries(n) = Entries(m) \cup {Entry(op.opcode, op.memaccess, op.size_B, m.mnemonic, m.category)}
<1>1. DOMAIN n.ops = DOMAIN m.ops \cup {Len(m.ops) + 1} /\ n.ops[Len(m.ops) + 1] = op
      /\ \A y \in DOMAIN m.ops : n.ops[y] = m.ops[y]
  OBVIOUS
<1> DEFINE Of(o) == Entry(o.opcode, o.memaccess, o.size_B, m.mnemonic, m.category)
<1>2. Entries(n) = {Of(n.ops[y]) : y \in DOMAIN n.ops} /\ Entries(m) = {Of(m.ops[y]) : y \in DOMAIN m.ops}
  BY DEF Entries
<1> HIDE DEF Of
<1>3. Entries(n) = Entries(m) \cup {Of(op)}
  BY <1>1, <1>2
<1> QED BY <1>3 DEF Of

(* One item more.                                                           *)
LEMMA LinesGrow ==
  ASSUME NEW doc, NEW n \in Nat
  PROVE  /\ doc[n + 1].k # "byte" => Lines(doc, n + 1) = Lines(doc, n)
         /\ doc[n + 1].k = "byte" => Lines(doc, n + 1) = Lines(doc, n) \cup {LineOf(doc, n + 1)}
<1>1. 1 .. n + 1 = (1 .. n) \cup {n + 1}
  OBVIOUS
<1> QED BY <1>1 DEF Lines

(* The last header before an item.                                          *)
LEMMA HeaderStep ==
  ASSUME NEW doc, IsText(doc), NEW j \in Nat \ {0}
  PROVE  /\ j \notin Headers(doc) => /\ CategoryAbove(doc, j + 1) = CategoryAbove(doc, j)
                                     /\ NoHeader(doc, j + 1) <=> NoHeader(doc, j)
         /\ j \in Headers(doc) =>
               CategoryAbove(doc, j + 1) = IF doc[j].k = "flags" THEN "Flags" ELSE doc[j].v
<1> DEFINE Up(b) == {q \in Headers(doc) : q < b}
<1>1. Headers(doc) \subseteq Nat
  BY DEF Headers, IsText
<1>2. \A q \in Nat : q < j + 1 <=> q < j \/ q = j
  OBVIOUS
<1>3. Up(j + 1) = IF j \in Headers(doc) THEN Up(j) \cup {j} ELSE Up(j)
  BY <1>1, <1>2
<1>4. ASSUME j \in Headers(doc)
      PROVE  Last(Up(j + 1)) = j
  <2> DEFINE T == Up(j + 1)
  <2>1. j \in T /\ T \in SUBSET (0 .. j)
    BY <1>1, <1>3, <1>4
  <2> HIDE DEF T
  <2>2. Last(T) \in 0 .. j /\ j <= Last(T)
    BY <2>1, LastIs
  <2>3. Last(T) = j
    BY <2>2
  <2> QED BY <2>3 DEF T
<1>5. \A b : CategoryAbove(doc, b) = IF doc[Last(Up(b))].k = "flags" THEN "Flags" ELSE doc[Last(Up(b))].v
  BY DEF CategoryAbove
<1>6. \A b : NoHeader(doc, b) <=> Up(b) = {}
  BY DEF NoHeader
<1> HIDE DEF Up
<1> QED BY <1>3, <1>4, <1>5, <1>6

(* What stands on the line of an opcode.                                    *)
LEMMA LineIs ==
  ASSUME NEW doc, IsText(doc), NEW at, Spelt(doc, at), NEW b \in 1 .. Len(doc)
  PROVE  LET e == LineOf(doc, b) IN
         /\ e.opcode = doc[b].v /\ e.memaccess = doc[Above(doc, b, "mode")].v
         /\ e.mnemonic = doc[Above(doc, b, "word")].v
         /\ e.category = CategoryAbove(doc, Above(doc, b, "word"))
         /\ \A s \in DOMAIN doc : b < s /\ doc[s].k = "number" /\ (\A q \in b .. (s - 1) : doc[q].k # "number")
                                  => e.size_B = doc[s].v
         /\ e = Entry(e.opcode, e.memaccess, e.size_B, e.mnemonic, e.category)
<1> DEFINE mode == Above(doc, b, "mode")
           name == Above(doc, b, "word")
           Sized(p) == /\ p > b /\ doc[p].k = "number"
                       /\ \A q \in b .. p : doc[q].k = "number" => q = p
           size == CHOOSE p \in DOMAIN doc : Sized(p)
<1>1. {p \in Before(doc, b, {"word"}) : Plain(doc, p)} = Before(doc, b, {"word"})
  <2>1. \A p \in Before(doc, b, {"word"}) : p \in 1 .. Len(doc) /\ doc[p].k = "word"
    BY DEF Before, IsText
  <2>2. \A p \in Before(doc, b, {"word"}) : Plain(doc, p)
    BY <2>1, SpeltHeaders
  <2> QED BY <2>2
<1>2. LineOf(doc, b) = Entry(doc[b].v, doc[mode].v, doc[size].v, doc[name].v, CategoryAbove(doc, name))
  BY <1>1, Zenon DEF LineOf, Above
<1>3. ASSUME NEW s \in DOMAIN doc, b < s, doc[s].k = "number", \A q \in b .. (s - 1) : doc[q].k # "number"
      PROVE  size = s
  <2>1. s \in Nat /\ b \in Nat /\ \A q \in DOMAIN doc : q \in Nat
    BY DEF IsText
  <2>2. Sized(s)
    <3>1. \A q \in b .. s : q \in b .. (s - 1) \/ q = s
      BY <2>1
    <3> QED BY <1>3, <3>1
  <2>3. ASSUME NEW p \in DOMAIN doc, Sized(p)
        PROVE  p = s
    <3>1. CASE p < s
      <4>1. p \in b .. (s - 1)
        BY <2>1, <2>3, <3>1
      <4> QED BY <1>3, <2>3, <4>1
    <3>2. CASE s < p
      <4>1. s \in b .. p
        BY <1>3, <2>1, <3>2
      <4> QED BY <1>3, <2>3, <4>1
    <3> QED BY <2>1, <3>1, <3>2
  <2> HIDE DEF Sized
  <2> QED BY <2>2, <2>3
<1> HIDE DEF mode, name, size
<1>4. LET e == LineOf(doc, b) IN
      /\ e.opcode = doc[b].v /\ e.memaccess = doc[mode].v /\ e.size_B = doc[size].v
      /\ e.mnemonic = doc[name].v /\ e.category = CategoryAbove(doc, name)
  BY <1>2 DEF Entry
<1>5. \A s \in DOMAIN doc : b < s /\ doc[s].k = "number" /\ (\A q \in b .. (s - 1) : doc[q].k # "number")
        => LineOf(doc, b).size_B = doc[s].v
  BY <1>3, <1>4
<1>6. LET e == LineOf(doc, b) IN e = Entry(e.opcode, e.memaccess, e.size_B, e.mnemonic, e.category)
  BY <1>2, <1>4
<1> QED BY <1>4, <1>5, <1>6 DEF mode, name

(* A mnemonic of a text with room for its lines has an entry left when the   *)
(* next of them comes.                                                      *)
LEMMA RoomLeft ==
  ASSUME NEW doc, IsText(doc), Roomy(doc), NEW at, Spelt(doc, at), NEW n \in Nat, n + 1 <= Len(doc),
         doc[n + 1].k = "mode", NEW p, Counts(doc, at, n, p), Len(p.mnemo.ops) \in Nat
  PROVE  ~(Len(p.mnemo.ops) >= MAXOPS)
<1>1. /\ n + 1 \in 1 .. Len(doc) /\ DOMAIN doc = 1 .. Len(doc) /\ Len(doc) \in Nat
      /\ (n + 1) - 1 = n /\ 1 .. n \subseteq 1 .. Len(doc)
  BY DEF IsText
<1>2. at[n] \in {"first", "next"}
  <2>1. <<at[n], "mode", at[n + 1]>> \in Spelling
    BY <1>1 DEF Spelt
  <2> QED BY <2>1, PlacesTell
<1>9. /\ at[n] \in InLine \cup {"opcode", "name", "first", "next"}
      /\ at[n] \notin InLine /\ at[n] \notin {"opcode", "name"}
  BY <1>2 DEF InLine
<1>3. PICK o \in 1 .. n : /\ LastOpcode(doc, o, n)
                          /\ Cardinality(ModesTo(doc, o, n)) = Len(p.mnemo.ops) + 0
  BY <1>9, Zenon DEF Counts
<1> DEFINE S == ModesTo(doc, o, n)
           T == ModesOf(doc, o)
<1>4. IsFiniteSet(S) /\ IsFiniteSet(T)
  <2>1. IsFiniteSet(1 .. n) /\ IsFiniteSet(1 .. Len(doc))
    BY <1>1, FS_Interval
  <2>2. S \in SUBSET (1 .. n) /\ T \in SUBSET (1 .. Len(doc))
    BY <1>1 DEF ModesTo, ModesOf
  <2> HIDE DEF S, T
  <2> QED BY <2>1, <2>2, FS_Subset
<1>5. n + 1 \notin S /\ S \cup {n + 1} \in SUBSET T
  <2>1. \A c \in 1 .. (n + 1) : o < c => doc[c].k # "opcode"
    <3>1. \A c \in 1 .. (n + 1) : c \in 1 .. n \/ c = n + 1
      BY <1>1
    <3> QED BY <1>3, <3>1 DEF LastOpcode
  <2>2. ASSUME NEW m \in 1 .. (n + 1), o < m, doc[m].k = "mode"
        PROVE  m \in T
    <3>1. m \in DOMAIN doc /\ \A c \in (o + 1) .. m : c \in 1 .. (n + 1) /\ o < c
      BY <1>1
    <3> QED BY <2>1, <2>2, <3>1 DEF ModesOf
  <2>3. n + 1 \notin S /\ n + 1 \in 1 .. (n + 1) /\ o < n + 1
    BY <1>1 DEF ModesTo
  <2>4. \A m \in S : m \in 1 .. (n + 1) /\ o < m /\ doc[m].k = "mode"
    BY <1>1 DEF ModesTo
  <2> HIDE DEF S, T
  <2> QED BY <2>2, <2>3, <2>4
<1>6. Cardinality(T) <= MAXOPS
  BY <1>1, <1>3 DEF Roomy, LastOpcode
<1> HIDE DEF S, T
<1>7. Cardinality(S \cup {n + 1}) = Cardinality(S) + 1
  BY <1>4, <1>5, FS_AddElement
<1>8. Cardinality(S \cup {n + 1}) <= Cardinality(T) /\ Cardinality(T) \in Nat
  BY <1>4, <1>5, FS_Subset, FS_CardinalityType
<1> QED BY <1>3, <1>6, <1>7, <1>8, ArraysAssumption DEF S

(* An item more: it starts a mnemonic, starts a line, ends one, or neither. *)
LEMMA CountsStep ==
  ASSUME NEW doc, IsText(doc), NEW at, Spelt(doc, at), NEW n \in Nat, n + 1 <= Len(doc),
         NEW p, NEW q, Counts(doc, at, n, p), Len(p.mnemo.ops) \in Nat,
         at[n + 1] \notin {"first", "next"} => q.mnemo = p.mnemo,
         at[n + 1] = "first" => q.mnemo.ops = <<>>,
         at[n + 1] = "next" => Len(q.mnemo.ops) = Len(p.mnemo.ops) + 1
  PROVE  Counts(doc, at, n + 1, q)
<1> DEFINE j == n + 1
           k == doc[j].k
           l == at[n]
           m == at[j]
           C == InLine \cup {"opcode", "name", "first", "next"}
<1>1. <<l, k, m>> \in Spelling /\ j \in 1 .. j /\ 1 .. n \subseteq 1 .. j
      /\ \A c \in 1 .. j : c \in 1 .. n \/ c = j
  <2>1. j \in 1 .. Len(doc) /\ j - 1 = n
    BY DEF IsText
  <2> QED BY <2>1 DEF Spelt
<1> SUFFICES ASSUME m \in C
             PROVE  \E o \in 1 .. j : /\ LastOpcode(doc, o, j)
                                      /\ Cardinality(ModesTo(doc, o, j)) =
                                            IF m \in {"opcode", "name"} THEN 0
                                            ELSE Len(q.mnemo.ops) + (IF m \in InLine THEN 1 ELSE 0)
  BY DEF Counts
<1>2. CASE k = "opcode"
  <2>1. m = "opcode"
    BY <1>1, <1>2, SpellingTells
  <2>2. LastOpcode(doc, j, j)
    BY <1>1, <1>2 DEF LastOpcode
  <2>3. ModesTo(doc, j, j) = {}
    BY DEF ModesTo
  <2>4. Cardinality(ModesTo(doc, j, j)) = 0
    BY <2>3, FS_EmptySet
  <2> QED BY <1>1, <2>1, <2>2, <2>4
<1>3. CASE k # "opcode"
  <2> HIDE DEF j, k, l, m
  <2>1. /\ m # "opcode" /\ (m = "name" => l = "opcode") /\ (m = "first" => l = "name" /\ k # "mode")
        /\ m = "next" => l = "size" /\ k # "mode"
        /\ m \in InLine => k = "mode" \/ l \in InLine
        /\ k = "mode" => m = "mode" /\ l \in {"first", "next"}
    BY <1>1, <1>3, PlacesTell, SpellingTells
  <2>2. l \in C
    BY <2>1 DEF InLine
  <2>3. PICK o \in 1 .. n : /\ LastOpcode(doc, o, n)
                            /\ Cardinality(ModesTo(doc, o, n)) =
                                  IF l \in {"opcode", "name"} THEN 0
                                  ELSE Len(p.mnemo.ops) + (IF l \in InLine THEN 1 ELSE 0)
    BY <2>2 DEF Counts, l
  <2>4. LastOpcode(doc, o, j) /\ o \in 1 .. j
    BY <1>1, <1>3, <2>3 DEF LastOpcode, k
  <2>5. CASE k = "mode"
    <3>1. ModesTo(doc, o, j) = ModesTo(doc, o, n) \cup {j}
      BY <1>1, <2>5 DEF ModesTo, k, j
    <3>2. IsFiniteSet(ModesTo(doc, o, n)) /\ j \notin ModesTo(doc, o, n)
      <4>1. ModesTo(doc, o, n) \in SUBSET (1 .. n) /\ j \notin 1 .. n
        BY DEF ModesTo, j
      <4>2. IsFiniteSet(1 .. n)
        BY FS_Interval
      <4> QED BY <4>1, <4>2, FS_Subset
    <3>3. Cardinality(ModesTo(doc, o, j)) = Cardinality(ModesTo(doc, o, n)) + 1
      BY <3>1, <3>2, FS_AddElement
    <3>4. m = "mode" /\ l \in {"first", "next"}
      BY <2>1, <2>5
    <3>5. q.mnemo = p.mnemo
      BY <3>4 DEF m, j
    <3>6. /\ l \notin {"opcode", "name"} /\ l \notin InLine
          /\ m \notin {"opcode", "name"} /\ m \in InLine
      BY <3>4 DEF InLine
    <3>7. Cardinality(ModesTo(doc, o, n)) = Len(p.mnemo.ops) + 0
      BY <2>3, <3>6, Zenon
    <3>8. Cardinality(ModesTo(doc, o, j)) = Len(q.mnemo.ops) + 1
      BY <3>3, <3>5, <3>7
    <3> QED BY <2>4, <3>6, <3>8
  <2>6. CASE k # "mode"
    <3>1. ModesTo(doc, o, j) = ModesTo(doc, o, n)
      BY <1>1, <2>6 DEF ModesTo, k
    <3>2. CASE m = "name"
      BY <2>1, <2>3, <2>4, <3>1, <3>2
    <3>3. CASE m = "first"
      <4>1. Len(q.mnemo.ops) = 0 /\ l = "name"
        BY <2>1, <3>3 DEF m, j
      <4> QED BY <2>3, <2>4, <3>1, <3>3, <4>1 DEF InLine
    <3>4. CASE m = "next"
      <4>1. Len(q.mnemo.ops) = Len(p.mnemo.ops) + 1 /\ l = "size"
        BY <2>1, <3>4 DEF m, j
      <4> QED BY <2>3, <2>4, <3>1, <3>4, <4>1 DEF InLine
    <3>5. CASE m \in InLine
      <4>1. q.mnemo = p.mnemo /\ l \in InLine
        BY <2>1, <2>6, <3>5 DEF InLine, m, j
      <4> QED BY <2>3, <2>4, <3>1, <3>5, <4>1 DEF InLine
    <3> QED BY <2>1, <3>2, <3>3, <3>4, <3>5
  <2> QED BY <2>5, <2>6
<1> QED BY <1>2, <1>3

(* What keeps the next item from being lost. *)
Room(doc, at, n, p) ==
   /\ Roomy(doc) /\ Counts(doc, at, n, p)
   /\ at[n] = "description" /\ at[n + 1] = "section" => ~(Len(p.list) + 1 >= MAXMNEMONICS)

(* One item read more.                                                      *)
LEMMA ExactStep ==
  ASSUME NEW doc, IsText(doc), NEW at, Spelt(doc, at), NEW V, OperandByte \in V,
         NEW n \in Nat, n + 1 <= Len(doc), doc[n + 1].v \in V,
         doc[n + 1].k = "opcode" => (\E h \in Headers(doc) : h < n + 1) /\ CategoryAbove(doc, n + 1) # NoCategory,
         NEW p \in ParserType(V), Exact(doc, at, n, p), Room(doc, at, n, p)
  PROVE  Exact(doc, at, n + 1, Read(p, doc[n + 1])) /\ Counts(doc, at, n + 1, Read(p, doc[n + 1]))
<1> DEFINE j == n + 1
           i == doc[j]
           l == at[n]
           m == at[j]
           q == Read(p, i)
<1>1. /\ j \in 1 .. Len(doc) /\ j \in Nat \ {0} /\ DOMAIN doc = 1 .. Len(doc) /\ Len(doc) \in Nat
      /\ j \in 1 .. j /\ 1 .. n \subseteq 1 .. j /\ 1 .. n \subseteq 1 .. Len(doc)
  BY DEF IsText
<1>2. <<l, i.k, m>> \in Spelling /\ i.k \in Kinds
  <2>1. (n + 1) - 1 = n
    OBVIOUS
  <2> QED BY <1>1, <2>1 DEF Spelt, IsText
<1>3. /\ ~p.thrown /\ <<l, p.start, p.m_state>> \in Stands
      /\ ~NoHeader(doc, j) => p.category = CategoryAbove(doc, j)
      /\ l \in {"opcode", "name"} => p.category = CategoryAbove(doc, j)
      /\ l = "name" => n > 0 /\ doc[n].k = "word" /\ p.word = doc[n].v
  BY DEF Exact
<1>4. i.k = "opcode" => ~NoHeader(doc, j) /\ CategoryAbove(doc, j) # NoCategory
  BY DEF NoHeader
<1>5. i.k = "opcode" => p.category # NoCategory
  BY <1>3, <1>4
<1>24. /\ i.k = "mode" => ~(Len(p.mnemo.ops) >= MAXOPS)
       /\ l = "description" /\ m = "section" => ~(Len(p.list) + 1 >= MAXMNEMONICS)
       /\ Len(p.mnemo.ops) \in Nat
  <2>1. Len(p.mnemo.ops) \in Nat
    BY DEF ParserType, MnemonicType
  <2> QED BY <2>1, RoomLeft DEF Room
<1> HIDE DEF j, i, l, m, q
<1>6. /\ ~q.thrown /\ <<m, q.start, q.m_state>> \in Stands /\ q.word = i.v
      /\ q.category = IF i.k = "category" THEN i.v ELSE IF m = "title" THEN "Flags" ELSE p.category
      /\ m # "first" /\ m # "next" => q.mnemo = p.mnemo
      /\ m = "first" => q.mnemo = [mnemonic |-> p.word, category |-> p.category, ops |-> <<>>]
      /\ m = "next" => /\ q.mnemo.mnemonic = p.mnemo.mnemonic /\ q.mnemo.category = p.mnemo.category
                       /\ q.mnemo.ops = Append(p.mnemo.ops, p.op)
      /\ q.op.memaccess = IF m = "mode" THEN i.v ELSE p.op.memaccess
      /\ q.op.opcode = IF i.k = "byte" THEN i.v ELSE p.op.opcode
      /\ q.op.size_B = IF l = "byte" /\ m = "size" THEN i.v ELSE p.op.size_B
      /\ q.list = IF l = "description" /\ m = "section" THEN Append(p.list, p.mnemo) ELSE p.list
  <2>1. q = Read(p, i) /\ i.v \in V
    BY DEF q, i, j
  <2> QED BY <1>2, <1>3, <1>5, <1>24, <2>1, SpeltRead
<1>7. j \in Headers(doc) <=> i.k = "category" \/ (i.k = "flags" /\ m = "title")
  BY <1>1, SpeltHeaders DEF i, m
<1>8. m = "title" => i.k = "flags"
  BY <1>2, SpellingTells
<1>9. /\ j \notin Headers(doc) => /\ CategoryAbove(doc, j + 1) = CategoryAbove(doc, j)
                                  /\ NoHeader(doc, j + 1) <=> NoHeader(doc, j)
      /\ j \in Headers(doc) => CategoryAbove(doc, j + 1) = IF i.k = "flags" THEN "Flags" ELSE i.v
  BY <1>1, HeaderStep DEF i
<1>10. ~NoHeader(doc, j + 1) => q.category = CategoryAbove(doc, j + 1)
  BY <1>3, <1>6, <1>7, <1>8, <1>9
<1>11. m \in {"opcode", "name"} => q.category = CategoryAbove(doc, j + 1)
  <2>1. m = "opcode" => i.k = "opcode"
    BY <1>2, SpellingTells
  <2>2. m = "name" => l = "opcode" /\ i.k = "word"
    BY <1>2, PlacesTell
  <2> QED BY <1>3, <1>4, <1>6, <1>7, <1>9, <2>1, <2>2
<1>12. m = "name" => j > 0 /\ doc[j].k = "word" /\ q.word = doc[j].v
  BY <1>1, <1>2, <1>6, PlacesTell DEF i
<1>13. /\ i.k # "word" => Above(doc, j + 1, "word") = Above(doc, j, "word")
       /\ i.k # "mode" => Above(doc, j + 1, "mode") = Above(doc, j, "mode")
       /\ i.k = "mode" => Above(doc, j + 1, "mode") = j
  <2>1. /\ i.k # "word" => Above(doc, j + 1, "word") = Above(doc, j, "word")
        /\ i.k # "mode" => Above(doc, j + 1, "mode") = Above(doc, j, "mode")
    BY <1>1, BeforeStep DEF Above, i
  <2>2. i.k = "mode" => Above(doc, j + 1, "mode") = j
    BY <1>1, BeforeStep DEF Above, i
  <2> QED BY <2>1, <2>2
<1>14. ASSUME m \notin Bare \cup {"flags", "ended", "description"}
       PROVE  LET w == Above(doc, j + 1, "word")
              IN q.mnemo.mnemonic = doc[w].v /\ q.mnemo.category = CategoryAbove(doc, w)
  <2>1. CASE m = "first"
    <3>1. l = "name" /\ i.k = "eol"
      BY <1>2, <2>1, PlacesTell
    <3>2. n \in Nat \ {0} /\ n \in 1 .. Len(doc) /\ doc[n].k = "word" /\ j = n + 1
      BY <1>1, <1>3, <3>1 DEF j
    <3>3. Above(doc, n + 1, "word") = n
      BY <3>2, BeforeStep DEF Above
    <3>4. Above(doc, j + 1, "word") = n
      <4>1. i.k # "word"
        BY <3>1
      <4> QED BY <1>13, <3>2, <3>3, <4>1
    <3>5. n \notin Headers(doc)
      BY <3>2, SpeltHeaders
    <3>6. CategoryAbove(doc, n) = CategoryAbove(doc, j)
      BY <3>2, <3>5, HeaderStep
    <3>7. q.mnemo.mnemonic = p.word /\ q.mnemo.category = p.category
      BY <1>6, <2>1
    <3> QED BY <1>3, <3>1, <3>4, <3>6, <3>7
  <2>2. CASE m # "first"
    <3>1. l \notin Bare \cup {"flags", "ended", "description"} /\ i.k # "word"
      BY <1>2, <1>14, <2>2, PlacesTell
    <3>2. LET w == Above(doc, j, "word")
          IN p.mnemo.mnemonic = doc[w].v /\ p.mnemo.category = CategoryAbove(doc, w)
      BY <3>1 DEF Exact, l, j
    <3>3. q.mnemo.mnemonic = p.mnemo.mnemonic /\ q.mnemo.category = p.mnemo.category
      BY <1>6, <2>2
    <3> QED BY <1>13, <3>1, <3>2, <3>3
  <2> QED BY <2>1, <2>2
<1>15. ASSUME m \in {"mode", "call", "called", "code"}
       PROVE  q.op.memaccess = doc[Above(doc, j + 1, "mode")].v
  <2>1. CASE m = "mode"
    <3>1. i.k = "mode"
      BY <1>2, <2>1, PlacesTell
    <3> QED BY <1>6, <1>13, <2>1, <3>1 DEF i
  <2>2. CASE m # "mode"
    <3>1. l \in {"mode", "call", "called"} /\ i.k # "mode"
      BY <1>2, <1>15, <2>2, PlacesTell
    <3>2. p.op.memaccess = doc[Above(doc, j, "mode")].v
      BY <3>1 DEF Exact, l, j
    <3> QED BY <1>6, <1>13, <2>2, <3>1, <3>2
  <2> QED BY <2>1, <2>2
<1>16. /\ i.k # "byte" => Lines(doc, j) = Lines(doc, n)
       /\ i.k = "byte" => Lines(doc, j) = Lines(doc, n) \cup {LineOf(doc, j)}
  BY LinesGrow DEF i, j
<1>17. p.list \in Seq(MnemonicType(V)) /\ p.mnemo \in MnemonicType(V) /\ p.op \in OpType(V)
       /\ p.mnemo.ops \in Seq(OpType(V))
  BY DEF ParserType, MnemonicType
<1>18. l \in Bare => Entries(p.mnemo) \subseteq SearchTable(p.list)
  BY DEF Exact, l
<1>19. ASSUME l = "description", m = "section"
       PROVE  q.mnemo = p.mnemo /\ SearchTable(q.list) = SearchTable(p.list) \cup Entries(p.mnemo)
  BY <1>6, <1>17, <1>19, TableGrows
<1>20. l # "description" \/ m # "section" => q.list = p.list
  BY <1>6
<1>21. m \in Bare => Entries(q.mnemo) \subseteq SearchTable(q.list)
  <2> SUFFICES ASSUME m \in Bare
               PROVE  Entries(q.mnemo) \subseteq SearchTable(q.list)
    OBVIOUS
  <2>1. m # "first" /\ m # "next"
    BY DEF Bare, Outside
  <2>2. l \in Bare \/ (l = "description" /\ m = "section")
    BY <1>2, PlacesTell
  <2>3. CASE l = "description" /\ m = "section"
    BY <1>19, <2>3
  <2>4. CASE ~(l = "description" /\ m = "section")
    BY <1>6, <1>18, <1>20, <2>1, <2>2, <2>4
  <2> QED BY <2>3, <2>4
<1>22. ASSUME m \in {"byte", "size"}
       PROVE  \E b \in 1 .. j : OnLine(doc, at, j, q, b)
  <2>1. q.mnemo = p.mnemo /\ q.list = p.list /\ Known(q) = Known(p) /\ q.op.memaccess = p.op.memaccess
    <3>1. q.mnemo = p.mnemo /\ q.list = p.list /\ q.op.memaccess = p.op.memaccess
      BY <1>6, <1>22
    <3> QED BY <3>1 DEF Known
  <2>2. CASE i.k = "byte"
    <3>1. l = "code" /\ m = "byte"
      BY <1>2, <2>2, SpellingTells
    <3>2. p.op.memaccess = doc[Above(doc, j, "mode")].v
      BY <3>1 DEF Exact, l, j
    <3>3. LET w == Above(doc, j, "word")
          IN p.mnemo.mnemonic = doc[w].v /\ p.mnemo.category = CategoryAbove(doc, w)
      BY <3>1 DEF Exact, l, j, Bare, Outside
    <3>4. Known(p) = Lines(doc, n)
      BY <3>1 DEF Exact, l
    <3>5. LET e == LineOf(doc, j)
          IN /\ e.opcode = doc[j].v /\ e.memaccess = doc[Above(doc, j, "mode")].v
             /\ e.mnemonic = doc[Above(doc, j, "word")].v
             /\ e.category = CategoryAbove(doc, Above(doc, j, "word"))
      BY <1>1, LineIs
    <3>6. \A s \in j .. j : doc[s].k # "number"
      BY <1>1, <2>2 DEF i
    <3>7. OnLine(doc, at, j, q, j)
      BY <1>6, <1>16, <2>1, <2>2, <3>1, <3>2, <3>3, <3>4, <3>5, <3>6 DEF OnLine, i, m
    <3> QED BY <1>1, <3>7
  <2>3. CASE i.k # "byte"
    <3>1. \/ l = "byte" /\ m = "byte" /\ i.k = "semi"
          \/ l = "byte" /\ m = "size" /\ i.k = "number"
          \/ l = "size" /\ m = "size"
      BY <1>2, <1>22, <2>3, PlacesTell
    <3>2. PICK b \in 1 .. n : OnLine(doc, at, n, p, b)
      BY <3>1 DEF Exact, l
    <3> DEFINE e == LineOf(doc, b)
    <3>3. doc[b].k = "byte" /\ Known(q) \cup {e} = Lines(doc, j)
      BY <1>16, <2>1, <2>3, <3>2 DEF OnLine
    <3>4. e.opcode = q.op.opcode /\ e.memaccess = q.op.memaccess
          /\ e.mnemonic = q.mnemo.mnemonic /\ e.category = q.mnemo.category
      BY <1>6, <2>1, <2>3, <3>2 DEF OnLine
    <3>5. l = "byte" => \A s \in b .. n : doc[s].k # "number"
      BY <3>2 DEF OnLine, l
    <3>6. l = "size" => e.size_B = p.op.size_B
      BY <3>2 DEF OnLine, l
    <3>7. b \in 1 .. Len(doc) /\ b < j /\ b .. (j - 1) = b .. n /\ \A s \in b .. j : s \in b .. n \/ s = j
      BY <1>1 DEF j
    <3>8. \A s \in DOMAIN doc : b < s /\ doc[s].k = "number" /\ (\A x \in b .. (s - 1) : doc[x].k # "number")
              => e.size_B = doc[s].v
      BY <3>7, LineIs
    <3>9. IF m = "size" THEN e.size_B = q.op.size_B ELSE \A s \in b .. j : doc[s].k # "number"
      <4> HIDE DEF e
      <4>1. CASE l = "byte" /\ m = "byte" /\ i.k = "semi"
        BY <3>5, <3>7, <4>1 DEF i
      <4>2. CASE l = "byte" /\ m = "size" /\ i.k = "number"
        <5>1. e.size_B = doc[j].v
          BY <1>1, <3>5, <3>7, <3>8, <4>2 DEF i
        <5> QED BY <1>6, <4>2, <5>1 DEF i
      <4>3. CASE l = "size" /\ m = "size"
        BY <1>6, <3>6, <4>3
      <4> QED BY <3>1, <4>1, <4>2, <4>3
    <3>10. OnLine(doc, at, j, q, b)
      BY <3>3, <3>4, <3>9 DEF OnLine, m
    <3> QED BY <1>1, <3>10
  <2> QED BY <2>2, <2>3
<1>23. ASSUME m \notin {"byte", "size"}
       PROVE  Known(q) = Lines(doc, j)
  <2>1. i.k # "byte" /\ Lines(doc, j) = Lines(doc, n)
    BY <1>2, <1>16, <1>23, PlacesTell
  <2>2. CASE l \in {"byte", "size"}
    <3>1. m = "next" /\ l = "size"
      BY <1>2, <1>23, <2>2, PlacesTell
    <3>2. PICK b \in 1 .. n : OnLine(doc, at, n, p, b)
      BY <2>2 DEF Exact, l
    <3> DEFINE e == LineOf(doc, b)
    <3>3. b \in 1 .. Len(doc)
      BY <1>1
    <3>4. e = Entry(e.opcode, e.memaccess, e.size_B, e.mnemonic, e.category)
      BY <3>3, LineIs
    <3>5. Known(p) \cup {e} = Lines(doc, n)
      BY <3>2 DEF OnLine
    <3>6. e.opcode = p.op.opcode /\ e.memaccess = p.op.memaccess /\ e.size_B = p.op.size_B
          /\ e.mnemonic = p.mnemo.mnemonic /\ e.category = p.mnemo.category
      BY <3>1, <3>2 DEF OnLine, l
    <3> HIDE DEF e
    <3>7. Entries(q.mnemo) = Entries(p.mnemo) \cup {e}
      <4>1. e = Entry(p.op.opcode, p.op.memaccess, p.op.size_B, p.mnemo.mnemonic, p.mnemo.category)
        BY <3>4, <3>6
      <4>2. q.mnemo.ops = Append(p.mnemo.ops, p.op) /\ q.mnemo.mnemonic = p.mnemo.mnemonic
            /\ q.mnemo.category = p.mnemo.category
        BY <1>6, <3>1
      <4>3. p.mnemo.ops \in Seq(OpType(V)) /\ p.op \in OpType(V)
        BY <1>17
      <4> DEFINE T == OpType(V)
                 a == p.mnemo
                 b2 == q.mnemo
                 o == p.op
      <4>4. a.ops \in Seq(T) /\ o \in T /\ b2.ops = Append(a.ops, o)
            /\ b2.mnemonic = a.mnemonic /\ b2.category = a.category
        BY <4>2, <4>3
      <4>5. e = Entry(o.opcode, o.memaccess, o.size_B, a.mnemonic, a.category)
        BY <4>1
      <4>6. Entries(b2) = Entries(a) \cup {e}
        <5> HIDE DEF T, a, b2, o
        <5>1. Entries(b2) = Entries(a) \cup {Entry(o.opcode, o.memaccess, o.size_B, a.mnemonic, a.category)}
          BY <4>4, EntriesGrow
        <5> QED BY <4>5, <5>1
      <4> QED BY <4>6
    <3>8. q.list = p.list
      BY <1>20, <3>1
    <3> QED BY <2>1, <3>5, <3>7, <3>8 DEF Known
  <2>3. CASE l \notin {"byte", "size"}
    <3>1. Known(p) = Lines(doc, n)
      BY <2>3 DEF Exact, l
    <3>2. m # "next"
      BY <1>2, <2>3, PlacesTell
    <3>3. CASE m = "first"
      <4>1. l = "name"
        BY <1>2, <3>3, PlacesTell
      <4>2. Entries(p.mnemo) \subseteq SearchTable(p.list)
        BY <1>18, <4>1 DEF Bare
      <4>3. Entries(q.mnemo) = {}
        <5>1. q.mnemo.ops = <<>>
          BY <1>6, <3>3
        <5> QED BY <5>1 DEF Entries
      <4> QED BY <1>20, <2>1, <3>1, <3>3, <4>2, <4>3 DEF Known
    <3>4. CASE l = "description" /\ m = "section"
      BY <1>19, <2>1, <3>1, <3>4 DEF Known
    <3>5. CASE m # "first" /\ ~(l = "description" /\ m = "section")
      BY <1>6, <1>20, <2>1, <3>1, <3>2, <3>5 DEF Known
    <3> QED BY <3>3, <3>4, <3>5
  <2> QED BY <2>2, <2>3
<1>25. Counts(doc, at, n + 1, q)
  <2>1. m = "next" => Len(q.mnemo.ops) = Len(p.mnemo.ops) + 1
    BY <1>6, <1>17
  <2>2. m = "first" => q.mnemo.ops = <<>>
    BY <1>6
  <2>3. m \notin {"first", "next"} => q.mnemo = p.mnemo
    BY <1>6
  <2> QED BY <1>24, <2>1, <2>2, <2>3, CountsStep DEF Room, m, j
<1>26. Exact(doc, at, j, q)
  BY <1>6, <1>10, <1>11, <1>12, <1>14, <1>15, <1>21, <1>22, <1>23 DEF Exact, m, i
<1> QED
  BY <1>25, <1>26 DEF q, i, j

(* Before the first item. *)
LEMMA ExactStart ==
  ASSUME NEW doc, IsText(doc), NEW at, Spelt(doc, at)
  PROVE  Exact(doc, at, 0, NewParser) /\ Counts(doc, at, 0, NewParser)
<1>1. at[0] = "section" /\ Headers(doc) \subseteq 1 .. Len(doc) /\ Len(doc) \in Nat
  BY DEF Spelt, Headers, IsText
<1>2. /\ ~NewParser.thrown /\ NewParser.start = "INITIAL" /\ NewParser.m_state = "get_new_element"
      /\ NewParser.mnemo.ops = <<>> /\ NewParser.list = <<>>
  BY DEF NewParser
<1>3. <<at[0], NewParser.start, NewParser.m_state>> \in Stands
  BY <1>1, <1>2 DEF Stands
<1>4. NoHeader(doc, 0 + 1)
  BY <1>1 DEF NoHeader
<1>5. Entries(NewParser.mnemo) = {}
  BY <1>2 DEF Entries
<1>6. SearchTable(NewParser.list) = {}
  <2>1. DOMAIN NewParser.list = {}
    BY <1>2
  <2>2. SearchTable(NewParser.list) = UNION {Entries(NewParser.list[x]) : x \in DOMAIN NewParser.list}
    BY TableOf
  <2> QED BY <2>1, <2>2
<1>7. Lines(doc, 0) = {}
  BY DEF Lines
<1>8. Known(NewParser) = Lines(doc, 0)
  BY <1>5, <1>6, <1>7 DEF Known
<1>9. Counts(doc, at, 0, NewParser)
  BY <1>1 DEF Counts, InLine
<1> QED BY <1>9, <1>1, <1>2, <1>3, <1>4, <1>5, <1>8 DEF Exact, Bare, Outside

(* At the end of a well formed text with room for its lines the parser has  *)
(* refused nothing, and its table is what is written; or it has died of the *)
(* number of mnemonics (parser.cpp, opcode_desctxt.l, opcodes.cpp).         *)
LEMMA SpeltWritten ==
  ASSUME NEW doc, IsText(doc), WellFormed(doc), Roomy(doc)
  PROVE  /\ ~Overruns(doc)
         /\ ~build_list(doc).thrown => SearchTable(build_list(doc).list) = Written(doc)
<1>1. PICK at : Spelt(doc, at)
  BY DEF WellFormed
<1> DEFINE L == Len(doc)
           V == Values(doc)
           after == CHOOSE f : Reads(doc, f, L)
           Died(p) == p.thrown /\ p.why = "assertion"
           Right(n, p) == Exact(doc, at, n, p) /\ Counts(doc, at, n, p)
           S == {n \in Nat : n <= L => after[n] \in ParserType(V) /\ (Died(after[n]) \/ Right(n, after[n]))}
<1>2. L \in Nat /\ DOMAIN doc = 1 .. L /\ \A n \in 1 .. L : doc[n].k \in Kinds /\ doc[n].v \in V
  BY DEF IsText, Values
<1>3. Reads(doc, after, L)
  BY <1>2, Reading
<1>4. build_list(doc) = after[L]
  <2> HIDE DEF after
  <2> QED BY <1>3, LinesRead
<1>5. OperandByte \in V /\ "Flags" \in V /\ {"", 0, NoCategory} \subseteq V
  BY DEF Values
<1>6. \A n \in 1 .. L : doc[n].k = "opcode" =>
         (\E h \in Headers(doc) : h < n) /\ CategoryAbove(doc, n) # NoCategory
  BY <1>2 DEF WellFormed, Headed
<1> HIDE DEF V, L, after
<1>7. \A n \in 0 .. L : after[n] = After(doc, after, n)
  BY <1>3, Zenon DEF Reads
<1>8. 0 \in S
  <2>1. after[0] = NewParser
    BY <1>2, <1>7 DEF After
  <2> QED BY <1>1, <2>1, <1>5, ExactStart, StartType
<1>9. ASSUME NEW n \in Nat, n \in S
      PROVE  n + 1 \in S
  <2> SUFFICES ASSUME n + 1 <= L
               PROVE  /\ after[n + 1] \in ParserType(V)
                      /\ Died(after[n + 1]) \/ Right(n + 1, after[n + 1])
    OBVIOUS
  <2>1. n <= L /\ n + 1 \in 0 .. L /\ n + 1 \in 1 .. L /\ n + 1 # 0 /\ (n + 1) - 1 = n
    BY <1>2
  <2>2. after[n] \in ParserType(V) /\ (Died(after[n]) \/ Right(n, after[n]))
    BY <1>9, <2>1
  <2>3. after[n + 1] = Read(after[n], doc[n + 1])
    BY <1>7, <2>1 DEF After
  <2>4. after[n + 1] \in ParserType(V)
    BY <1>2, <1>5, <2>1, <2>2, <2>3, ReadType
  <2> DEFINE p == after[n]
             full == at[n] = "description" /\ at[n + 1] = "section" /\ Len(p.list) + 1 >= MAXMNEMONICS
  <2>5. CASE Died(p)
    <3>1. Read(p, doc[n + 1]) = p
      BY <2>5, ReadIs
    <3> QED BY <2>3, <2>4, <2>5, <3>1
  <2>6. CASE Right(n, p) /\ full
    <3>1. <<at[n], doc[n + 1].k, at[n + 1]>> \in Spelling
      BY <1>1, <2>1 DEF Spelt, L
    <3>2. ~p.thrown /\ <<at[n], p.start, p.m_state>> \in Stands
      BY <2>6 DEF Exact
    <3>3. doc[n + 1].k \in Kinds /\ doc[n + 1].v \in V
      BY <1>2, <2>1
    <3>4. Died(Read(p, doc[n + 1]))
      BY <1>5, <2>2, <2>6, <3>1, <3>2, <3>3, SpeltLost
    <3> QED BY <2>3, <2>4, <3>4
  <2>7. CASE Right(n, p) /\ ~full
    <3>1. Room(doc, at, n, p)
      BY <2>7 DEF Room
    <3>2. Right(n + 1, Read(p, doc[n + 1]))
      BY <1>1, <1>2, <1>5, <1>6, <2>1, <2>2, <2>7, <3>1, ExactStep DEF L
    <3> QED BY <2>3, <2>4, <3>2
  <2> QED BY <2>2, <2>5, <2>6, <2>7
<1>10. L \in S
  <2> HIDE DEF S
  <2> QED BY <1>2, <1>8, <1>9, SetInduction
<1> DEFINE p == build_list(doc)
<1>11. Died(p) \/ Exact(doc, at, L, p)
  BY <1>2, <1>4, <1>10
<1>15. p.thrown \/ p.why # "overrun"
  BY BuildList
<1> HIDE DEF p, S
<1>12. at[L] = "section"
  BY <1>1 DEF Spelt, L
<1>13. ~p.thrown => Known(p) = Lines(doc, L) /\ Entries(p.mnemo) \subseteq SearchTable(p.list)
  BY <1>11, <1>12 DEF Exact, Bare, Outside
<1>16. p.why # "overrun"
  BY <1>11, <1>15 DEF Exact
<1>14. Lines(doc, L) = Written(doc)
  <2>1. \A b \in 1 .. L : doc[b].k = "byte" => Plain(doc, b)
    BY <1>1, SpeltHeaders DEF L
  <2> QED BY <1>2, <2>1 DEF Lines, Written
<1> QED BY <1>13, <1>14, <1>16 DEF Known, Overruns, p

(* While the rom is opened, the table is the one of the text just read. *)
TableOfText ==
   pc = "open_nes" => /\ text \in FirstTexts \ {NoText}
                      /\ ~Overruns(text) => /\ ~build_list(text).thrown
                                            /\ table = SearchTable(build_list(text).list)

(* No step but that of fill_structure comes to the opening of the rom.      *)
LEMMA TableOfTextStep == TypeOK /\ TableOfText /\ [Next]_vars => TableOfText'
<1> SUFFICES ASSUME TypeOK, TableOfText, [Next]_vars, pc' = "open_nes"
             PROVE  /\ text' \in FirstTexts \ {NoText}
                    /\ ~Overruns(text') => /\ ~build_list(text').thrown
                                           /\ table' = SearchTable(build_list(text').list)
  BY DEF TableOfText
<1>1. CASE fill_structure
  <2> DEFINE p == build_list(text)
  <2>1. \/ text # NoText /\ Filled(p) /\ TableIs(SearchTable(p.list))
        \/ text # NoText /\ p.why = "overrun" /\ \E T \in Scrambled : TableIs(T)
        \/ Answer0("table") \/ Failed
    BY <1>1, Zenon DEF fill_structure
  <2>2. Overruns(text) <=> p.why = "overrun"
    BY DEF Overruns
  <2> HIDE DEF p
  <2>3. text # NoText /\ text' = text /\ (p.why # "overrun" => ~p.thrown /\ table' = SearchTable(p.list))
    BY <2>1 DEF TableIs, Filled, Answer0, Failed
  <2> QED BY <2>2, <2>3, TextKnown DEF p
<1>2. CASE UNCHANGED vars
  BY <1>2 DEF TableOfText, vars
<1>3. ~CopyStatic /\ ~open_nes /\ ~dump /\ ~indjmp_init /\ ~disasm /\ ~re
  BY DEF CopyStatic, open_nes, dump, indjmp_init, disasm, re, Failed, Answer0
<1>4. /\ ~create_indjump_asm_routines /\ ~patchPrgRom /\ ~NoRoutine /\ ~create_rom_headerfile
      /\ ~Interrupted /\ ~DeletePrevious /\ ~MakeAll
  BY DEF create_indjump_asm_routines, patchPrgRom, NoRoutine, create_rom_headerfile, Interrupted,
     DeletePrevious, MakeAll, Failed, Answer0
<1> QED BY <1>1, <1>2, <1>3, <1>4 DEF Next

(* A well formed opcodes.txt whose mnemonics have no more lines than ops    *)
(* has entries is never read past the end of ops, and is read as it is      *)
(* written: every opcode of the text, and no other, has the size,           *)
(* addressing, mnemonic and kind that stand on its line, above it and above *)
(* its mnemonic (parser.cpp, opcode_desctxt.l, opcodes.cpp,                 *)
(* opcodes_utils.cpp).                                                      *)
THEOREM WrittenCorrect == Spec => [](WellFormed(text) => AcceptedIsWritten)
<1>1. Init => TableOfText
  BY DEF Init, TableOfText
<1>2. TypeOK /\ TableOfText /\ OneEntryEach /\ WellFormed(text) => AcceptedIsWritten
  <2> SUFFICES ASSUME TypeOK, TableOfText, OneEntryEach, WellFormed(text), pc = "open_nes", Roomy(text)
               PROVE  LET W == Written(text) IN
                      /\ \A e \in table : \E w \in W : w.opcode = e.opcode
                      /\ \A w \in W : /\ is_valid(table, w.opcode)
                                      /\ op_call_size(table, w.opcode) = w.size_B
                                      /\ addressing(table, w.opcode) = w.memaccess
                                      /\ is_mnemonic(table, w.opcode, w.mnemonic)
                                      /\ is_branch(table, w.opcode) <=>
                                            w.category = "Jump" /\ w.mnemonic \notin {"nop", "rts", "jmp", "jsr"}
    BY DEF AcceptedIsWritten
  <2>1. table = Written(text) /\ ~Overruns(text)
    <3>1. IsText(text)
      BY ConvertAssumption DEF TableOfText
    <3>2. ~Overruns(text)
      BY <3>1, SpeltWritten
    <3>3. ~build_list(text).thrown /\ table = SearchTable(build_list(text).list)
      BY <3>2 DEF TableOfText
    <3> QED BY <3>1, <3>2, <3>3, SpeltWritten
  <2>2. ASSUME NEW w \in table
        PROVE  /\ is_valid(table, w.opcode) /\ find_op(table, w.opcode) = w
    <3>1. \A e \in table : e.opcode = w.opcode => e = w
      BY <2>1 DEF OneEntryEach
    <3> QED BY <3>1 DEF is_valid, find_op
  <2>3. ASSUME NEW w \in table
        PROVE  is_branch(table, w.opcode) <=>
                  w.category = "Jump" /\ w.mnemonic \notin {"nop", "rts", "jmp", "jsr"}
    BY <2>2, Zenon DEF is_branch, is_mnemonic
  <2> QED BY <2>1, <2>2, <2>3 DEF op_call_size, addressing, is_mnemonic
<1>3. Spec => []TypeOK /\ []OneEntryEach
  BY TypeCorrect, OneEntryCorrect
<1> QED BY <1>1, <1>2, <1>3, TableOfTextStep, PTL DEF Spec
=============================================================================
