----------------------------- MODULE MCPatchPrg -----------------------------
(* Listings of up to three accesses for PatchPrg.                          *)
EXTENDS PatchPrg

I(mn, mode, operand) == [mn |-> mn, mode |-> mode, operand |-> operand]

\* The kinds of stubs and the ways they are missing: addressing modes that
\* abort, joypad opcodes without a stub, a mnemonic without emulation.
Menu == {I("sta", "abs", PPUCTRL), I("lda", "absx", PPUCTRL), I("stx", "abs", PPUCTRL),
         I("lda", "abs", PPUSTATUS), I("lda", "absx", PPUSTATUS), I("bit", "abs", PPUSTATUS),
         I("sta", "abs", PPUADDR),
         I("sta", "absx", SND_FIRST), I("lda", "abs", SNDSTATUS),
         I("sta", "abs", JOY1), I("lda", "abs", JOY1), I("ldx", "abs", JOY1),
         I("lda", "absy", JOY2), I("cmp", "abs", PPUSTATUS),
         I("sta", "abs", 16408), I("jmp", "ind", 6)}

MCPrograms ==
  {[code |-> c, jumps |-> j, disabled |-> d] :
     c \in BoundedSeq(Menu, 3), j \in {<<>>, <<6>>, <<7, 6>>}, d \in BOOLEAN}
=============================================================================
