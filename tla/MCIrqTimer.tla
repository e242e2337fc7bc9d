----------------------------- MODULE MCIrqTimer -----------------------------
(* Frames of 20 to 24 lines for IrqTimer, ordered as the real one.         *)
EXTENDS IrqTimer

\* Sprite 0 just above the sound line, on it, under it, in vblank, and past
\* the byte.
MCSprYs == {1, 5, 9, 15, 18}

\* Those far enough from the other lines for late handlers.
MCApartSprYs == {1, 9, 15, 18}

MCEarlyVblank == {VbStart, VbStart + 1, Lines - 4}
MCSomeLines == {0, 6, 7, 14} \cup MCEarlyVblank
=============================================================================
