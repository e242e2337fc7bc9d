----------------------------- MODULE NmiControl ------------------------------
(* What the two parts of the vertical blanking handler share: whether the   *)
(* game has its interrupt enabled, bit 7 of $2000.                          *)
EXTENDS Naturals

VARIABLE NESNMIENABLED
=============================================================================
