------------------------------ MODULE MCPpuMem ------------------------------
(* Tables of three bytes, two names and one attribute; a page is a table. *)
EXTENDS PpuMem

\* The end of the CHR rom, the tables, the empty range and the palettes.
MCPages == {7, 8, 9, 10, 11, 12, 15}

MCResetA == {0, 1}

MCTables == 8 * TableLen..12 * TableLen - 1
MCNames  == {a \in MCTables : a % TableLen < NameLen}

\* All that WatchedAssumption allows.
MCWatchedShown == [v \in BOOLEAN |-> IF v THEN MCTables \ MCNames ELSE MCTables]
MCWatchedRead  == [v \in BOOLEAN |-> IF v THEN {} ELSE MCNames]
=============================================================================
