------------------------------ MODULE NesVram -------------------------------
(***************************************************************************)
(* The name and attribute tables of the NES behind ports $2006 and $2007,  *)
(* as the comments of iopemulation.asm describe them: two real tables,     *)
(* seen at four addresses, written and read through an address register    *)
(* that takes its high byte first.                                         *)
(***************************************************************************)
EXTENDS Naturals

CONSTANTS
  PageLen,    \* addresses in a page: 256
  TableLen,   \* addresses in a table, its names and its attributes: $400
  Row,        \* the second increment: 32
  Bytes,      \* values
  Watched,    \* the addresses compared, for each scrolling
  Readable    \* those whose reads are compared

VARIABLES
  vertical, \* the cartridge scrolls vertically: the tables are side by side
            \* mirrored ($2000 is $2400, $2800 is $2C00)
  vaddr,    \* the address register
  toggle,   \* the next byte written to $2006 or $2005 is the second one
  step,     \* 1 or Row; nothing is said of it before $2000 is written
  ram,      \* ram[a]: the byte at the watched address a
  out       \* the byte the last read returned

vars == <<vertical, vaddr, toggle, step, ram, out>>

SpaceLen == 16 * TableLen
Tables == 8 * TableLen..12 * TableLen - 1

\* The byte of the two real tables behind an address.
Cell(a) == LET table == IF vertical THEN (a \div (2 * TableLen)) % 2
                                    ELSE (a \div TableLen) % 2
           IN <<table, a % TableLen>>

Mirrors(a) == {b \in Watched[vertical] : Cell(b) = Cell(a)}

Init ==
  /\ vertical \in BOOLEAN
  /\ vaddr = 0 /\ toggle = FALSE /\ step \in Nat
  /\ ram = [a \in Watched[vertical] |-> 0]
  /\ out = 0

WriteAddr ==
  /\ \E page \in 0..SpaceLen \div PageLen - 1, low \in 0..PageLen - 1 :
       /\ vaddr' = page * PageLen + low
       /\ IF toggle THEN page = vaddr \div PageLen ELSE low = vaddr % PageLen
  /\ toggle' = ~toggle
  /\ UNCHANGED <<vertical, step, ram, out>>

\* $2002 forgets the first byte, $2005 shares the toggle, $2000 sets the step.
Toggle == toggle' \in BOOLEAN /\ UNCHANGED <<vertical, vaddr, step, ram, out>>
Control == step' \in {1, Row} /\ UNCHANGED <<vertical, vaddr, toggle, ram, out>>

Advance == vaddr' = (vaddr + step) % SpaceLen

WriteTable ==
  /\ vaddr \in Tables
  /\ \E v \in Bytes : ram' = [a \in Watched[vertical] |-> IF a \in Mirrors(vaddr) THEN v ELSE ram[a]]
  /\ Advance
  /\ UNCHANGED <<vertical, toggle, step, out>>

\* The first read after the address is set returns nothing of use; the next
\* ones return the bytes from that address on.
ReadTable ==
  /\ vaddr \in Tables
  /\ \/ vaddr' = vaddr
     \/ /\ Advance
        /\ vaddr \in Readable[vertical] => out' = ram[vaddr]
  /\ out' \in Nat
  /\ UNCHANGED <<vertical, toggle, step, ram>>

\* The rest of the memory: CHR rom, palettes, mirrors of the tables.
Elsewhere ==
  /\ vaddr \notin Tables
  /\ Advance \/ vaddr' = vaddr
  /\ out' \in Nat
  /\ UNCHANGED <<vertical, toggle, step, ram>>

Next == WriteAddr \/ Toggle \/ Control \/ WriteTable \/ ReadTable \/ Elsewhere

Spec == Init /\ [][Next]_vars
=============================================================================
