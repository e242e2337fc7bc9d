---------------------------- MODULE PpuMemProofs -----------------------------
(* Theorems about module PpuMem: for tables, pages and rows of any size, any *)
(* bytes, and whatever the accumulator held at reset.                        *)
EXTENDS PpuMem, TLAPS

-----------------------------------------------------------------------------
(* Division.                                                               *)

LEMMA Monotonic ==
  ASSUME NEW d \in Nat, NEW p \in Nat, NEW q \in Nat, p <= q
  PROVE  d * p <= d * q
<1>1. d * q = (d * p) + (d * (q - p))
  OBVIOUS
<1>2. d * (q - p) >= 0
  OBVIOUS
<1> QED BY <1>1, <1>2

LEMMA Division ==
  ASSUME NEW a \in Nat, NEW d \in Nat \ {0}
  PROVE  /\ a \div d \in Nat /\ a % d \in 0..d - 1
         /\ a = (d * (a \div d)) + (a % d)
OBVIOUS

(* There is one quotient and one remainder. *)
LEMMA DivisionUnique ==
  ASSUME NEW d \in Nat \ {0}, NEW q \in Nat, NEW r \in 0..d - 1
  PROVE  ((d * q) + r) \div d = q /\ ((d * q) + r) % d = r
<1> DEFINE a == (d * q) + r
<1>0. a \in Nat
  OBVIOUS
<1> DEFINE p == a \div d
<1>1. /\ p \in Nat /\ a % d \in 0..d - 1
      /\ a = (d * p) + (a % d)
  BY <1>0, Division
<1>2. d * p \in Nat /\ d * q \in Nat
  BY <1>1
<1> HIDE DEF p
<1>3. ~(p < q)
  <2> SUFFICES ASSUME p + 1 <= q PROVE FALSE
    BY <1>1
  <2>1. d * (p + 1) <= d * q
    BY <1>1, Monotonic
  <2>2. d * (p + 1) = (d * p) + d
    BY <1>1
  <2> QED BY <1>1, <1>2, <2>1, <2>2
<1>4. ~(q < p)
  <2> SUFFICES ASSUME q + 1 <= p PROVE FALSE
    BY <1>1
  <2>1. d * (q + 1) <= d * p
    BY <1>1, Monotonic
  <2>2. d * (q + 1) = (d * q) + d
    BY <1>1
  <2> QED BY <1>1, <1>2, <2>1, <2>2
<1>5. p = q
  BY <1>1, <1>3, <1>4
<1> QED BY <1>1, <1>2, <1>5 DEF p

(* An address of two tables is a table and an offset in it. *)
LEMMA TwoTables ==
  ASSUME NEW a \in Nat, NEW d \in Nat \ {0}
  PROVE  a % (2 * d) = (((a \div d) % 2) * d) + (a % d)
<1> DEFINE q == a \div d
           r == a % d
           h == q \div 2
           b == q % 2
<1>1. q \in Nat /\ r \in 0..d - 1 /\ a = (d * q) + r
  BY Division
<1>2. h \in Nat /\ b \in {0, 1} /\ q = (2 * h) + b
  BY <1>1
<1> HIDE DEF q, r, h, b
<1>3. d * q = ((2 * d) * h) + (b * d)
  BY <1>2
<1>4. (b * d) + r \in 0..(2 * d) - 1
  BY <1>1, <1>2
<1>5. a = ((2 * d) * h) + ((b * d) + r)
  <2>1. (2 * d) * h \in Nat /\ b * d \in Nat
    BY <1>2
  <2> QED BY <1>1, <1>3, <2>1
<1>6. 2 * d \in Nat \ {0}
  OBVIOUS
<1>7. a % (2 * d) = (b * d) + r
  BY <1>2, <1>4, <1>5, <1>6, DivisionUnique
<1> QED BY <1>7 DEF q, r, b

(* The attributes at the end of a table are told apart by their remainder in *)
(* their number.                                                             *)
LEMMA EndOfTable ==
  ASSUME NEW a \in Nat, NEW d \in Nat \ {0}, NEW n \in Nat, n < d, d % (d - n) = 0, a % d >= n
  PROVE  a % (d - n) = (a % d) - n
<1> DEFINE e == d - n
           q == a \div d
           r == a % d
           k == d \div e
<1>1. q \in Nat /\ r \in 0..d - 1 /\ a = (d * q) + r /\ r >= n
  BY Division
<1>2. e \in Nat \ {0} /\ n = d - e
  OBVIOUS
<1>3. k \in Nat /\ d = e * k
  <2>1. d % e = 0
    OBVIOUS
  <2> HIDE DEF e
  <2>2. d \div e \in Nat /\ d = (e * (d \div e)) + (d % e)
    BY <1>2, Division, Zenon
  <2>3. e * (d \div e) \in Nat
    BY <1>2, <2>2
  <2> QED BY <2>1, <2>2, <2>3
<1> HIDE DEF q, r, k, e
<1>4. k >= 1
  BY <1>2, <1>3
<1>5. k - 1 \in Nat /\ k * q \in Nat
  BY <1>1, <1>3, <1>4
<1>6. n = e * (k - 1)
  BY <1>2, <1>3, <1>5
<1>7. d * q = e * (k * q)
  BY <1>1, <1>2, <1>3
<1>8. e * ((k * q) + (k - 1)) = (e * (k * q)) + (e * (k - 1))
  BY <1>2, <1>5
<1>9. r - n \in 0..e - 1
  BY <1>1, <1>2
<1>10. a = (e * ((k * q) + (k - 1))) + (r - n)
  <2> DEFINE x == e * (k * q)
             z == e * (k - 1)
  <2>1. x \in Nat /\ z \in Nat
    BY <1>2, <1>5
  <2>2. a = x + r /\ n = z
    BY <1>1, <1>6, <1>7
  <2> HIDE DEF x, z
  <2>3. a = (x + z) + (r - n)
    BY <1>1, <2>1, <2>2
  <2> QED BY <1>8, <2>3 DEF x, z
<1>11. a % e = r - n
  BY <1>2, <1>5, <1>9, <1>10, DivisionUnique
<1> QED BY <1>11 DEF e, r
-----------------------------------------------------------------------------
(* The addresses.                                                          *)

LEMMA Sizes ==
  /\ PageLen \in Nat \ {0} /\ TableLen \in Nat \ {0} /\ AttrLen \in Nat \ {0}
  /\ NameLen \in Nat /\ NameLen < TableLen /\ PalLen \in Nat /\ PalLen <= PageLen
  /\ SpaceLen \in Nat \ {0} /\ SpaceLen = 16 * TableLen /\ PageLen <= TableLen
  BY PpuAssumption DEF AttrLen, SpaceLen

(* What the number of a table can be. *)
LEMMA TableBits ==
  ASSUME NEW a \in Nat
  PROVE  Bit4(a) \in {0, 1} /\ Bit8(a) \in {0, 1}
<1>1. a \div TableLen \in Nat /\ a \div (2 * TableLen) \in Nat
  BY Sizes
<1>2. \A n \in Nat : n % 2 \in {0, 1}
  OBVIOUS
<1> QED BY <1>1, <1>2 DEF Bit4, Bit8

(* A byte is kept at its place in the table its address shows it in. *)
LEMMA KeptPlace ==
  ASSUME NEW a \in Nat
  PROVE  /\ a % TableLen \in 0..TableLen - 1
         /\ AttrKept(a) = (Bit4(a) * TableLen) + (a % TableLen)
         /\ ~vertical => NameIndex(a) = AttrKept(a)
         /\ AttrKept(a) \in Kept /\ NameIndex(a) \in Kept
<1>1. /\ TableLen \in Nat \ {0} /\ a % TableLen \in 0..TableLen - 1
      /\ Bit4(a) \in {0, 1}
  BY Sizes, Division, TableBits
<1>2. AttrKept(a) = (Bit4(a) * TableLen) + (a % TableLen)
  BY <1>1, TwoTables DEF AttrKept, Bit4
<1>3. AttrKept(a) \in Kept /\ TableLen + (a % TableLen) \in Kept
  BY <1>1, <1>2 DEF Kept
<1> QED BY <1>1, <1>2, <1>3 DEF NameIndex, AttrKept

(* Where the attributes are in the tile map. *)
LEMMA BlockPlace ==
  ASSUME NEW a \in Nat, a % TableLen >= NameLen
  PROVE  /\ AttrBlock(a) \in Blocks
         /\ a % AttrLen = (a % TableLen) - NameLen
<1>1. a % AttrLen = (a % TableLen) - NameLen
  BY PpuAssumption, Sizes, EndOfTable DEF AttrLen
<1>2. a % AttrLen \in 0..AttrLen - 1
  BY Sizes, Division
<1>3. AttrBank(a) \in {0, 1}
  BY TableBits DEF AttrBank
<1> QED BY <1>1, <1>2, <1>3 DEF AttrBlock, Blocks

-----------------------------------------------------------------------------
(* Types.                                                                  *)

(* The address stays in the space of the PPU when one of its bytes is        *)
(* replaced.                                                                 *)
LEMMA AddressType ==
  ASSUME NEW page \in Nat, page <= (SpaceLen \div PageLen) - 1, NEW low \in 0..PageLen - 1
  PROVE  (page * PageLen) + low \in 0..SpaceLen - 1
<1> DEFINE q == SpaceLen \div PageLen
<1>1. PageLen \in Nat \ {0} /\ SpaceLen \in Nat \ {0}
  BY Sizes
<1>2. q \in Nat /\ SpaceLen % PageLen \in Nat /\ SpaceLen = (PageLen * q) + (SpaceLen % PageLen)
  BY <1>1, Division
<1> HIDE DEF q
<1>3. PageLen * (page + 1) <= PageLen * q
  BY <1>1, <1>2, Monotonic DEF q
<1>4. PageLen * (page + 1) = (page * PageLen) + PageLen /\ page * PageLen \in Nat
  BY <1>1
<1>5. PageLen * q \in Nat
  BY <1>1, <1>2
<1> QED BY <1>1, <1>2, <1>3, <1>4, <1>5

(* The page of an address is one of the space. *)
LEMMA PageType ==
  ASSUME NEW a \in 0..SpaceLen - 1
  PROVE  /\ a \div PageLen \in Nat /\ a \div PageLen <= (SpaceLen \div PageLen) - 1
         /\ a % PageLen \in 0..PageLen - 1
<1> DEFINE q == SpaceLen \div PageLen
           p == a \div PageLen
           k == TableLen \div PageLen
<1>1. PageLen \in Nat \ {0} /\ TableLen \in Nat \ {0} /\ SpaceLen \in Nat \ {0} /\ a \in Nat
  BY Sizes
<1>2. p \in Nat /\ a % PageLen \in 0..PageLen - 1 /\ a = (PageLen * p) + (a % PageLen)
  BY <1>1, Division
<1>3. SpaceLen = PageLen * (16 * k) /\ k \in Nat
  <2>1. TableLen % PageLen = 0
    BY PpuAssumption
  <2>2. k \in Nat /\ TableLen = (PageLen * k) + (TableLen % PageLen)
    BY <1>1, Division, Zenon
  <2> HIDE DEF k
  <2>3. TableLen = PageLen * k
    BY <1>1, <2>1, <2>2
  <2>4. 16 * (PageLen * k) = PageLen * (16 * k)
    BY <1>1, <2>2
  <2> QED BY <1>1, <2>2, <2>3, <2>4, Sizes
<1> HIDE DEF p, k
<1>4. q = 16 * k
  <2>1. SpaceLen = (PageLen * (16 * k)) + 0 /\ 16 * k \in Nat /\ 0 \in 0..PageLen - 1
    BY <1>1, <1>3
  <2> QED BY <1>1, <2>1, DivisionUnique
<1> HIDE DEF q
<1>5. p < 16 * k
  <2> SUFFICES ASSUME 16 * k <= p PROVE FALSE
    BY <1>2, <1>3
  <2>1. PageLen * (16 * k) <= PageLen * p
    BY <1>1, <1>2, <1>3, Monotonic
  <2>2. PageLen * p \in Nat
    BY <1>1, <1>2
  <2> QED BY <1>1, <1>2, <1>3, <2>1, <2>2
<1> QED BY <1>2, <1>3, <1>4, <1>5 DEF p, q

LEMMA TypeInit == Init => TypeOK
<1>1. 0 \in Bytes /\ 0 \in 0..SpaceLen - 1
  BY PpuAssumption, Sizes
<1> QED BY <1>1 DEF Init, TypeOK

(* INCPPUADDR leaves an address, and a byte of it in the accumulator. *)
LEMMA AdvanceType ==
  ASSUME TypeOK, Advance
  PROVE  /\ addr' \in 0..SpaceLen - 1
         /\ LowByte \in 0..PageLen - 1
<1>1. incr \in Nat
  BY PpuAssumption DEF TypeOK
<1>2. addr + incr \in Nat
  BY <1>1, Sizes DEF TypeOK
<1>3. addr' \in 0..SpaceLen - 1
  BY <1>2, Sizes, Division DEF Advance
<1>4. addr' \in Nat
  BY <1>3, Sizes
<1> QED BY <1>3, <1>4, Sizes, Division DEF LowByte

(* Every step keeps the types. *)
LEMMA TypeStep == TypeOK /\ [Next]_vars => TypeOK'
<1> SUFFICES ASSUME TypeOK, [Next]_vars PROVE TypeOK'
  OBVIOUS
<1>0. /\ addr \in Nat /\ Bytes \subseteq Nat /\ 0 \in Bytes
      /\ AttrKept(addr) \in Kept /\ NameIndex(addr) \in Kept
  BY Sizes, PpuAssumption, KeptPlace DEF TypeOK
<1>1. ASSUME NEW page \in Pages, WriteAddrHigh(page)
      PROVE  TypeOK'
  <2>1. page \in Nat /\ page <= (SpaceLen \div PageLen) - 1
    <3>1. SpaceLen \div PageLen \in Nat
      BY Sizes, Division
    <3> QED BY <3>1, PpuAssumption DEF SpaceLen
  <2>2. addr' \in 0..SpaceLen - 1
    BY <1>1, <2>1, AddressType, PageType DEF TypeOK, WriteAddrHigh
  <2> QED BY <1>1, <2>2 DEF TypeOK, WriteAddrHigh, memory
<1>2. ASSUME NEW low \in 0..PageLen - 1, WriteAddrLow(low)
      PROVE  TypeOK'
  <2>1. addr' \in 0..SpaceLen - 1
    BY <1>2, AddressType, PageType DEF TypeOK, WriteAddrLow
  <2> QED BY <1>2, <2>1 DEF TypeOK, WriteAddrLow, memory
<1>3. CASE ReadStatus
  BY <1>3 DEF TypeOK, ReadStatus, memory
<1>4. CASE WriteScroll
  BY <1>4 DEF TypeOK, WriteScroll, memory
<1>5. ASSUME NEW i \in {1, Row}, WriteControl1(i)
      PROVE  TypeOK'
  BY <1>5 DEF TypeOK, WriteControl1, memory
<1>6. ASSUME NEW v \in Bytes, NametableW(v)
      PROVE  TypeOK'
  <2>1. addr' \in 0..SpaceLen - 1
    BY <1>6, AdvanceType DEF NametableW
  <2> QED BY <1>0, <1>6, <2>1 DEF TypeOK, NametableW, Advance
<1>7. ASSUME NEW v \in Bytes, AttrtableW(v)
      PROVE  TypeOK'
  <2>1. addr' \in 0..SpaceLen - 1
    BY <1>7, AdvanceType DEF AttrtableW
  <2> QED BY <1>7, <2>1 DEF TypeOK, AttrtableW, Advance
<1>8. CASE PaletteW
  <2>1. addr' \in 0..SpaceLen - 1
    BY <1>8, AdvanceType DEF PaletteW
  <2> QED BY <1>8, <2>1 DEF TypeOK, PaletteW, Advance, memory
<1>9. CASE EmptyW
  BY <1>9 DEF TypeOK, EmptyW, vars
<1>10. CASE Latched
  BY <1>0, <1>10 DEF TypeOK, Latched, memory
<1>11. CASE NametableR
  <2>1. addr' \in 0..SpaceLen - 1
    BY <1>11, AdvanceType DEF NametableR
  <2>2. out' \in Bytes
    BY <1>0, <1>11 DEF TypeOK, NametableR
  <2> QED BY <1>11, <2>1, <2>2 DEF TypeOK, NametableR, Advance, memory
<1>12. CASE AttrtableR \/ PaletteR
  <2>1. addr' \in 0..SpaceLen - 1 /\ out' \in 0..PageLen - 1
    BY <1>12, AdvanceType DEF AttrtableR, PaletteR
  <2> QED BY <1>12, <2>1 DEF TypeOK, AttrtableR, PaletteR, Advance, memory
<1>13. ASSUME NEW v \in Bytes, CHRDataR(v)
       PROVE  TypeOK'
  <2>1. addr' \in 0..SpaceLen - 1
    BY <1>13, AdvanceType DEF CHRDataR
  <2> QED BY <1>13, <2>1 DEF TypeOK, CHRDataR, Advance, memory
<1>14. ASSUME NEW v \in Bytes, EmptyR(v)
       PROVE  TypeOK'
  BY <1>14 DEF TypeOK, EmptyR, registers, memory
<1>15. CASE UNCHANGED vars
  BY <1>15 DEF TypeOK, vars
<1> QED BY <1>1, <1>2, <1>3, <1>4, <1>5, <1>6, <1>7, <1>8, <1>9, <1>10, <1>11, <1>12, <1>13, <1>14, <1>15
        DEF Next, WriteData, ReadData

(* The address register never leaves the space of the PPU, whatever the      *)
(* game writes and wherever it reads; what is kept and shown are bytes.      *)
THEOREM TypeCorrect == Spec => []TypeOK
  BY TypeInit, TypeStep, PTL DEF Spec

-----------------------------------------------------------------------------
(* The two tables of the NES.                                              *)

(* The names and the attributes are told apart by their place in a table:    *)
(* the bytes shown at two addresses are one, exactly when the NES has one    *)
(* byte behind the two.                                                      *)
LEMMA NameCells ==
  ASSUME NEW a \in Nat, NEW b \in Nat, ~vertical
  PROVE  NameIndex(a) = NameIndex(b) <=> Shown!Cell(a) = Shown!Cell(b)
<1>1. /\ TableLen \in Nat \ {0}
      /\ a % TableLen \in 0..TableLen - 1 /\ b % TableLen \in 0..TableLen - 1
      /\ Bit4(a) \in {0, 1} /\ Bit4(b) \in {0, 1}
  BY Sizes, KeptPlace, TableBits
<1>2. /\ NameIndex(a) = (Bit4(a) * TableLen) + (a % TableLen)
      /\ NameIndex(b) = (Bit4(b) * TableLen) + (b % TableLen)
  BY KeptPlace
<1>3. NameIndex(a) = NameIndex(b) <=> Bit4(a) = Bit4(b) /\ a % TableLen = b % TableLen
  BY <1>1, <1>2
<1> QED BY <1>3 DEF Shown!Cell, Bit4

LEMMA BlockCells ==
  ASSUME NEW a \in Nat, NEW b \in Nat, vertical \in BOOLEAN,
         a % TableLen >= NameLen, b % TableLen >= NameLen
  PROVE  AttrBlock(a) = AttrBlock(b) <=> Shown!Cell(a) = Shown!Cell(b)
<1>1. /\ a % AttrLen = (a % TableLen) - NameLen
      /\ b % AttrLen = (b % TableLen) - NameLen
  BY BlockPlace
<1>2. a % TableLen \in Nat /\ b % TableLen \in Nat /\ NameLen \in Nat
  BY Sizes, Division
<1>3. a % AttrLen = b % AttrLen <=> a % TableLen = b % TableLen
  BY <1>1, <1>2
<1> QED BY <1>3 DEF AttrBlock, AttrBank, Shown!Cell, Bit4, Bit8

LEMMA SameCell ==
  ASSUME NEW a, NEW b, Shown!Cell(a) = Shown!Cell(b)
  PROVE  a % TableLen = b % TableLen
  BY DEF Shown!Cell

(* The addresses compared. *)
LEMMA WatchedFacts ==
  ASSUME vertical \in BOOLEAN
  PROVE  /\ \A a \in WatchedShown[vertical] : a \in Nat /\ (vertical => a % TableLen >= NameLen)
         /\ \A a \in WatchedRead[vertical] : a \in Nat /\ ~vertical /\ a % TableLen < NameLen
<1>1. 8 * TableLen..12 * TableLen - 1 \subseteq Nat
  BY Sizes
<1>2. WatchedShown[vertical] \subseteq Nat /\ WatchedRead[vertical] \subseteq Nat
  BY <1>1, PpuAssumption
<1> QED BY <1>2, WatchedAssumption

(* A name written shows at the mirrors of its address, and nowhere else. *)
LEMMA NameShown ==
  ASSUME TypeOK, NEW v \in Bytes, NametableW(v), NEW a \in WatchedShown[vertical]
  PROVE  ShownAt(a)' = IF a \in Shown!Mirrors(addr) THEN v ELSE ShownAt(a)
<1>1. /\ addr \in Nat /\ addr % TableLen < NameLen
      /\ a \in Nat /\ vertical \in BOOLEAN /\ (vertical => a % TableLen >= NameLen)
  BY Sizes, WatchedFacts DEF TypeOK, NametableW, InName
<1>2. /\ UNCHANGED <<vertical, attrs>>
      /\ names' = [names EXCEPT ![NameIndex(addr)] = v]
      /\ names \in [Kept -> Bytes]
  BY DEF NametableW, Advance, TypeOK
<1>3. NameIndex(addr) \in Kept /\ NameIndex(a) \in Kept /\ a % TableLen \in Nat
  BY <1>1, KeptPlace
<1>4. a \in Shown!Mirrors(addr) <=> Shown!Cell(a) = Shown!Cell(addr)
  BY DEF Shown!Mirrors
<1>5. NameIndex(a)' = NameIndex(a) /\ AttrBlock(a)' = AttrBlock(a)
  BY <1>2 DEF NameIndex, AttrBlock, AttrBank
<1>6. CASE a % TableLen < NameLen
  <2>1. ~vertical
    BY <1>1, <1>3, <1>6, Sizes
  <2>2. NameIndex(a) = NameIndex(addr) <=> Shown!Cell(a) = Shown!Cell(addr)
    BY <1>1, <2>1, NameCells
  <2> QED BY <1>2, <1>3, <1>4, <1>5, <1>6, <2>2 DEF ShownAt
<1>7. CASE ~(a % TableLen < NameLen)
  <2>1. Shown!Cell(a) # Shown!Cell(addr)
    BY <1>1, <1>7, SameCell
  <2> QED BY <1>2, <1>4, <1>5, <1>7, <2>1 DEF ShownAt
<1> QED BY <1>6, <1>7

(* So does an attribute. *)
LEMMA AttrShown ==
  ASSUME TypeOK, NEW v \in Bytes, AttrtableW(v), NEW a \in WatchedShown[vertical]
  PROVE  ShownAt(a)' = IF a \in Shown!Mirrors(addr) THEN v ELSE ShownAt(a)
<1>1. /\ addr \in Nat /\ addr % TableLen >= NameLen /\ a \in Nat /\ vertical \in BOOLEAN
  BY Sizes, WatchedFacts DEF TypeOK, AttrtableW, InAttr
<1>2. /\ UNCHANGED <<vertical, names>>
      /\ attrs' = [attrs EXCEPT ![AttrBlock(addr)] = v]
      /\ attrs \in [Blocks -> Bytes]
  BY DEF AttrtableW, Advance, TypeOK
<1>3. a % TableLen \in Nat
  BY <1>1, KeptPlace
<1>4. a \in Shown!Mirrors(addr) <=> Shown!Cell(a) = Shown!Cell(addr)
  BY DEF Shown!Mirrors
<1>5. NameIndex(a)' = NameIndex(a) /\ AttrBlock(a)' = AttrBlock(a)
  BY <1>2 DEF NameIndex, AttrBlock, AttrBank
<1>6. CASE a % TableLen >= NameLen
  <2>1. AttrBlock(a) \in Blocks /\ AttrBlock(addr) \in Blocks
    BY <1>1, <1>6, BlockPlace
  <2>2. AttrBlock(a) = AttrBlock(addr) <=> Shown!Cell(a) = Shown!Cell(addr)
    BY <1>1, <1>6, BlockCells
  <2>3. ~(a % TableLen < NameLen)
    BY <1>3, <1>6, Sizes
  <2> QED BY <1>2, <1>4, <1>5, <2>1, <2>2, <2>3 DEF ShownAt
<1>7. CASE ~(a % TableLen >= NameLen)
  <2>1. Shown!Cell(a) # Shown!Cell(addr)
    BY <1>1, <1>7, SameCell
  <2>2. a % TableLen < NameLen
    BY <1>3, <1>7, Sizes
  <2> QED BY <1>2, <1>4, <1>5, <2>1, <2>2 DEF ShownAt
<1> QED BY <1>6, <1>7

(* A step of the port is a step of the NES, seen by what it shows.                  *)
LEMMA ShownStep == TypeOK /\ TypeOK' /\ [Next]_vars => [Shown!Next]_(Shown!vars)
<1> SUFFICES ASSUME TypeOK, TypeOK', [Next]_vars PROVE [Shown!Next]_(Shown!vars)
  OBVIOUS
<1> DEFINE ram == [a \in WatchedShown[vertical] |-> ShownAt(a)]
<1>0. /\ addr \in Nat /\ addr \in 0..SpaceLen - 1 /\ SpaceLen = 16 * TableLen
      /\ vertical \in BOOLEAN /\ toggle \in BOOLEAN /\ toggle' \in BOOLEAN
      /\ out \in Nat /\ out' \in Nat
  <2>1. Bytes \cup 0..PageLen - 1 \subseteq Nat
    BY PpuAssumption
  <2> QED BY <2>1, Sizes DEF TypeOK
<1>1. ASSUME UNCHANGED <<vertical, memory>>
      PROVE  ram' = ram
  BY <1>1 DEF memory, ShownAt, NameIndex, AttrBlock, AttrBank
<1>2. ASSUME NEW page \in Pages, WriteAddrHigh(page)
      PROVE  Shown!WriteAddr
  <2>1. page \in 0..Shown!SpaceLen \div PageLen - 1
    BY PpuAssumption, <1>0 DEF Shown!SpaceLen
  <2>2. addr % PageLen \in 0..PageLen - 1
    BY PageType, <1>0
  <2>3. /\ ~toggle /\ toggle' = TRUE /\ addr' = (page * PageLen) + (addr % PageLen)
        /\ UNCHANGED <<vertical, incr, out>> /\ ram' = ram
    BY <1>1, <1>2 DEF WriteAddrHigh
  <2> HIDE DEF ram
  <2> QED BY <2>1, <2>2, <2>3 DEF Shown!WriteAddr, ram
<1>3. ASSUME NEW low \in 0..PageLen - 1, WriteAddrLow(low)
      PROVE  Shown!WriteAddr
  <2>1. addr \div PageLen \in 0..Shown!SpaceLen \div PageLen - 1
    <3>1. SpaceLen \div PageLen \in Nat
      BY Sizes, Division
    <3> QED BY <3>1, PageType, <1>0 DEF Shown!SpaceLen, SpaceLen
  <2>2. /\ toggle /\ toggle' = FALSE /\ addr' = ((addr \div PageLen) * PageLen) + low
        /\ UNCHANGED <<vertical, incr, out>> /\ ram' = ram
    BY <1>0, <1>1, <1>3 DEF WriteAddrLow
  <2> HIDE DEF ram
  <2> QED BY <2>1, <2>2 DEF Shown!WriteAddr, ram
<1>4. CASE ReadStatus \/ WriteScroll
  <2>1. UNCHANGED <<vertical, addr, incr, out>> /\ ram' = ram
    BY <1>1, <1>4 DEF ReadStatus, WriteScroll
  <2> QED BY <1>0, <2>1 DEF Shown!Next, Shown!Toggle
<1>5. ASSUME NEW i \in {1, Row}, WriteControl1(i)
      PROVE  Shown!Control
  <2>1. UNCHANGED <<vertical, addr, toggle, out>> /\ ram' = ram /\ incr' = i
    BY <1>1, <1>5 DEF WriteControl1
  <2> QED BY <2>1 DEF Shown!Control
<1>6. ASSUME NEW v \in Bytes, NametableW(v) \/ AttrtableW(v)
      PROVE  Shown!WriteTable
  <2>1. /\ addr \in Shown!Tables /\ addr' = (addr + incr) % SpaceLen
        /\ UNCHANGED <<vertical, toggle, incr, out>>
    BY <1>6 DEF NametableW, AttrtableW, InName, InAttr, InTables, Shown!Tables, Advance
  <2>2. ram' = [a \in WatchedShown[vertical] |-> IF a \in Shown!Mirrors(addr) THEN v ELSE ShownAt(a)]
    BY <1>6, <2>1, NameShown, AttrShown
  <2>3. ram' = [a \in WatchedShown[vertical] |-> IF a \in Shown!Mirrors(addr) THEN v ELSE ram[a]]
    BY <2>2
  <2> HIDE DEF ram
  <2> QED BY <1>0, <2>1, <2>3 DEF Shown!WriteTable, Shown!Advance, Shown!SpaceLen, ram
<1>7. ASSUME PaletteW \/ PaletteR
      PROVE  Shown!Elsewhere
  <2>1. addr \notin Shown!Tables
    BY <1>0, <1>7, Sizes DEF PaletteW, PaletteR, InPalette, PalBase, Shown!Tables
  <2>2. /\ addr' = (addr + incr) % SpaceLen /\ UNCHANGED <<vertical, toggle, incr>>
        /\ ram' = ram
    BY <1>1, <1>7 DEF PaletteW, PaletteR, Advance
  <2> QED BY <1>0, <2>1, <2>2 DEF Shown!Elsewhere, Shown!Advance, Shown!SpaceLen
<1>8. ASSUME Latched
      PROVE  Shown!ReadTable \/ Shown!Elsewhere
  <2>1. UNCHANGED <<vertical, addr, toggle, incr>> /\ ram' = ram
    BY <1>1, <1>8 DEF Latched
  <2> QED BY <1>0, <2>1 DEF Shown!ReadTable, Shown!Elsewhere
<1>9. ASSUME NametableR \/ AttrtableR
      PROVE  Shown!ReadTable
  <2>1. /\ addr \in Shown!Tables /\ addr' = (addr + incr) % SpaceLen
        /\ UNCHANGED <<vertical, toggle, incr>> /\ ram' = ram
    BY <1>1, <1>9 DEF NametableR, AttrtableR, InName, InAttr, InTables, Shown!Tables, Advance
  <2>2. addr \notin [s \in BOOLEAN |-> {}][vertical]
    BY <1>0
  <2> HIDE DEF ram
  <2> QED BY <1>0, <2>1, <2>2 DEF Shown!ReadTable, Shown!Advance, Shown!SpaceLen, ram
<1>10. ASSUME NEW v \in Bytes, CHRDataR(v)
       PROVE  Shown!Elsewhere
  <2>1. addr \notin Shown!Tables
    BY <1>0, <1>10, Sizes DEF CHRDataR, InChr, Shown!Tables
  <2>2. /\ addr' = (addr + incr) % SpaceLen /\ UNCHANGED <<vertical, toggle, incr>>
        /\ ram' = ram
    BY <1>1, <1>10 DEF CHRDataR, Advance
  <2> QED BY <1>0, <2>1, <2>2 DEF Shown!Elsewhere, Shown!Advance, Shown!SpaceLen
<1>11. ASSUME NEW v \in Bytes, EmptyR(v)
       PROVE  Shown!Elsewhere
  <2>1. addr \notin Shown!Tables
    BY <1>11 DEF EmptyR, InEmpty, InTables, Shown!Tables
  <2>2. UNCHANGED <<vertical, addr, toggle, incr>> /\ ram' = ram
    BY <1>1, <1>11 DEF EmptyR, registers
  <2> QED BY <1>0, <2>1, <2>2 DEF Shown!Elsewhere
<1>12. CASE UNCHANGED vars \/ EmptyW
  <2>1. UNCHANGED <<vertical, addr, toggle, incr, out>> /\ ram' = ram
    BY <1>1, <1>12 DEF EmptyW, vars, memory
  <2> QED BY <2>1 DEF Shown!vars
<1> HIDE DEF ram
<1> QED BY <1>2, <1>3, <1>4, <1>5, <1>6, <1>7, <1>8, <1>9, <1>10, <1>11, <1>12
        DEF Next, WriteData, ReadData, Shown!Next

(* The screen is that of the NES: what the game writes at an address of the  *)
(* tables, by whatever accesses, shows at the mirrors of the address and     *)
(* nowhere else, for tables and steps of any size.                           *)
THEOREM ShownCorrect == Spec => ShownLikeNes
<1>1. Init => Shown!Init
  <2> SUFFICES ASSUME Init PROVE Shown!Init
    OBVIOUS
  <2>1. incr \in Nat /\ vertical \in BOOLEAN
    BY PpuAssumption DEF Init
  <2>2. ASSUME NEW a \in WatchedShown[vertical]
        PROVE  ShownAt(a) = 0
    <3>1. a \in Nat
      BY <2>1, WatchedFacts
    <3>2. NameIndex(a) \in Kept /\ a % TableLen \in Nat
      BY <3>1, KeptPlace
    <3>3. ~(a % TableLen < NameLen) => AttrBlock(a) \in Blocks
      BY <3>1, <3>2, BlockPlace, Sizes
    <3> QED BY <3>2, <3>3 DEF ShownAt, Init
  <2> QED BY <2>1, <2>2 DEF Init, Shown!Init
<1>2. Spec => []TypeOK
  BY TypeCorrect
<1> QED BY <1>1, <1>2, ShownStep, PTL DEF Spec, ShownLikeNes, Shown!Spec

(* A byte written is kept at its place, and at no other place that is read. *)
LEMMA WriteKept ==
  ASSUME TypeOK, NEW v \in Bytes, NametableW(v) \/ AttrtableW(v), NEW a \in WatchedRead[vertical]
  PROVE  KeptAt(a)' = IF a \in Stored!Mirrors(addr) THEN v ELSE KeptAt(a)
<1>1. /\ addr \in Nat /\ a \in Nat /\ ~vertical /\ a % TableLen < NameLen
  BY Sizes, WatchedFacts DEF TypeOK
<1>2. UNCHANGED vertical /\ mem \in [Kept -> Bytes]
  BY DEF NametableW, AttrtableW, Advance, TypeOK
<1>3. mem' = [mem EXCEPT ![NameIndex(addr)] = v]
  BY <1>1, KeptPlace DEF NametableW, AttrtableW
<1>4. NameIndex(addr) \in Kept /\ NameIndex(a) \in Kept
  BY <1>1, KeptPlace
<1>5. a \in Stored!Mirrors(addr) <=> Shown!Cell(a) = Shown!Cell(addr)
  BY DEF Stored!Mirrors, Stored!Cell, Shown!Cell
<1>6. NameIndex(a) = NameIndex(addr) <=> Shown!Cell(a) = Shown!Cell(addr)
  BY <1>1, NameCells
<1>7. NameIndex(a)' = NameIndex(a)
  BY <1>2 DEF NameIndex
<1> QED BY <1>1, <1>2, <1>3, <1>4, <1>5, <1>6, <1>7 DEF KeptAt

(* A step of the port is a step of the NES, seen by what it keeps for the reads.   *)
LEMMA StoredStep == TypeOK /\ TypeOK' /\ [Next]_vars => [Stored!Next]_(Stored!vars)
<1> SUFFICES ASSUME TypeOK, TypeOK', [Next]_vars PROVE [Stored!Next]_(Stored!vars)
  OBVIOUS
<1> DEFINE ram == [a \in WatchedRead[vertical] |-> KeptAt(a)]
<1>0. /\ addr \in Nat /\ addr \in 0..SpaceLen - 1 /\ SpaceLen = 16 * TableLen
      /\ vertical \in BOOLEAN /\ toggle \in BOOLEAN /\ toggle' \in BOOLEAN
      /\ out \in Nat /\ out' \in Nat
  <2>1. Bytes \cup 0..PageLen - 1 \subseteq Nat
    BY PpuAssumption
  <2> QED BY <2>1, Sizes DEF TypeOK
<1>1. ASSUME UNCHANGED <<vertical, memory>>
      PROVE  ram' = ram
  BY <1>1 DEF memory, KeptAt, NameIndex, AttrKept
<1>2. ASSUME NEW page \in Pages, WriteAddrHigh(page)
      PROVE  Stored!WriteAddr
  <2>1. page \in 0..Stored!SpaceLen \div PageLen - 1
    BY PpuAssumption, <1>0 DEF Stored!SpaceLen
  <2>2. addr % PageLen \in 0..PageLen - 1
    BY PageType, <1>0
  <2>3. /\ ~toggle /\ toggle' = TRUE /\ addr' = (page * PageLen) + (addr % PageLen)
        /\ UNCHANGED <<vertical, incr, out>> /\ ram' = ram
    BY <1>1, <1>2 DEF WriteAddrHigh
  <2> HIDE DEF ram
  <2> QED BY <2>1, <2>2, <2>3 DEF Stored!WriteAddr, ram
<1>3. ASSUME NEW low \in 0..PageLen - 1, WriteAddrLow(low)
      PROVE  Stored!WriteAddr
  <2>1. addr \div PageLen \in 0..Stored!SpaceLen \div PageLen - 1
    <3>1. SpaceLen \div PageLen \in Nat
      BY Sizes, Division
    <3> QED BY <3>1, PageType, <1>0 DEF Stored!SpaceLen, SpaceLen
  <2>2. /\ toggle /\ toggle' = FALSE /\ addr' = ((addr \div PageLen) * PageLen) + low
        /\ UNCHANGED <<vertical, incr, out>> /\ ram' = ram
    BY <1>0, <1>1, <1>3 DEF WriteAddrLow
  <2> HIDE DEF ram
  <2> QED BY <2>1, <2>2 DEF Stored!WriteAddr, ram
<1>4. CASE ReadStatus \/ WriteScroll
  <2>1. UNCHANGED <<vertical, addr, incr, out>> /\ ram' = ram
    BY <1>1, <1>4 DEF ReadStatus, WriteScroll
  <2> QED BY <1>0, <2>1 DEF Stored!Next, Stored!Toggle
<1>5. ASSUME NEW i \in {1, Row}, WriteControl1(i)
      PROVE  Stored!Control
  <2>1. UNCHANGED <<vertical, addr, toggle, out>> /\ ram' = ram /\ incr' = i
    BY <1>1, <1>5 DEF WriteControl1
  <2> QED BY <2>1 DEF Stored!Control
<1>6. ASSUME NEW v \in Bytes, NametableW(v) \/ AttrtableW(v)
      PROVE  Stored!WriteTable
  <2>1. /\ addr \in Stored!Tables /\ addr' = (addr + incr) % SpaceLen
        /\ UNCHANGED <<vertical, toggle, incr, out>>
    BY <1>6 DEF NametableW, AttrtableW, InName, InAttr, InTables, Stored!Tables, Advance
  <2>2. ram' = [a \in WatchedRead[vertical] |-> IF a \in Stored!Mirrors(addr) THEN v ELSE KeptAt(a)]
    BY <1>6, <2>1, WriteKept, WatchedFacts
  <2>3. ram' = [a \in WatchedRead[vertical] |-> IF a \in Stored!Mirrors(addr) THEN v ELSE ram[a]]
    BY <2>2
  <2> HIDE DEF ram
  <2> QED BY <1>0, <2>1, <2>3 DEF Stored!WriteTable, Stored!Advance, Stored!SpaceLen, ram
<1>7. ASSUME PaletteW \/ PaletteR
      PROVE  Stored!Elsewhere
  <2>1. addr \notin Stored!Tables
    BY <1>0, <1>7, Sizes DEF PaletteW, PaletteR, InPalette, PalBase, Stored!Tables
  <2>2. /\ addr' = (addr + incr) % SpaceLen /\ UNCHANGED <<vertical, toggle, incr>>
        /\ ram' = ram
    BY <1>1, <1>7 DEF PaletteW, PaletteR, Advance
  <2> QED BY <1>0, <2>1, <2>2 DEF Stored!Elsewhere, Stored!Advance, Stored!SpaceLen
<1>8. ASSUME Latched
      PROVE  Stored!ReadTable \/ Stored!Elsewhere
  <2>1. UNCHANGED <<vertical, addr, toggle, incr>> /\ ram' = ram
    BY <1>1, <1>8 DEF Latched
  <2> QED BY <1>0, <2>1 DEF Stored!ReadTable, Stored!Elsewhere
<1>9. ASSUME NametableR \/ AttrtableR
      PROVE  Stored!ReadTable
  <2>1. /\ addr \in Stored!Tables /\ addr' = (addr + incr) % SpaceLen
        /\ UNCHANGED <<vertical, toggle, incr>> /\ ram' = ram
    BY <1>1, <1>9 DEF NametableR, AttrtableR, InName, InAttr, InTables, Stored!Tables, Advance
  <2>2. addr \in WatchedRead[vertical] => out' = ram[addr]
    <3> SUFFICES ASSUME addr \in WatchedRead[vertical] PROVE out' = KeptAt(addr)
      OBVIOUS
    <3>1. addr % TableLen < NameLen /\ addr % TableLen \in Nat /\ NameLen \in Nat
      BY <1>0, WatchedFacts, Sizes, Division
    <3>2. NametableR
      BY <1>9, <3>1 DEF AttrtableR, InAttr
    <3> QED BY <3>1, <3>2 DEF NametableR, KeptAt
  <2> HIDE DEF ram
  <2> QED BY <1>0, <2>1, <2>2 DEF Stored!ReadTable, Stored!Advance, Stored!SpaceLen, ram
<1>10. ASSUME NEW v \in Bytes, CHRDataR(v)
       PROVE  Stored!Elsewhere
  <2>1. addr \notin Stored!Tables
    BY <1>0, <1>10, Sizes DEF CHRDataR, InChr, Stored!Tables
  <2>2. /\ addr' = (addr + incr) % SpaceLen /\ UNCHANGED <<vertical, toggle, incr>>
        /\ ram' = ram
    BY <1>1, <1>10 DEF CHRDataR, Advance
  <2> QED BY <1>0, <2>1, <2>2 DEF Stored!Elsewhere, Stored!Advance, Stored!SpaceLen
<1>11. ASSUME NEW v \in Bytes, EmptyR(v)
       PROVE  Stored!Elsewhere
  <2>1. addr \notin Stored!Tables
    BY <1>11 DEF EmptyR, InEmpty, InTables, Stored!Tables
  <2>2. UNCHANGED <<vertical, addr, toggle, incr>> /\ ram' = ram
    BY <1>1, <1>11 DEF EmptyR, registers
  <2> QED BY <1>0, <2>1, <2>2 DEF Stored!Elsewhere
<1>12. CASE UNCHANGED vars \/ EmptyW
  <2>1. UNCHANGED <<vertical, addr, toggle, incr, out>> /\ ram' = ram
    BY <1>1, <1>12 DEF EmptyW, vars, memory
  <2> QED BY <2>1 DEF Stored!vars
<1> HIDE DEF ram
<1> QED BY <1>2, <1>3, <1>4, <1>5, <1>6, <1>7, <1>8, <1>9, <1>10, <1>11, <1>12
        DEF Next, WriteData, ReadData, Stored!Next

(* A read returns the byte last written at its address or at a mirror of it, *)
(* wherever the two scrollings leave the NES and the emulation comparable.   *)
THEOREM ReadCorrect == Spec => ReadLikeNes
<1>1. Init => Stored!Init
  <2> SUFFICES ASSUME Init PROVE Stored!Init
    OBVIOUS
  <2>1. incr \in Nat /\ vertical \in BOOLEAN
    BY PpuAssumption DEF Init
  <2>2. ASSUME NEW a \in WatchedRead[vertical]
        PROVE  KeptAt(a) = 0
    <3>1. a \in Nat /\ a % TableLen < NameLen
      BY <2>1, WatchedFacts
    <3>2. NameIndex(a) \in Kept
      BY <3>1, KeptPlace
    <3> QED BY <3>1, <3>2 DEF KeptAt, Init
  <2> QED BY <2>1, <2>2 DEF Init, Stored!Init
<1>2. Spec => []TypeOK
  BY TypeCorrect
<1> QED BY <1>1, <1>2, StoredStep, PTL DEF Spec, ReadLikeNes, Stored!Spec
=============================================================================
