--------------------------- MODULE EmuFlashProofs ---------------------------
(***************************************************************************)
(* The emulator's flash file, for any geometry that fits a 32-bit position *)
(* and any number of calls.  The argument: a block of a bank has a slot in *)
(* the file, counted modulo the number of slots; the blocks of the FTL     *)
(* have slots of their own although the last one may have wrapped, and a   *)
(* page lies in one piece within its slot.  The format erases the slot of  *)
(* every block of the FTL, and once it is over a page operation touches    *)
(* its own slot and its own buffer.                                        *)
(***************************************************************************)
EXTENDS EmuFlash, TLAPS

\* Where a block is in the file.
BlockSectors == PPB * SPP
Slots == PosSectors \div BlockSectors
Slot(b, v) == (b * LogBlks + v) % Slots

\* The format has erased block v of bank b.
Passed(b, v) == /\ \/ fmt.bank > b
                   \/ fmt.bank = b /\ fmt.blk > v
                /\ calls = 0 /\ pend.kind = "erase" => pend.bank # b \/ pend.blk + 1 # v

\* The sectors of a block the format has erased are within the file, and erased until
\* the FTL starts.
Formatting ==
  /\ fmt \in [bank : Banks, blk : 0 .. LogBlks] \/ fmt = Formatted
  /\ fmt # Formatted => calls = 0
  /\ calls = 0 => host = NoHost /\ pend.kind \in {"none", "erase"}
  /\ \A b \in Banks, v \in FtlBlks : Passed(b, v) =>
       /\ (Slot(b, v) + 1) * BlockSectors <= eof
       /\ calls = 0 => \A i \in 0 .. BlockSectors - 1 :
                          file[Slot(b, v) * BlockSectors + i] = Erased

Types ==
  /\ calls \in Nat /\ eof \in Nat /\ rd \in 0 .. NumRd - 1 /\ wr \in 0 .. NumWr - 1
  /\ DOMAIN file = FileSectors /\ DOMAIN dram = DramSectors /\ dram = [a \in DramSectors |-> dram[a]]

\* An operation in progress is one the FTL may call, or an erase of the format.
Shapes ==
  /\ pend.kind \in {"none", "erase", "read", "program"}
  /\ pend.kind = "none" <=> pend = NoCall
  /\ pend # NoCall => pend.bank \in Banks
  /\ pend.kind = "erase" => /\ DOMAIN pend = {"kind", "bank", "blk"}
                            /\ pend.blk \in (IF calls = 0 THEN -1 ELSE 0) .. LogBlks - 1
  /\ pend.kind \in {"read", "program"} =>
       /\ {"kind", "bank", "row", "off", "n", "buf"} \subseteq DOMAIN pend
       /\ pend.row \in Rows /\ pend.off \in Sectors /\ pend.n \in 1 .. SPP /\ pend.off + pend.n <= SPP
       /\ pend.buf \in Nat /\ (~OnRing => pend.buf = FtlBuf)

\* A request of the host, and the operation that serves it.
Requests ==
  /\ host.kind \in {"none", "write", "read", "done"}
  /\ host.kind \in {"write", "read"} =>
       /\ host.bank \in Banks /\ host.row \in Rows
       /\ host.off \in Sectors /\ host.n \in 1 .. SPP /\ host.off + host.n <= SPP
  /\ host.kind = "read" => host.addr = RD_BUF_PTR(rd)
  /\ host.kind = "write" => /\ DOMAIN host.data = host.off .. host.off + host.n - 1
                            /\ \A s \in DOMAIN host.data : host.data[s] = dram[WR_BUF_PTR(wr) + s]
  /\ host.kind = "done" => /\ pend = NoCall /\ host.bank \in Banks /\ host.row \in Rows
                           /\ DOMAIN host.data \subseteq Sectors
  /\ pend.kind = "read" /\ OnRing => host.kind = "read" /\ pend.buf = RD_BUF_PTR(rd)
  /\ pend.kind = "program" /\ OnRing => host.kind = "write" /\ pend.buf = WR_BUF_PTR(wr)
  /\ pend.kind \in {"read", "program"} /\ OnRing =>
       pend.bank = host.bank /\ pend.row = host.row /\ pend.off = host.off /\ pend.n = host.n

IInv == Types /\ Formatting /\ Shapes /\ Requests /\ HostTransfers

-----------------------------------------------------------------------------
(* Places in the file. *)

LEMMA Division ==
  ASSUME NEW N \in Nat \ {0}, NEW a \in Nat
  PROVE  /\ a % N \in 0 .. N - 1
         /\ a \div N \in Nat
         /\ a = N * (a \div N) + (a % N)
<1>1. a % N \in 0 .. N - 1
  OBVIOUS
<1>2. a \div N \in Nat
  OBVIOUS
<1>3. a = N * (a \div N) + (a % N)
  OBVIOUS
<1>4. QED
  BY <1>1, <1>2, <1>3

\* A number has one place in one lap.
LEMMA OnePlace ==
  ASSUME NEW N \in Nat \ {0}, NEW q \in Int, NEW k \in Int,
         NEW r \in 0 .. N - 1, NEW t \in 0 .. N - 1, N * q + r = N * k + t
  PROVE  q = k /\ r = t
<1> DEFINE d == q - k
<1>1. d \in Int /\ N * d = t - r
  OBVIOUS
<1>2. N * d < N /\ N * d > -N
  BY <1>1
<1> HIDE DEF d
<1>3. d < 1
  <2>1. d >= 1 => N * d >= N
    BY <1>1
  <2>2. QED BY <1>1, <1>2, <2>1
<1>4. d > -1
  <2>1. d <= -1 => N * d <= -N
    BY <1>1
  <2>2. QED BY <1>1, <1>2, <2>1
<1>5. d = 0
  BY <1>1, <1>3, <1>4
<1>6. q = k
  BY <1>5 DEF d
<1>7. QED
  BY <1>6

LEMMA Remainder ==
  ASSUME NEW N \in Nat \ {0}, NEW q \in Nat, NEW r \in 0 .. N - 1
  PROVE  (N * q + r) % N = r
<1> DEFINE a == N * q + r
           t == a % N
           k == a \div N
<1>1. a \in Nat
  <2>1. N * q \in Nat
    OBVIOUS
  <2>2. QED BY <2>1
<1>2. t \in 0 .. N - 1 /\ k \in Nat /\ a = N * k + t
  <2> HIDE DEF a
  <2>1. QED BY <1>1, Division
<1> HIDE DEF t, k
<1>3. N * q + r = N * k + t
  BY <1>2
<1>4. r = t
  BY <1>2, <1>3, OnePlace
<1>5. QED
  BY <1>4 DEF t

LEMMA Geometry ==
  /\ {NumBanks, LogBlks, PPB, SPP, NumRd, NumWr, PosSectors} \subseteq Nat \ {0}
  /\ BlockSectors \in Nat \ {0} /\ Slots \in Nat \ {0}
  /\ PosSectors = BlockSectors * Slots
  /\ NumBanks * LogBlks \in Nat /\ NumBanks * LogBlks <= Slots
<1>1. {NumBanks, LogBlks, PPB, SPP, NumRd, NumWr, PosSectors} \subseteq Nat \ {0}
  BY EmuAssumption
<1>2. BlockSectors \in Nat \ {0}
  BY <1>1 DEF BlockSectors
<1>3. Slots \in Nat /\ PosSectors = BlockSectors * Slots
  <2>1. PosSectors \in Nat /\ PosSectors % BlockSectors = 0
    BY EmuAssumption DEF BlockSectors
  <2>2. QED BY <1>2, <2>1, Division DEF Slots
<1>4. NumBanks * LogBlks \in Nat
  BY <1>1
<1>5. BlockSectors * (NumBanks * LogBlks) <= BlockSectors * Slots
  <2>1. NumBanks * (LogBlks * (PPB * SPP)) <= PosSectors
    BY EmuAssumption
  <2>2. NumBanks * (LogBlks * (PPB * SPP)) = BlockSectors * (NumBanks * LogBlks)
    BY <1>1 DEF BlockSectors
  <2>3. QED BY <1>3, <2>1, <2>2
<1>6. NumBanks * LogBlks <= Slots
  <2>1. SUFFICES ASSUME Slots + 1 <= NumBanks * LogBlks PROVE FALSE
    BY <1>3, <1>4
  <2> DEFINE m == NumBanks * LogBlks
  <2>2. m \in Nat /\ Slots + 1 <= m /\ BlockSectors * m <= BlockSectors * Slots
    BY <1>4, <1>5, <2>1
  <2> HIDE DEF m
  <2>3. BlockSectors * (Slots + 1) <= BlockSectors * m
    BY <1>2, <1>3, <2>2
  <2>4. BlockSectors * (Slots + 1) = BlockSectors * Slots + BlockSectors
    BY <1>2, <1>3
  <2>5. BlockSectors * Slots \in Nat
    BY <1>2, <1>3
  <2>6. QED BY <1>2, <2>2, <2>3, <2>4, <2>5
<1>7. Slots # 0
  BY <1>1, <1>2, <1>3
<1>8. QED
  BY <1>1, <1>2, <1>3, <1>4, <1>6, <1>7

LEMMA SlotType == ASSUME NEW b \in Nat, NEW v \in Nat PROVE Slot(b, v) \in 0 .. Slots - 1
<1>1. b * LogBlks + v \in Nat
  BY Geometry
<1>2. QED
  BY <1>1, Geometry, Division DEF Slot

\* A sector of a block is in the block's slot.
LEMMA InSlot ==
  ASSUME NEW b \in Nat, NEW v \in Nat, NEW p \in 0 .. PPB - 1, NEW s \in Sectors
  PROVE  /\ p * SPP + s \in 0 .. BlockSectors - 1
         /\ getPositionInFile(b, v, p, s) = Slot(b, v) * BlockSectors + (p * SPP + s)
<1> DEFINE x == b * LogBlks + v
           i == p * SPP + s
           q == x \div Slots
           t == x % Slots
<1>1. PPB \in Nat \ {0} /\ SPP \in Nat \ {0} /\ BlockSectors = PPB * SPP /\ s \in 0 .. SPP - 1
  BY Geometry DEF Sectors, BlockSectors
<1>2. i \in 0 .. BlockSectors - 1
  <2>1. p * SPP \in Nat /\ (p + 1) * SPP <= PPB * SPP /\ (p + 1) * SPP = p * SPP + SPP
    BY <1>1
  <2>2. QED BY <1>1, <2>1
<1>3. x \in Nat
  BY Geometry
<1>4. t \in 0 .. Slots - 1 /\ q \in Nat /\ x = Slots * q + t
  <2> HIDE DEF x
  <2>1. QED BY <1>3, Geometry, Division
<1>5. (((x * PPB + p) * SPP) + s) = x * BlockSectors + i
  <2> HIDE DEF x
  <2>1. ((x * PPB + p) * SPP) = (x * PPB) * SPP + p * SPP
    BY <1>1, <1>3
  <2>2. (x * PPB) * SPP = x * (PPB * SPP)
    BY <1>1, <1>3
  <2>3. (x * PPB) * SPP \in Nat /\ p * SPP \in Nat
    BY <1>1, <1>3
  <2>4. QED BY <1>1, <2>1, <2>2, <2>3
<1>6. x * BlockSectors + i = PosSectors * q + (t * BlockSectors + i)
  <2> HIDE DEF x, t, q, i
  <2>1. x * BlockSectors = (Slots * q) * BlockSectors + t * BlockSectors
    BY <1>4, Geometry
  <2>2. (Slots * q) * BlockSectors = PosSectors * q
    BY <1>4, Geometry
  <2>3. PosSectors * q \in Nat /\ t * BlockSectors \in Nat
    BY <1>4, Geometry
  <2>4. QED BY <1>2, <2>1, <2>2, <2>3
<1>7. t * BlockSectors + i \in 0 .. PosSectors - 1
  <2> HIDE DEF t, i
  <2>1. (t + 1) * BlockSectors <= Slots * BlockSectors
    BY <1>4, Geometry
  <2>2. (t + 1) * BlockSectors = t * BlockSectors + BlockSectors /\ t * BlockSectors \in Nat
    BY <1>4, Geometry
  <2>3. Slots * BlockSectors = PosSectors
    BY Geometry
  <2>4. QED BY <1>2, <2>1, <2>2, <2>3, Geometry
<1> DEFINE y == t * BlockSectors + i
<1>8. (PosSectors * q + y) % PosSectors = y
  <2>1. y \in 0 .. PosSectors - 1 /\ q \in Nat /\ PosSectors \in Nat \ {0}
    BY <1>4, <1>7, Geometry
  <2> HIDE DEF y, q
  <2>2. QED BY <2>1, Remainder
<1>9. getPositionInFile(b, v, p, s) = (((x * PPB + p) * SPP) + s) % PosSectors
  BY DEF getPositionInFile
<1>10. getPositionInFile(b, v, p, s) = y
  BY <1>5, <1>6, <1>8, <1>9
<1>11. QED
  BY <1>2, <1>10 DEF Slot

\* No two blocks of the FTL have the same slot.
LEMMA SlotsApart ==
  ASSUME NEW b \in Banks, NEW v \in FtlBlks, NEW c \in Banks, NEW w \in FtlBlks,
         Slot(b, v) = Slot(c, w)
  PROVE  b = c /\ v = w
<1> DEFINE x == b * LogBlks + v
           y == c * LogBlks + w
           L == LogBlks
<1>1. /\ L \in Nat \ {0} /\ b \in Nat /\ c \in Nat /\ v \in 1 .. L /\ w \in 1 .. L
      /\ b + 1 <= NumBanks /\ c + 1 <= NumBanks /\ NumBanks \in Nat
  BY Geometry DEF Banks, FtlBlks
<1>2. x \in 1 .. Slots /\ y \in 1 .. Slots
  <2>1. (b + 1) * L <= NumBanks * L /\ (c + 1) * L <= NumBanks * L
    BY <1>1
  <2>2. (b + 1) * L = b * L + L /\ (c + 1) * L = c * L + L /\ b * L \in Nat /\ c * L \in Nat
    BY <1>1
  <2>3. QED BY <1>1, <2>1, <2>2, Geometry
<1>3. x = y
  <2> DEFINE k == x \div Slots
             l == y \div Slots
             t == x % Slots
  <2>1. x \in Nat /\ y \in Nat /\ Slots \in Nat \ {0} /\ y % Slots = t
    BY <1>2, Geometry DEF Slot
  <2> HIDE DEF x, y
  <2>2. t \in 0 .. Slots - 1 /\ k \in Nat /\ l \in Nat /\ x = Slots * k + t /\ y = Slots * l + t
    BY <2>1, Division
  <2> HIDE DEF t, k, l
  <2>3. k = l
    <3> DEFINE d == k - l
    <3>1. d \in Int /\ Slots * d = x - y /\ x - y < Slots /\ x - y > -Slots
      BY <1>2, <2>1, <2>2
    <3> HIDE DEF d
    <3>2. d >= 1 => Slots * d >= Slots
      BY <2>1, <3>1
    <3>3. d <= -1 => Slots * d <= -Slots
      BY <2>1, <3>1
    <3>4. d = 0
      BY <1>2, <2>1, <3>1, <3>2, <3>3
    <3>5. QED BY <2>2, <3>4 DEF d
  <2>4. QED BY <2>2, <2>3
<1>4. L * b + (v - 1) = L * c + (w - 1)
  BY <1>1, <1>3
<1>5. v - 1 \in 0 .. L - 1 /\ w - 1 \in 0 .. L - 1
  BY <1>1
<1>6. b = c /\ v - 1 = w - 1
  <2>1. L \in Nat \ {0} /\ b \in Int /\ c \in Int
    BY <1>1
  <2> HIDE DEF L
  <2>2. QED BY <1>4, <1>5, <2>1, OnePlace
<1>7. QED
  BY <1>1, <1>6

LEMMA RowParts ==
  ASSUME NEW r \in Rows
  PROVE  /\ r \in Nat /\ r % PPB \in 0 .. PPB - 1 /\ r \div PPB \in 0 .. LogBlks - 1
         /\ 1 + (r \div PPB) \in FtlBlks
         /\ r = PPB * (r \div PPB) + (r % PPB)
<1> DEFINE k == r \div PPB
           t == r % PPB
<1>1. r \in Nat /\ r < LogBlks * PPB /\ LogBlks \in Nat \ {0} /\ PPB \in Nat \ {0}
  BY Geometry DEF Rows
<1>2. t \in 0 .. PPB - 1 /\ k \in Nat /\ r = PPB * k + t
  BY <1>1, Division
<1> HIDE DEF k, t
<1>3. k < LogBlks
  <2>1. k >= LogBlks => k * PPB >= LogBlks * PPB
    BY <1>1, <1>2
  <2>2. PPB * k = k * PPB /\ k * PPB \in Nat /\ LogBlks * PPB \in Nat
    BY <1>1, <1>2
  <2>3. QED BY <1>1, <1>2, <2>1, <2>2
<1>4. k \in 0 .. LogBlks - 1 /\ 1 + k \in FtlBlks
  BY <1>1, <1>2, <1>3 DEF FtlBlks
<1>5. QED
  BY <1>1, <1>2, <1>4 DEF k, t

\* A page is in one piece, within the slot of its block.
PageStart(b, r) == Slot(b, 1 + (r \div PPB)) * BlockSectors + (r % PPB) * SPP

LEMMA InPage ==
  ASSUME NEW b \in Banks, NEW r \in Rows
  PROVE  /\ PageStart(b, r) \in Nat
         /\ PageStart(b, r) + SPP <= (Slot(b, 1 + (r \div PPB)) + 1) * BlockSectors
         /\ \A s \in Sectors : /\ Position(b, r, s) = PageStart(b, r) + s
                               /\ Position(b, r, s) \in FileSectors
<1> DEFINE v == 1 + (r \div PPB)
           p == r % PPB
           t == Slot(b, v)
<1>1. /\ b \in Nat /\ v \in Nat /\ p \in 0 .. PPB - 1 /\ SPP \in Nat \ {0} /\ PPB \in Nat \ {0}
      /\ BlockSectors \in Nat \ {0} /\ BlockSectors = PPB * SPP
  BY RowParts, Geometry DEF Banks, FtlBlks, BlockSectors
<1>2. t \in 0 .. Slots - 1 /\ Slots \in Nat
  BY <1>1, SlotType, Geometry
<1>3. \A s \in Sectors : /\ p * SPP + s \in 0 .. BlockSectors - 1
                        /\ Position(b, r, s) = t * BlockSectors + (p * SPP + s)
  BY <1>1, InSlot DEF Position
<1> HIDE DEF v, p, t
<1>4. t * BlockSectors \in Nat /\ p * SPP \in Nat
  BY <1>1, <1>2
<1>5. (t + 1) * BlockSectors = t * BlockSectors + BlockSectors
  BY <1>1, <1>2
<1>6. p * SPP + SPP <= BlockSectors
  <2>1. (p + 1) * SPP <= PPB * SPP
    BY <1>1
  <2>2. (p + 1) * SPP = p * SPP + SPP
    BY <1>1
  <2>3. QED BY <1>1, <1>4, <2>1, <2>2
<1>7. (t + 1) * BlockSectors <= PosSectors
  <2>1. (t + 1) * BlockSectors <= Slots * BlockSectors
    BY <1>1, <1>2
  <2>2. QED BY <2>1, <1>1, <1>2, Geometry
<1> DEFINE x == t * BlockSectors
           y == p * SPP
<1>8. \A s \in Sectors : Position(b, r, s) = x + (y + s) /\ y + s \in 0 .. BlockSectors - 1 /\ s \in Nat
  BY <1>3 DEF Sectors
<1>9. PageStart(b, r) = x + y
  BY DEF PageStart, v, p, t
<1>10. x \in Nat /\ y \in Nat /\ x + BlockSectors <= PosSectors /\ y + SPP <= BlockSectors
       /\ PosSectors \in Nat /\ FileSectors = 0 .. PosSectors + BlockSectors - 1
  BY <1>1, <1>4, <1>5, <1>6, <1>7, Geometry DEF FileSectors
<1>11. PageStart(b, r) \in Nat /\ PageStart(b, r) + SPP <= (t + 1) * BlockSectors
  BY <1>1, <1>5, <1>9, <1>10
<1> HIDE DEF x, y
<1>12. \A s \in Sectors : Position(b, r, s) = PageStart(b, r) + s /\ Position(b, r, s) \in FileSectors
  BY <1>1, <1>8, <1>9, <1>10
<1>13. QED
  BY <1>11, <1>12 DEF t, v

\* A sector of a block of the FTL is in no other block's slot.
LEMMA BlocksApart ==
  ASSUME NEW t \in Nat, NEW i \in 0 .. BlockSectors - 1,
         NEW u \in Nat, NEW j \in 0 .. BlockSectors - 1,
         t * BlockSectors + i = u * BlockSectors + j
  PROVE  t = u /\ i = j
<1>1. BlockSectors * t + i = BlockSectors * u + j
  BY Geometry
<1>2. QED
  BY <1>1, Geometry, OnePlace

LEMMA PagesApart ==
  ASSUME NEW b \in Banks, NEW r \in Rows, NEW s \in Sectors,
         NEW c \in Banks, NEW q \in Rows, NEW t \in Sectors,
         Position(b, r, s) = Position(c, q, t)
  PROVE  b = c /\ r = q /\ s = t
<1> DEFINE v == 1 + (r \div PPB)
           w == 1 + (q \div PPB)
           i == (r % PPB) * SPP + s
           j == (q % PPB) * SPP + t
<1>1. /\ b \in Nat /\ c \in Nat /\ v \in FtlBlks /\ w \in FtlBlks /\ v \in Nat /\ w \in Nat
      /\ r % PPB \in 0 .. PPB - 1 /\ q % PPB \in 0 .. PPB - 1
  BY RowParts DEF Banks, FtlBlks
<1>2. /\ i \in 0 .. BlockSectors - 1 /\ Position(b, r, s) = Slot(b, v) * BlockSectors + i
      /\ j \in 0 .. BlockSectors - 1 /\ Position(c, q, t) = Slot(c, w) * BlockSectors + j
  BY <1>1, InSlot DEF Position
<1>3. Slot(b, v) \in Nat /\ Slot(c, w) \in Nat
  BY <1>1, SlotType
<1>4. Slot(b, v) = Slot(c, w) /\ i = j
  <2> HIDE DEF v, w, i, j
  <2>1. Slot(b, v) * BlockSectors + i = Slot(c, w) * BlockSectors + j
    BY <1>2
  <2>2. QED BY <1>2, <1>3, <2>1, BlocksApart
<1>5. b = c /\ v = w
  <2> HIDE DEF v, w
  <2>1. QED BY <1>1, <1>4, SlotsApart
<1>6. r % PPB = q % PPB /\ s = t
  <2> DEFINE m == r % PPB
             n == q % PPB
  <2>1. SPP * m + s = SPP * n + t
    <3>1. m \in Nat /\ n \in Nat /\ SPP \in Nat /\ m * SPP + s = n * SPP + t
      BY <1>1, <1>4, Geometry
    <3> HIDE DEF m, n
    <3>2. QED BY <3>1
  <2>2. SPP \in Nat \ {0} /\ s \in 0 .. SPP - 1 /\ t \in 0 .. SPP - 1 /\ m \in Int /\ n \in Int
    BY <1>1, Geometry DEF Sectors
  <2> HIDE DEF m, n
  <2>3. m = n /\ s = t
    BY <2>1, <2>2, OnePlace
  <2>4. QED BY <2>3 DEF m, n
<1>7. r = q
  <2>1. r \div PPB = q \div PPB
    BY <1>5, RowParts
  <2>2. QED BY <1>6, <2>1, RowParts
<1>8. QED
  BY <1>5, <1>6, <1>7

-----------------------------------------------------------------------------
(* What the operations do to the pages. *)

\* An erase of format or of the FTL, in the slot of its block.
LEMMA EraseEffect ==
  ASSUME Types, Shapes, Erase
  PROVE  LET t == Slot(pend.bank, pend.blk + 1) IN
         /\ t \in Nat /\ pend.bank \in Banks /\ pend.blk + 1 \in Nat
         /\ file' = [p \in FileSectors |->
                       IF p \in t * BlockSectors .. t * BlockSectors + BlockSectors - 1
                       THEN Erased ELSE file[p]]
         /\ eof' \in Nat /\ eof' >= eof /\ eof' >= (t + 1) * BlockSectors
         /\ UNCHANGED <<dram, rd, wr, host>>
<1> DEFINE t == Slot(pend.bank, pend.blk + 1)
           start == getPositionInFile(pend.bank, pend.blk + 1, 0, 0)
<1>1. pend.bank \in Banks /\ pend.bank \in Nat /\ pend.blk + 1 \in Nat /\ LogBlks \in Nat
  <2>1. pend.kind = "erase" /\ pend # NoCall
    BY DEF Erase, NoCall
  <2>2. pend.blk \in -1 .. LogBlks - 1
    BY <2>1, Geometry DEF Shapes
  <2>3. QED BY <2>1, <2>2, Geometry DEF Shapes, Banks
<1>2. t \in Nat /\ BlockSectors \in Nat \ {0}
  <2>1. t \in 0 .. Slots - 1
    BY <1>1, SlotType
  <2>2. QED BY <2>1, Geometry
<1>3. start = t * BlockSectors
  <2>1. 0 \in 0 .. PPB - 1 /\ 0 \in Sectors
    BY Geometry DEF Sectors
  <2>2. start = t * BlockSectors + (0 * SPP + 0)
    BY <1>1, <2>1, InSlot
  <2>3. t * BlockSectors \in Nat /\ 0 * SPP + 0 = 0
    BY <1>2, Geometry
  <2>4. QED BY <2>2, <2>3
<1>4. (t + 1) * BlockSectors = t * BlockSectors + BlockSectors /\ t * BlockSectors \in Nat
  BY <1>2
<1>5. /\ file' = [p \in FileSectors |->
                    IF p \in start .. start + BlockSectors - 1 THEN Erased ELSE file[p]]
      /\ eof' = IF start + BlockSectors - 1 + 1 > eof THEN start + BlockSectors - 1 + 1 ELSE eof
      /\ UNCHANGED <<dram, rd, wr, host>>
  BY DEF Erase, BlockSectors
<1> HIDE DEF t, start
<1>6. eof' \in Nat /\ eof' >= eof /\ eof' >= (t + 1) * BlockSectors
  BY <1>2, <1>3, <1>4, <1>5 DEF Types
<1>7. QED
  BY <1>1, <1>2, <1>3, <1>5, <1>6 DEF t

\* A program or a read, sector by sector of its page.
LEMMA TransferShape ==
  ASSUME Shapes, pend.kind \in {"read", "program"}
  PROVE  /\ pend.bank \in Banks /\ pend.row \in Rows
         /\ pend.off \in Nat /\ pend.n \in Nat \ {0} /\ pend.off + pend.n <= SPP
         /\ Moved \subseteq Sectors /\ pend.off \in Moved
         /\ Start = PageStart(pend.bank, pend.row) + pend.off
<1>1. pend # NoCall
  BY DEF NoCall
<1>2. /\ pend.bank \in Banks /\ pend.row \in Rows
      /\ pend.off \in Sectors /\ pend.n \in 1 .. SPP /\ pend.off + pend.n <= SPP
  BY <1>1 DEF Shapes
<1>3. /\ pend.off \in Nat /\ pend.n \in Nat \ {0} /\ Moved \subseteq Sectors /\ pend.off \in Moved
  BY <1>2, Geometry DEF Moved, Sectors
<1>4. Start = PageStart(pend.bank, pend.row) + pend.off
  BY <1>2, InPage DEF Start
<1>5. QED
  BY <1>2, <1>3, <1>4

LEMMA ProgramEffect ==
  ASSUME Types, Shapes, Program, NEW b \in Banks, NEW r \in Rows, NEW s \in Sectors
  PROVE  file'[Position(b, r, s)] =
           IF b = pend.bank /\ r = pend.row /\ s \in Moved
           THEN dram[pend.buf + s] ELSE file[Position(b, r, s)]
<1>1. pend.kind = "program"
  BY DEF Program
<1> DEFINE p == Position(b, r, s)
           base == PageStart(pend.bank, pend.row)
<1>2. /\ pend.bank \in Banks /\ pend.row \in Rows
      /\ pend.off \in Nat /\ pend.n \in Nat \ {0} /\ pend.off + pend.n <= SPP
      /\ Moved \subseteq Sectors /\ Start = base + pend.off
  BY <1>1, TransferShape
<1>3. file'[p] = IF p - Start \in 0 .. pend.n - 1
                 THEN dram[pend.buf + pend.off + p - Start] ELSE file[p]
  BY InPage DEF Program
<1>4. p \in Nat /\ base \in Nat /\ s \in Nat /\ p = PageStart(b, r) + s /\ PageStart(b, r) \in Nat
  <2>1. s \in Nat
    BY Geometry DEF Sectors
  <2>2. QED BY <1>2, <2>1, InPage
<1>5. CASE b = pend.bank /\ r = pend.row
  <2>1. p - Start = s - pend.off
    BY <1>2, <1>4, <1>5
  <2>2. (p - Start \in 0 .. pend.n - 1) <=> s \in Moved
    BY <1>2, <1>4, <2>1 DEF Moved
  <2>3. pend.buf + pend.off + p - Start = pend.buf + s
    <3>1. pend.buf \in Nat
      BY <1>1 DEF Shapes
    <3>2. p = base + s /\ Start = base + pend.off
      BY <1>2, <1>4, <1>5
    <3> HIDE DEF p, base
    <3>3. QED BY <1>2, <1>4, <3>1, <3>2
  <2>4. QED BY <1>3, <1>5, <2>2, <2>3
<1>6. CASE ~(b = pend.bank /\ r = pend.row)
  <2>1. p - Start \notin 0 .. pend.n - 1
    <3>1. SUFFICES ASSUME p - Start \in 0 .. pend.n - 1 PROVE FALSE
      OBVIOUS
    <3> DEFINE t == pend.off + (p - Start)
    <3>2. t \in 0 .. SPP - 1 /\ p = base + t
      <4> HIDE DEF p, base
      <4>1. Start \in Nat /\ SPP \in Nat /\ base \in Nat /\ p \in Nat
        BY <1>2, <1>4, Geometry
      <4>2. p - Start >= 0 /\ p - Start < pend.n /\ p - Start \in Int
        BY <1>2, <3>1, <4>1
      <4>3. p = base + t
        BY <1>2, <4>1
      <4>4. QED BY <1>2, <4>1, <4>2, <4>3
    <3>3. t \in Sectors
      BY <3>2 DEF Sectors
    <3> HIDE DEF t
    <3>4. Position(pend.bank, pend.row, t) = p
      BY <1>2, <3>2, <3>3, InPage
    <3>5. QED BY <1>2, <1>6, <3>3, <3>4, PagesApart
  <2>2. QED BY <1>3, <1>6, <2>1
<1>7. QED
  BY <1>5, <1>6

LEMMA ReadEffect ==
  ASSUME Types, Shapes, Read
  PROVE  dram' = [a \in DramSectors |->
                   IF a - pend.buf \in Moved
                   THEN file[Position(pend.bank, pend.row, a - pend.buf)] ELSE dram[a]]
<1>1. pend.kind = "read"
  BY DEF Read
<1>2. /\ pend.bank \in Banks /\ pend.row \in Rows /\ Moved \subseteq Sectors /\ pend.off \in Nat
      /\ Start = PageStart(pend.bank, pend.row) + pend.off
  BY <1>1, TransferShape
<1>3. ASSUME NEW a \in DramSectors, a - pend.buf \in Moved
      PROVE  Start + (a - pend.buf) - pend.off = Position(pend.bank, pend.row, a - pend.buf)
  <2> DEFINE t == a - pend.buf
             base == PageStart(pend.bank, pend.row)
  <2>1. t \in Sectors /\ t \in Nat /\ base \in Nat
    <3>1. t \in Sectors
      BY <1>2, <1>3
    <3>2. t \in Nat
      BY <3>1, Geometry DEF Sectors
    <3>3. QED BY <1>2, <3>1, <3>2, InPage
  <2>2. Position(pend.bank, pend.row, t) = base + t
    BY <1>2, <2>1, InPage
  <2>3. Start = base + pend.off
    BY <1>2
  <2> HIDE DEF t, base
  <2>4. Start + t - pend.off = Position(pend.bank, pend.row, t)
    BY <1>2, <2>1, <2>2, <2>3
  <2>5. QED BY <2>4 DEF t
<1>4. dram' = [a \in DramSectors |->
                IF a - pend.buf \in Moved THEN file[Start + (a - pend.buf) - pend.off] ELSE dram[a]]
  BY DEF Read
<1>5. QED
  BY <1>3, <1>4

-----------------------------------------------------------------------------
(* The invariant. *)

\* The buffers follow one another.
LEMMA ReadBuffer ==
  ASSUME NEW i \in 0 .. NumRd - 1
  PROVE  /\ RD_BUF_PTR(i) \in Nat /\ NumRd * SPP \in Nat /\ FtlBuf \in Nat
         /\ RD_BUF_PTR(i) + SPP <= NumRd * SPP /\ NumRd * SPP <= FtlBuf
<1>1. {NumRd, NumWr, SPP} \subseteq Nat /\ i \in Nat /\ i + 1 <= NumRd
  BY Geometry
<1>2. (i + 1) * SPP <= NumRd * SPP
  BY <1>1
<1>3. (i + 1) * SPP = i * SPP + SPP /\ i * SPP \in Nat /\ NumRd * SPP \in Nat
  BY <1>1
<1>4. FtlBuf = NumRd * SPP + NumWr * SPP /\ NumWr * SPP \in Nat
  BY <1>1 DEF FtlBuf
<1>5. QED
  BY <1>2, <1>3, <1>4 DEF RD_BUF_PTR

LEMMA WriteBuffer ==
  ASSUME NEW i \in 0 .. NumWr - 1
  PROVE  /\ WR_BUF_PTR(i) \in Nat /\ FtlBuf \in Nat
         /\ NumRd * SPP <= WR_BUF_PTR(i) /\ WR_BUF_PTR(i) + SPP <= FtlBuf
<1>1. {NumRd, NumWr, SPP} \subseteq Nat /\ i \in Nat /\ NumRd + i + 1 <= NumRd + NumWr
  BY Geometry
<1>2. (NumRd + i + 1) * SPP <= (NumRd + NumWr) * SPP
  BY <1>1
<1>3. (NumRd + i + 1) * SPP = (NumRd + i) * SPP + SPP /\ (NumRd + i) * SPP \in Nat
  BY <1>1
<1>4. (NumRd + i) * SPP = NumRd * SPP + i * SPP /\ i * SPP \in Nat /\ NumRd * SPP \in Nat
  BY <1>1
<1>5. (NumRd + NumWr) * SPP \in Nat
  BY <1>1
<1>6. QED
  BY <1>2, <1>3, <1>4, <1>5 DEF WR_BUF_PTR, FtlBuf

LEMMA FormattedFacts == fmt = Formatted => \A b \in Banks : fmt.bank > b
BY Geometry DEF Formatted, Banks

\* After the format every block of the FTL is within the file, and erased at first.
LEMMA AllPassed ==
  ASSUME Formatting, fmt = Formatted, pend = NoCall \/ calls # 0, NEW b \in Banks, NEW v \in FtlBlks
  PROVE  /\ (Slot(b, v) + 1) * BlockSectors <= eof
         /\ calls = 0 => \A i \in 0 .. BlockSectors - 1 :
                            file[Slot(b, v) * BlockSectors + i] = Erased
<1>1. Passed(b, v)
  <2>1. pend = NoCall => pend.kind # "erase"
    BY DEF NoCall
  <2>2. QED BY <2>1, FormattedFacts DEF Passed
<1>2. QED
  BY <1>1 DEF Formatting

LEMMA InitInv == Init => IInv
<1> SUFFICES ASSUME Init PROVE IInv
  OBVIOUS
<1>1. /\ pend = NoCall /\ host = NoHost /\ calls = 0 /\ rd = 0 /\ wr = 0
      /\ fmt = [bank |-> 0, blk |-> 0] /\ eof \in {0, PosSectors}
      /\ file = [p \in FileSectors |-> Old] /\ dram = [a \in DramSectors |-> <<a>>]
  BY DEF Init
<1>2. pend.kind = "none" /\ host.kind = "none"
  BY <1>1 DEF NoCall, NoHost
<1>3. Types
  BY <1>1, Geometry DEF Types
<1>4. Shapes /\ Requests /\ HostTransfers
  BY <1>1, <1>2 DEF Shapes, Requests, HostTransfers
<1>5. Formatting
  <2>1. fmt \in [bank : Banks, blk : 0 .. LogBlks]
    BY <1>1, Geometry DEF Banks
  <2>2. \A b \in Banks, v \in FtlBlks : ~Passed(b, v)
    BY <1>1, Geometry DEF Passed, Banks, FtlBlks
  <2>3. QED BY <1>1, <1>2, <2>1, <2>2 DEF Formatting
<1>6. QED
  BY <1>3, <1>4, <1>5 DEF IInv

LEMMA FormatInv == ASSUME IInv, Format PROVE IInv'
<1>1. /\ fmt # Formatted /\ pend = NoCall /\ pend.kind = "none" /\ calls = 0 /\ host = NoHost
      /\ fmt \in [bank : Banks, blk : 0 .. LogBlks]
      /\ pend' = [kind |-> "erase", bank |-> fmt.bank, blk |-> fmt.blk - 1]
      /\ UNCHANGED <<file, eof, dram, rd, wr, host, calls>>
  BY DEF Format, IInv, Formatting, NoCall
<1>2. /\ pend'.kind = "erase" /\ pend'.bank = fmt.bank /\ pend'.blk = fmt.blk - 1
      /\ DOMAIN pend' = {"kind", "bank", "blk"} /\ pend' # NoCall
  BY <1>1 DEF NoCall
<1>3. fmt.bank \in Banks /\ fmt.blk \in 0 .. LogBlks
  BY <1>1
<1>4. Types'
  BY <1>1 DEF IInv, Types
<1>5. Shapes'
  <2>1. fmt.blk - 1 \in -1 .. LogBlks - 1
    BY <1>3, Geometry
  <2>2. QED BY <1>1, <1>2, <1>3, <2>1 DEF Shapes
<1>6. Requests' /\ HostTransfers'
  BY <1>1, <1>2 DEF Requests, HostTransfers, NoHost
<1>7. Formatting'
  <2>1. fmt' = IF fmt.blk < LogBlks THEN [fmt EXCEPT !.blk = @ + 1]
                                    ELSE [bank |-> fmt.bank + 1, blk |-> 0]
    BY DEF Format
  <2>2. CASE fmt.blk < LogBlks
    <3>1. fmt' = [bank |-> fmt.bank, blk |-> fmt.blk + 1] /\ fmt' \in [bank : Banks, blk : 0 .. LogBlks]
      BY <1>1, <1>3, <2>1, <2>2, Geometry
    <3>2. \A b \in Banks, v \in FtlBlks : Passed(b, v)' => Passed(b, v)
      BY <1>1, <1>2, <1>3, <3>1, Geometry DEF Passed, FtlBlks, Banks
    <3>3. QED BY <1>1, <1>2, <3>1, <3>2 DEF IInv, Formatting
  <2>3. CASE ~(fmt.blk < LogBlks)
    <3>1. fmt' = [bank |-> fmt.bank + 1, blk |-> 0] /\ fmt.blk = LogBlks
      BY <1>3, <2>1, <2>3, Geometry
    <3>2. fmt' \in [bank : Banks, blk : 0 .. LogBlks] \/ fmt' = Formatted
      BY <1>3, <3>1, Geometry DEF Banks, Formatted
    <3>3. ASSUME NEW b \in Banks, NEW v \in FtlBlks, Passed(b, v)'
          PROVE  Passed(b, v)
      <4>1. b \in Nat /\ fmt.bank \in Nat /\ v \in 1 .. LogBlks /\ LogBlks \in Nat
        BY <1>3, Geometry DEF Banks, FtlBlks
      <4>2. fmt'.bank = fmt.bank + 1 /\ fmt'.blk = 0
        BY <3>1
      <4>3. fmt.bank + 1 > b /\ (fmt.bank # b \/ fmt.blk - 1 + 1 # v)
        BY <1>1, <1>2, <3>3, <4>1, <4>2 DEF Passed
      <4>4. fmt.bank > b \/ (fmt.bank = b /\ fmt.blk > v)
        BY <3>1, <4>1, <4>3
      <4>5. QED BY <1>1, <4>4 DEF Passed
    <3>4. QED BY <1>1, <1>2, <3>2, <3>3 DEF IInv, Formatting
  <2>4. QED BY <2>2, <2>3
<1>8. QED
  BY <1>4, <1>5, <1>6, <1>7 DEF IInv

\* Once the format is over, its part of the invariant asks for the length of the file only.
LEMMA FormattingKept ==
  ASSUME IInv, fmt = Formatted, pend = NoCall \/ calls # 0, UNCHANGED fmt,
         calls' \in Nat, calls' # 0, eof' \in Nat, eof' >= eof
  PROVE  Formatting'
<1>1. \A b \in Banks, v \in FtlBlks : (Slot(b, v) + 1) * BlockSectors <= eof'
  <2> SUFFICES ASSUME NEW b \in Banks, NEW v \in FtlBlks
               PROVE  (Slot(b, v) + 1) * BlockSectors <= eof'
    OBVIOUS
  <2>1. (Slot(b, v) + 1) * BlockSectors <= eof
    BY AllPassed DEF IInv
  <2>2. (Slot(b, v) + 1) * BlockSectors \in Nat
    <3>1. b \in Nat /\ v \in Nat
      BY DEF Banks, FtlBlks
    <3>2. Slot(b, v) \in 0 .. Slots - 1
      BY <3>1, SlotType
    <3>3. QED BY <3>2, Geometry
  <2> DEFINE x == (Slot(b, v) + 1) * BlockSectors
  <2> HIDE DEF x
  <2>3. x \in Nat /\ x <= eof
    BY <2>1, <2>2 DEF x
  <2>4. x <= eof'
    BY <2>3 DEF IInv, Types
  <2>5. QED BY <2>4 DEF x
<1>2. QED
  BY <1>1 DEF Formatting

LEMMA OperationShape ==
  ASSUME NEW op \in Operations
  PROVE  \/ /\ op.kind = "erase" /\ DOMAIN op = {"kind", "blk"} /\ op.blk \in 0 .. LogBlks - 1
            /\ op = [kind |-> "erase", blk |-> op.blk]
         \/ /\ op.kind \in {"read", "program"}
            /\ DOMAIN op = {"kind", "row", "off", "n", "buf"}
            /\ op.row \in Rows /\ op.off \in Sectors /\ op.n \in 1 .. SPP /\ op.off + op.n <= SPP
            /\ op = [kind |-> op.kind, row |-> op.row, off |-> op.off, n |-> op.n, buf |-> op.buf]
<1>1. ASSUME NEW kind \in {"read", "program"}, NEW bufs, op \in Transfers(kind, bufs)
      PROVE  /\ op.kind = kind
             /\ DOMAIN op = {"kind", "row", "off", "n", "buf"}
             /\ op.row \in Rows /\ op.off \in Sectors /\ op.n \in 1 .. SPP /\ op.off + op.n <= SPP
             /\ op = [kind |-> op.kind, row |-> op.row, off |-> op.off, n |-> op.n, buf |-> op.buf]
  <2>1. PICK p \in Rows, r \in Ranges, a \in bufs :
              op = [kind |-> kind, row |-> p, off |-> r.off, n |-> r.n, buf |-> a]
    BY <1>1 DEF Transfers
  <2>2. r.off \in Sectors /\ r.n \in 1 .. SPP /\ r.off + r.n <= SPP
    BY DEF Ranges
  <2>3. QED BY <2>1, <2>2
<1>2. ASSUME op \in [kind : {"erase"}, blk : 0 .. LogBlks - 1]
      PROVE  /\ op.kind = "erase" /\ DOMAIN op = {"kind", "blk"} /\ op.blk \in 0 .. LogBlks - 1
             /\ op = [kind |-> "erase", blk |-> op.blk]
  BY <1>2
<1>3. \/ \E bufs : op \in Transfers("read", bufs) \/ op \in Transfers("program", bufs)
      \/ op \in [kind : {"erase"}, blk : 0 .. LogBlks - 1]
  BY DEF Operations
<1>4. QED
  BY <1>1, <1>2, <1>3

LEMMA CallInv == ASSUME IInv, NEW b \in Banks, NEW op \in Operations, Call(b, op) PROVE IInv'
<1>1. /\ fmt = Formatted /\ pend = NoCall /\ calls' = calls + 1 /\ calls \in Nat
      /\ op.kind \in {"read", "program"} => op.buf = FtlBuf
      /\ pend' = [f \in DOMAIN op \cup {"bank"} |-> IF f = "bank" THEN b ELSE op[f]]
      /\ host' = IF host.kind = "done" THEN NoHost ELSE host
      /\ UNCHANGED <<file, eof, dram, rd, wr, fmt>>
  BY DEF Call, IInv, Types
<1>2. DOMAIN pend' = DOMAIN op \cup {"bank"}
  BY <1>1
<1>3. pend'.bank = b /\ pend'.kind = op.kind
  BY <1>1, OperationShape
<1>4. op.kind \in {"erase", "read", "program"} /\ "ring" \notin DOMAIN pend' /\ pend' # NoCall
  BY <1>2, <1>3, OperationShape DEF NoCall
<1>5. calls' \in Nat /\ calls' # 0
  BY <1>1
<1>6. Types'
  BY <1>1, <1>5 DEF IInv, Types
<1>7. Formatting'
  BY <1>1, <1>5, FormattingKept DEF IInv, Types
<1>8. Shapes'
  <2>1. CASE op.kind = "erase"
    <3>1. DOMAIN op = {"kind", "blk"} /\ op.blk \in 0 .. LogBlks - 1
      BY <2>1, OperationShape
    <3>2. DOMAIN pend' = {"kind", "bank", "blk"} /\ pend'.blk = op.blk
      BY <1>1, <1>2, <3>1
    <3>3. QED BY <1>3, <1>4, <1>5, <2>1, <3>1, <3>2 DEF Shapes
  <2>2. CASE op.kind # "erase"
    <3>1. /\ op.kind \in {"read", "program"} /\ DOMAIN op = {"kind", "row", "off", "n", "buf"}
          /\ op.row \in Rows /\ op.off \in Sectors /\ op.n \in 1 .. SPP /\ op.off + op.n <= SPP
      BY <2>2, OperationShape
    <3>2. /\ {"kind", "bank", "row", "off", "n", "buf"} \subseteq DOMAIN pend'
          /\ pend'.row = op.row /\ pend'.off = op.off /\ pend'.n = op.n /\ pend'.buf = op.buf
      BY <1>1, <1>2, <3>1
    <3>3. op.buf = FtlBuf /\ FtlBuf \in Nat
      BY <1>1, <3>1, Geometry DEF FtlBuf
    <3>4. QED BY <1>3, <1>4, <3>1, <3>2, <3>3 DEF Shapes
  <2>3. QED BY <2>1, <2>2
<1>9. ~OnRing'
  BY <1>4 DEF OnRing
<1>10. host.kind # "done" => host' = host
  BY <1>1
<1>11. host'.kind # "done"
  BY <1>1 DEF NoHost
<1>12. Requests'
  <2>1. host.kind = "done" => host'.kind = "none"
    BY <1>1 DEF NoHost
  <2>2. CASE host.kind = "done"
    BY <1>9, <2>1, <2>2 DEF Requests
  <2>3. CASE host.kind # "done"
    BY <1>1, <1>9, <1>10, <2>3 DEF IInv, Requests, WR_BUF_PTR
  <2>4. QED BY <2>2, <2>3
<1>13. QED
  BY <1>6, <1>7, <1>8, <1>11, <1>12 DEF IInv, HostTransfers

LEMMA WriteInv ==
  ASSUME IInv, NEW b \in Banks, NEW row \in Rows, NEW r \in Ranges, writeToOpenSSD(b, row, r)
  PROVE  IInv'
<1> DEFINE sent == [s \in r.off .. r.off + r.n - 1 |-> HostData(calls, s)]
<1>1. /\ fmt = Formatted /\ pend = NoCall /\ calls' = calls + 1 /\ calls \in Nat /\ calls' \in Nat /\ calls' # 0
      /\ dram' = [a \in DramSectors |->
                    IF a - WR_BUF_PTR(wr) \in DOMAIN sent THEN sent[a - WR_BUF_PTR(wr)] ELSE dram[a]]
      /\ host' = [kind |-> "write", bank |-> b, row |-> row, off |-> r.off, n |-> r.n, data |-> sent]
      /\ UNCHANGED <<file, eof, rd, wr, fmt, pend>>
  BY DEF writeToOpenSSD, IInv, Types
<1>2. r.off \in Sectors /\ r.n \in 1 .. SPP /\ r.off + r.n <= SPP
  BY DEF Ranges
<1>3. Types'
  BY <1>1 DEF IInv, Types
<1>4. Formatting'
  BY <1>1, FormattingKept DEF IInv, Types
<1>5. pend'.kind = "none"
  BY <1>1 DEF NoCall
<1>6. Shapes' /\ HostTransfers'
  BY <1>1, <1>5 DEF Shapes, HostTransfers
<1>7. \A s \in DOMAIN sent : sent[s] = dram'[WR_BUF_PTR(wr) + s]
  <2> SUFFICES ASSUME NEW s \in DOMAIN sent PROVE sent[s] = dram'[WR_BUF_PTR(wr) + s]
    OBVIOUS
  <2>1. s \in 0 .. SPP - 1
    BY <1>2, Geometry DEF Sectors
  <2>2. WR_BUF_PTR(wr) \in Nat /\ WR_BUF_PTR(wr) + SPP <= FtlBuf
    BY WriteBuffer DEF IInv, Types
  <2>3. WR_BUF_PTR(wr) + s \in DramSectors /\ (WR_BUF_PTR(wr) + s) - WR_BUF_PTR(wr) = s
    BY <2>1, <2>2, Geometry DEF DramSectors, FtlBuf
  <2> DEFINE a == WR_BUF_PTR(wr) + s
  <2>4. a \in DramSectors /\ a - WR_BUF_PTR(wr) = s
    BY <2>3
  <2>5. dram'[a] = IF a - WR_BUF_PTR(wr) \in DOMAIN sent THEN sent[a - WR_BUF_PTR(wr)] ELSE dram[a]
    <3> HIDE DEF sent, a
    <3>1. QED BY <1>1, <2>4
  <2> HIDE DEF sent
  <2>6. QED BY <2>4, <2>5
<1>8. Requests'
  <2> HIDE DEF sent
  <2>1. /\ host'.kind = "write" /\ host'.bank = b /\ host'.row = row /\ host'.off = r.off
        /\ host'.n = r.n /\ host'.data = sent
    BY <1>1
  <2>2. DOMAIN sent = r.off .. r.off + r.n - 1
    BY DEF sent
  <2>3. WR_BUF_PTR(wr)' = WR_BUF_PTR(wr)
    BY <1>1 DEF WR_BUF_PTR
  <2>4. QED BY <1>1, <1>2, <1>5, <1>7, <2>1, <2>2, <2>3 DEF Requests
<1>9. QED
  BY <1>3, <1>4, <1>6, <1>8 DEF IInv

LEMMA ReadInv ==
  ASSUME IInv, NEW b \in Banks, NEW row \in Rows, NEW r \in Ranges, readFromOpenSSD(b, row, r)
  PROVE  IInv'
<1>1. /\ fmt = Formatted /\ pend = NoCall /\ calls' = calls + 1 /\ calls \in Nat /\ calls' \in Nat /\ calls' # 0
      /\ host' = [kind |-> "read", bank |-> b, row |-> row, off |-> r.off, n |-> r.n, addr |-> RD_BUF_PTR(rd)]
      /\ UNCHANGED <<file, eof, dram, rd, wr, fmt, pend>>
  BY DEF readFromOpenSSD, IInv, Types
<1>2. r.off \in Sectors /\ r.n \in 1 .. SPP /\ r.off + r.n <= SPP
  BY DEF Ranges
<1>3. Types'
  BY <1>1 DEF IInv, Types
<1>4. Formatting'
  BY <1>1, FormattingKept DEF IInv, Types
<1>5. pend'.kind = "none"
  BY <1>1 DEF NoCall
<1>6. Shapes' /\ HostTransfers'
  BY <1>1, <1>5 DEF Shapes, HostTransfers
<1>7. Requests'
  BY <1>1, <1>2, <1>5 DEF Requests, RD_BUF_PTR
<1>8. QED
  BY <1>3, <1>4, <1>6, <1>7 DEF IInv

\* A request is served by an operation on the current buffer.
LEMMA ServeInv == ASSUME IInv, ToHost \/ FromHost PROVE IInv'
<1>1. /\ host.kind \in {"read", "write"} /\ pend = NoCall
      /\ pend' = [kind |-> IF host.kind = "read" THEN "read" ELSE "program",
                  bank |-> host.bank, row |-> host.row, off |-> host.off, n |-> host.n,
                  buf |-> IF host.kind = "read" THEN RD_BUF_PTR(rd) ELSE WR_BUF_PTR(wr), ring |-> TRUE]
      /\ UNCHANGED <<file, eof, dram, rd, wr, fmt, host, calls>>
  BY DEF ToHost, FromHost
<1>2. /\ pend'.kind = IF host.kind = "read" THEN "read" ELSE "program"
      /\ pend'.bank = host.bank /\ pend'.row = host.row /\ pend'.off = host.off /\ pend'.n = host.n
      /\ pend'.buf = IF host.kind = "read" THEN RD_BUF_PTR(rd) ELSE WR_BUF_PTR(wr)
      /\ DOMAIN pend' = {"kind", "bank", "row", "off", "n", "buf", "ring"} /\ pend' # NoCall
  BY <1>1 DEF NoCall
<1>3. calls # 0 /\ calls \in Nat /\ fmt = Formatted
  BY <1>1 DEF IInv, Formatting, NoHost, Types
<1>4. OnRing'
  BY <1>2 DEF OnRing
<1>5. Types' /\ Formatting'
  <2>1. Types'
    BY <1>1 DEF IInv, Types
  <2>2. QED BY <1>1, <1>3, <2>1, FormattingKept DEF IInv, Types
<1>6. RD_BUF_PTR(rd) \in Nat /\ WR_BUF_PTR(wr) \in Nat
  BY WriteBuffer, ReadBuffer DEF IInv, Types
<1>7. Shapes'
  BY <1>1, <1>2, <1>4, <1>6 DEF IInv, Requests, Shapes
<1>8. Requests' /\ HostTransfers'
  BY <1>1, <1>2, <1>4 DEF IInv, Requests, HostTransfers, RD_BUF_PTR, WR_BUF_PTR
<1>9. QED
  BY <1>5, <1>7, <1>8 DEF IInv

LEMMA EraseInv == ASSUME IInv, Perform, Erase PROVE IInv'
<1> DEFINE t == Slot(pend.bank, pend.blk + 1)
<1>1. /\ pend.kind = "erase" /\ pend # NoCall /\ pend' = NoCall /\ pend'.kind = "none"
      /\ UNCHANGED <<fmt, calls, dram, rd, wr, host>>
  BY DEF Perform, Erase, NoCall
<1>2. /\ t \in Nat /\ pend.bank \in Banks /\ pend.blk + 1 \in Nat
      /\ file' = [p \in FileSectors |->
                    IF p \in t * BlockSectors .. t * BlockSectors + BlockSectors - 1
                    THEN Erased ELSE file[p]]
      /\ eof' \in Nat /\ eof' >= eof /\ eof' >= (t + 1) * BlockSectors
  BY EraseEffect DEF IInv
<1>3. Types'
  BY <1>1, <1>2 DEF IInv, Types
<1>4. host.kind # "done"
  BY <1>1 DEF IInv, Requests
<1>5. Shapes' /\ HostTransfers'
  BY <1>1, <1>4 DEF Shapes, HostTransfers
<1>6. Requests'
  BY <1>1, <1>4 DEF IInv, Requests, RD_BUF_PTR, WR_BUF_PTR
<1>7. ASSUME NEW b \in Banks, NEW v \in FtlBlks, Passed(b, v)'
      PROVE  /\ (Slot(b, v) + 1) * BlockSectors <= eof'
             /\ calls' = 0 => \A i \in 0 .. BlockSectors - 1 :
                                file'[Slot(b, v) * BlockSectors + i] = Erased
  <2> DEFINE u == Slot(b, v)
  <2>1. b \in Nat /\ v \in Nat /\ u \in 0 .. Slots - 1 /\ u \in Nat
    <3>1. b \in Nat /\ v \in Nat
      BY DEF Banks, FtlBlks
    <3>2. QED BY <3>1, SlotType, Geometry
  <2>2. ASSUME NEW i \in 0 .. BlockSectors - 1
        PROVE  u * BlockSectors + i \in FileSectors
    <3> HIDE DEF u
    <3>1. (u + 1) * BlockSectors <= Slots * BlockSectors /\ (u + 1) * BlockSectors = u * BlockSectors + BlockSectors
      BY <2>1, Geometry
    <3>2. Slots * BlockSectors = PosSectors /\ u * BlockSectors \in Nat
      BY <2>1, Geometry
    <3>3. FileSectors = 0 .. PosSectors + BlockSectors - 1
      BY DEF FileSectors, BlockSectors
    <3>4. QED BY <3>1, <3>2, <3>3, Geometry
  <2>3. CASE Passed(b, v)
    <3>1. /\ (u + 1) * BlockSectors <= eof
          /\ calls = 0 => \A i \in 0 .. BlockSectors - 1 : file[u * BlockSectors + i] = Erased
      BY <2>3 DEF IInv, Formatting
    <3>2. (u + 1) * BlockSectors <= eof'
      <4> DEFINE x == (u + 1) * BlockSectors
      <4>1. x \in Nat /\ x <= eof
        BY <2>1, <3>1, Geometry
      <4> HIDE DEF x
      <4>2. x <= eof'
        BY <1>2, <4>1 DEF IInv, Types
      <4>3. QED BY <4>2 DEF x
    <3>3. calls' = 0 => \A i \in 0 .. BlockSectors - 1 : file'[u * BlockSectors + i] = Erased
      <4> HIDE DEF u, t
      <4>1. QED BY <1>1, <1>2, <2>2, <3>1
    <3>4. QED BY <3>2, <3>3
  <2>4. CASE ~Passed(b, v)
    <3>1. pend.bank = b /\ pend.blk + 1 = v
      BY <1>1, <1>7, <2>4 DEF Passed
    <3>2. u = t
      BY <3>1
    <3>3. \A i \in 0 .. BlockSectors - 1 :
            t * BlockSectors + i \in t * BlockSectors .. t * BlockSectors + BlockSectors - 1
      <4>1. t * BlockSectors \in Nat
        BY <1>2, Geometry
      <4> HIDE DEF t
      <4>2. QED BY <4>1, Geometry
    <3>4. \A i \in 0 .. BlockSectors - 1 : file'[u * BlockSectors + i] = Erased
      <4> HIDE DEF u, t
      <4>1. QED BY <1>2, <2>2, <3>2, <3>3
    <3>5. QED BY <1>2, <3>2, <3>4
  <2>5. QED BY <2>3, <2>4
<1>8. Formatting'
  BY <1>1, <1>7 DEF IInv, Formatting
<1>9. QED
  BY <1>3, <1>5, <1>6, <1>8 DEF IInv

LEMMA ProgramInv == ASSUME IInv, Perform, Program PROVE IInv'
<1>1. /\ pend.kind = "program" /\ pend # NoCall /\ pend' = NoCall /\ pend'.kind = "none"
      /\ UNCHANGED <<fmt, calls, dram, rd>>
      /\ eof' = IF Start + pend.n > eof THEN Start + pend.n ELSE eof
      /\ wr' = IF OnRing THEN (wr + 1) % NumWr ELSE wr
      /\ host' = IF OnRing THEN Returned(dram) ELSE host
      /\ DOMAIN file' = FileSectors
  BY DEF Perform, Program, NoCall
<1>2. calls # 0 /\ calls \in Nat /\ fmt = Formatted /\ host.kind # "done"
  BY <1>1 DEF IInv, Formatting, Types, Requests
<1>3. /\ pend.bank \in Banks /\ pend.row \in Rows /\ pend.off \in Nat /\ pend.n \in Nat
      /\ Moved \subseteq Sectors /\ Start = PageStart(pend.bank, pend.row) + pend.off
  BY <1>1, TransferShape DEF IInv
<1>4. eof' \in Nat /\ eof' >= eof
  <2>1. Start \in Nat
    BY <1>3, InPage
  <2>2. QED BY <1>1, <1>3, <2>1 DEF IInv, Types
<1>5. wr' \in 0 .. NumWr - 1
  <2>1. wr + 1 \in Nat /\ NumWr \in Nat \ {0}
    BY Geometry DEF IInv, Types
  <2>2. (wr + 1) % NumWr \in 0 .. NumWr - 1
    BY <2>1, Division
  <2>3. QED BY <1>1, <2>2 DEF IInv, Types
<1>6. Types'
  BY <1>1, <1>4, <1>5 DEF IInv, Types
<1>7. Formatting'
  BY <1>1, <1>2, <1>4, FormattingKept
<1>8. Shapes'
  BY <1>1 DEF Shapes
<1>9. CASE OnRing
  <2>1. /\ host.kind = "write" /\ pend.bank = host.bank /\ pend.row = host.row
        /\ pend.off = host.off /\ pend.n = host.n /\ pend.buf = WR_BUF_PTR(wr)
        /\ DOMAIN host.data = host.off .. host.off + host.n - 1
        /\ \A s \in DOMAIN host.data : host.data[s] = dram[WR_BUF_PTR(wr) + s]
    BY <1>1, <1>9 DEF IInv, Requests
  <2>2. /\ host'.kind = "done" /\ host'.bank = pend.bank /\ host'.row = pend.row /\ host'.data = host.data
    BY <1>1, <1>9, <2>1 DEF Returned
  <2>3. DOMAIN host.data = Moved
    BY <2>1 DEF Moved
  <2>4. Requests'
    BY <1>1, <1>3, <2>2, <2>3 DEF Requests
  <2>5. ASSUME NEW s \in Moved
        PROVE  host.data[s] = nand'[pend.bank][pend.row][s]
    <3>1. s \in Sectors
      BY <1>3
    <3>2. file'[Position(pend.bank, pend.row, s)] = dram[pend.buf + s]
      BY <1>3, <3>1, ProgramEffect DEF IInv
    <3>3. nand'[pend.bank][pend.row][s] = file'[Position(pend.bank, pend.row, s)]
      BY <1>3, <3>1 DEF nand
    <3>4. QED BY <2>1, <2>3, <3>2, <3>3
  <2>6. HostTransfers'
    BY <2>2, <2>3, <2>5 DEF HostTransfers
  <2>7. QED BY <1>6, <1>7, <1>8, <2>4, <2>6 DEF IInv
<1>10. CASE ~OnRing
  <2>1. UNCHANGED <<host, dram, wr, rd>>
    BY <1>1, <1>10
  <2>2. Requests' /\ HostTransfers'
    BY <1>1, <1>2, <2>1 DEF IInv, Requests, HostTransfers, RD_BUF_PTR, WR_BUF_PTR
  <2>3. QED BY <1>6, <1>7, <1>8, <2>2 DEF IInv
<1>11. QED
  BY <1>9, <1>10

LEMMA ReadingInv == ASSUME IInv, Perform, Read PROVE IInv'
<1>1. /\ pend.kind = "read" /\ pend # NoCall /\ pend' = NoCall /\ pend'.kind = "none"
      /\ UNCHANGED <<fmt, calls, file, eof, wr>>
      /\ rd' = IF OnRing THEN (rd + 1) % NumRd ELSE rd
      /\ host' = IF OnRing THEN Returned(dram') ELSE host
  BY DEF Perform, Read, NoCall
<1>2. calls # 0 /\ calls \in Nat /\ fmt = Formatted /\ host.kind # "done"
  BY <1>1 DEF IInv, Formatting, Types, Requests
<1>3. /\ pend.bank \in Banks /\ pend.row \in Rows /\ Moved \subseteq Sectors
  BY <1>1, TransferShape DEF IInv
<1>4. dram' = [a \in DramSectors |->
                IF a - pend.buf \in Moved
                THEN file[Position(pend.bank, pend.row, a - pend.buf)] ELSE dram[a]]
  BY ReadEffect DEF IInv
<1>5. rd' \in 0 .. NumRd - 1
  <2>1. rd + 1 \in Nat /\ NumRd \in Nat \ {0}
    BY Geometry DEF IInv, Types
  <2>2. (rd + 1) % NumRd \in 0 .. NumRd - 1
    BY <2>1, Division
  <2>3. QED BY <1>1, <2>2 DEF IInv, Types
<1>6. Types'
  BY <1>1, <1>4, <1>5 DEF IInv, Types
<1>7. Formatting'
  BY <1>1, <1>2, FormattingKept DEF IInv, Types
<1>8. Shapes'
  BY <1>1 DEF Shapes
<1>9. CASE OnRing
  <2>1. /\ host.kind = "read" /\ pend.bank = host.bank /\ pend.row = host.row
        /\ pend.buf = RD_BUF_PTR(rd) /\ host.addr = RD_BUF_PTR(rd)
    BY <1>1, <1>9 DEF IInv, Requests
  <2>2. /\ host'.kind = "done" /\ host'.bank = pend.bank /\ host'.row = pend.row
        /\ host'.data = [s \in Moved |-> dram'[pend.buf + s]]
    BY <1>1, <1>9, <2>1 DEF Returned
  <2>3. DOMAIN host'.data = Moved
    BY <2>2
  <2>4. Requests'
    BY <1>1, <1>3, <2>2, <2>3 DEF Requests
  <2>5. ASSUME NEW s \in Moved
        PROVE  dram'[pend.buf + s] = nand'[pend.bank][pend.row][s]
    <3>1. s \in Sectors /\ s \in 0 .. SPP - 1
      BY <1>3 DEF Sectors
    <3>2. pend.buf \in Nat /\ pend.buf + SPP <= FtlBuf /\ FtlBuf \in Nat
      <4> DEFINE x == RD_BUF_PTR(rd)
                 y == NumRd * SPP
      <4>1. x \in Nat /\ y \in Nat /\ FtlBuf \in Nat /\ x + SPP <= y /\ y <= FtlBuf /\ SPP \in Nat
        BY ReadBuffer, Geometry DEF IInv, Types
      <4>2. pend.buf = x
        BY <2>1
      <4> HIDE DEF x, y
      <4>3. QED BY <4>1, <4>2
    <3> DEFINE a == pend.buf + s
    <3>3. a \in DramSectors /\ a - pend.buf = s
      BY <3>1, <3>2, Geometry DEF DramSectors
    <3> HIDE DEF a
    <3>4. dram'[a] = file[Position(pend.bank, pend.row, s)]
      BY <1>4, <3>3
    <3>5. nand'[pend.bank][pend.row][s] = file[Position(pend.bank, pend.row, s)]
      BY <1>1, <1>3, <3>1 DEF nand
    <3>6. QED BY <3>4, <3>5 DEF a
  <2>6. HostTransfers'
    BY <2>2, <2>3, <2>5 DEF HostTransfers
  <2>7. QED BY <1>6, <1>7, <1>8, <2>4, <2>6 DEF IInv
<1>10. CASE ~OnRing
  <2>1. UNCHANGED <<host, wr, rd>>
    BY <1>1, <1>10
  <2>2. ASSUME host.kind = "write", NEW s \in DOMAIN host.data
        PROVE  dram'[WR_BUF_PTR(wr) + s] = dram[WR_BUF_PTR(wr) + s]
    <3> DEFINE a == WR_BUF_PTR(wr) + s
    <3>1. s \in 0 .. SPP - 1
      <4>1. /\ s \in host.off .. host.off + host.n - 1 /\ host.off \in 0 .. SPP - 1
            /\ host.n \in 1 .. SPP /\ host.off + host.n <= SPP
        BY <2>2 DEF IInv, Requests, Sectors
      <4>2. QED BY <4>1, Geometry
    <3>2. WR_BUF_PTR(wr) \in Nat /\ WR_BUF_PTR(wr) + SPP <= FtlBuf /\ FtlBuf \in Nat
      BY WriteBuffer DEF IInv, Types
    <3>3. pend.buf = FtlBuf
      BY <1>1, <1>10 DEF IInv, Shapes
    <3>4. a \in DramSectors /\ a - pend.buf < 0 /\ a - pend.buf \in Int
      BY <3>1, <3>2, <3>3, Geometry DEF DramSectors
    <3>5. a - pend.buf \notin Moved
      BY <1>3, <3>4, Geometry DEF Sectors
    <3> HIDE DEF a
    <3>6. dram'[a] = dram[a]
      BY <1>4, <3>4, <3>5
    <3>7. QED BY <3>6 DEF a
  <2>3. Requests' /\ HostTransfers'
    BY <1>1, <1>2, <2>1, <2>2 DEF IInv, Requests, HostTransfers, RD_BUF_PTR, WR_BUF_PTR
  <2>4. QED BY <1>6, <1>7, <1>8, <2>3 DEF IInv
<1>11. QED
  BY <1>9, <1>10

LEMMA StepInv == IInv /\ [Next]_vars => IInv'
<1> SUFFICES ASSUME IInv, [Next]_vars PROVE IInv'
  OBVIOUS
<1>1. CASE Perform
  BY <1>1, EraseInv, ProgramInv, ReadingInv DEF Perform
<1>2. CASE Next /\ ~Perform
  BY <1>2, FormatInv, CallInv, WriteInv, ReadInv, ServeInv DEF Next
<1>3. CASE UNCHANGED vars
  <2>1. UNCHANGED <<file, eof, dram, rd, wr, fmt, pend, host, calls>>
    BY <1>3 DEF vars
  <2>2. Types' /\ Formatting'
    BY <2>1 DEF IInv, Types, Formatting, Passed
  <2>3. Shapes' /\ Requests' /\ HostTransfers'
    BY <2>1 DEF IInv, Shapes, Requests, HostTransfers, OnRing, nand, RD_BUF_PTR, WR_BUF_PTR
  <2>4. QED BY <2>2, <2>3 DEF IInv
<1>4. QED
  BY <1>1, <1>2, <1>3

\* Every state satisfies the inductive invariant: what the format has erased lies within the
\* file, and a request of the host agrees with the operation that serves it.
THEOREM Invariant == Spec => []IInv
BY InitInv, StepInv, PTL DEF Spec

\* The assertion on bytesRead in mock.c never fails: the FTL reads no page past the end of the file.
THEOREM ReadsWithinFile == Spec => []NoShortRead
<1>1. IInv => NoShortRead
  <2> SUFFICES ASSUME IInv, pend.kind = "read" PROVE Start + pend.n <= eof
    BY DEF NoShortRead
  <2> DEFINE v == 1 + (pend.row \div PPB)
             x == (Slot(pend.bank, v) + 1) * BlockSectors
  <2>1. /\ pend.bank \in Banks /\ pend.row \in Rows /\ pend.off \in Nat /\ pend.n \in Nat
        /\ pend.off + pend.n <= SPP /\ Start = PageStart(pend.bank, pend.row) + pend.off
    BY TransferShape DEF IInv
  <2>2. calls # 0 /\ fmt = Formatted /\ eof \in Nat
    BY DEF IInv, Formatting, Types
  <2>3. v \in FtlBlks
    BY <2>1, RowParts
  <2>4. x <= eof
    <3> HIDE DEF v
    <3>1. QED BY <2>1, <2>2, <2>3, AllPassed DEF IInv
  <2>5. PageStart(pend.bank, pend.row) \in Nat /\ PageStart(pend.bank, pend.row) + SPP <= x
    BY <2>1, InPage
  <2>6. x \in Nat
    <3>1. pend.bank \in Nat /\ v \in Nat
      BY <2>1, <2>3 DEF Banks, FtlBlks
    <3> HIDE DEF v
    <3>2. Slot(pend.bank, v) \in 0 .. Slots - 1
      BY <3>1, SlotType
    <3>3. QED BY <3>2, Geometry
  <2> HIDE DEF x
  <2>7. QED BY <2>1, <2>2, <2>4, <2>5, <2>6, Geometry
<1>2. QED
  BY <1>1, Invariant, PTL

\* When a request of the host returns, the flash holds what was sent, or the host has been given
\* what the flash holds.
THEOREM HostServed == Spec => []HostTransfers
<1>1. IInv => HostTransfers
  BY DEF IInv
<1>2. QED
  BY <1>1, Invariant, PTL

-----------------------------------------------------------------------------
(* The refinement. *)

LEMMA NandEqual ==
  ASSUME NEW f, f = [b \in Banks |-> [r \in Rows |-> [s \in Sectors |-> f[b][r][s]]]],
         NEW g, g = [b \in Banks |-> [r \in Rows |-> [s \in Sectors |-> g[b][r][s]]]],
         \A b \in Banks, r \in Rows, s \in Sectors : f[b][r][s] = g[b][r][s]
  PROVE  f = g
OBVIOUS

LEMMA ReadyWhen ==
  ASSUME IInv
  PROVE  /\ Ready <=> fmt = Formatted /\ (pend = NoCall \/ calls # 0)
         /\ Ready => ReadyCells = nand
         /\ ~Ready => ReadyCells = ErasedCells /\ ReadyCalls = [b \in Banks |-> <<>>]
         /\ pend = NoCall => ReadyCalls = [b \in Banks |-> <<>>]
<1>1. Ready <=> fmt = Formatted /\ (pend = NoCall \/ calls # 0)
  BY DEF Ready, IInv, Types
<1>2. QED
  BY <1>1 DEF ReadyCells, ReadyCalls

LEMMA InitRefines == Init => Pages!Init
<1> SUFFICES ASSUME Init PROVE Pages!Init
  OBVIOUS
<1>1. fmt = [bank |-> 0, blk |-> 0] /\ fmt # Formatted
  BY Geometry DEF Init, Formatted
<1>2. ~Ready /\ IInv
  BY <1>1, InitInv DEF Ready
<1>3. QED
  BY <1>2, ReadyWhen DEF Init, Pages!Init

LEMMA FormatRefines == ASSUME IInv, IInv', Format PROVE UNCHANGED Pages!vars
<1>1. fmt # Formatted /\ calls = 0 /\ calls' = 0 /\ pend' # NoCall /\ UNCHANGED dram
  BY DEF Format, IInv, Formatting, NoCall
<1>2. ~Ready /\ ~Ready'
  BY <1>1 DEF Ready
<1>3. ReadyCells = ErasedCells /\ ReadyCells' = ErasedCells /\ ReadyCalls = [b \in Banks |-> <<>>]
      /\ ReadyCalls' = [b \in Banks |-> <<>>]
  BY <1>2 DEF ReadyCells, ReadyCalls
<1>4. QED
  BY <1>1, <1>3 DEF Pages!vars

LEMMA CallRefines ==
  ASSUME IInv, IInv', NEW b \in Banks, NEW op \in Operations, Call(b, op)
  PROVE  Pages!Call(b, op)
<1>1. /\ fmt = Formatted /\ fmt' = Formatted /\ pend = NoCall /\ calls' = calls + 1 /\ calls \in Nat
      /\ calls' # 0 /\ UNCHANGED <<file, dram>>
      /\ pend' = [f \in DOMAIN op \cup {"bank"} |-> IF f = "bank" THEN b ELSE op[f]]
  BY DEF Call, IInv, Types
<1>2. Ready /\ Ready' /\ nand' = nand
  BY <1>1 DEF Ready, IInv, Types, nand
<1>3. ReadyCells = nand /\ ReadyCells' = nand /\ ReadyCalls = [c \in Banks |-> <<>>]
  BY <1>1, <1>2 DEF ReadyCells, ReadyCalls
<1>4. Operation' = op
  <2>1. Operation' = [f \in DOMAIN pend' \ {"bank", "ring"} |-> pend'[f]]
    BY DEF Operation
  <2>2. CASE DOMAIN op = {"kind", "blk"} /\ op = [kind |-> op.kind, blk |-> op.blk]
    <3>1. DOMAIN pend' \ {"bank", "ring"} = {"kind", "blk"} /\ pend'.kind = op.kind /\ pend'.blk = op.blk
      BY <1>1, <2>2
    <3>2. QED BY <2>1, <2>2, <3>1
  <2>3. CASE /\ DOMAIN op = {"kind", "row", "off", "n", "buf"}
             /\ op = [kind |-> op.kind, row |-> op.row, off |-> op.off, n |-> op.n, buf |-> op.buf]
    <3>1. /\ DOMAIN pend' \ {"bank", "ring"} = {"kind", "row", "off", "n", "buf"}
          /\ pend'.kind = op.kind /\ pend'.row = op.row /\ pend'.off = op.off
          /\ pend'.n = op.n /\ pend'.buf = op.buf
      BY <1>1, <2>3
    <3>2. QED BY <2>1, <2>3, <3>1
  <2>4. op.kind = "erase" => DOMAIN op = {"kind", "blk"} /\ op = [kind |-> op.kind, blk |-> op.blk]
    BY OperationShape
  <2>5. QED BY <2>2, <2>3, <2>4, OperationShape
<1>5. pend'.bank = b /\ pend' # NoCall
  <2>1. pend'.bank = b /\ "bank" \in DOMAIN pend'
    BY <1>1
  <2>2. QED BY <2>1 DEF NoCall
<1>6. ReadyCalls' = [c \in Banks |-> IF c = b THEN <<op>> ELSE <<>>]
  BY <1>2, <1>4, <1>5 DEF ReadyCalls
<1>7. ReadyCalls' = [ReadyCalls EXCEPT ![b] = Append(@, op)]
  BY <1>3, <1>6
<1>8. QED
  BY <1>1, <1>3, <1>7 DEF Pages!Call

LEMMA WriteRefines ==
  ASSUME IInv, IInv', NEW b \in Banks, NEW row \in Rows, NEW r \in Ranges, writeToOpenSSD(b, row, r)
  PROVE  Pages!HostWrites
<1> DEFINE sent == [s \in r.off .. r.off + r.n - 1 |-> HostData(calls, s)]
<1>1. /\ fmt = Formatted /\ fmt' = Formatted /\ pend = NoCall /\ UNCHANGED <<file, pend>>
      /\ dram' = [a \in DramSectors |->
                    IF a - WR_BUF_PTR(wr) \in DOMAIN sent THEN sent[a - WR_BUF_PTR(wr)] ELSE dram[a]]
  BY DEF writeToOpenSSD
<1>2. Ready /\ Ready' /\ nand' = nand
  BY <1>1 DEF Ready, nand
<1>3. UNCHANGED <<ReadyCells, ReadyCalls>>
  BY <1>1, <1>2 DEF ReadyCells, ReadyCalls
<1>4. ASSUME NEW a \in DramSectors \ WrSectors
      PROVE  dram'[a] = dram[a]
  <2>1. DOMAIN sent \subseteq 0 .. SPP - 1
    <3>1. r.off \in 0 .. SPP - 1 /\ r.n \in 1 .. SPP /\ r.off + r.n <= SPP
      BY DEF Ranges, Sectors
    <3>2. DOMAIN sent = r.off .. r.off + r.n - 1
      OBVIOUS
    <3>3. QED BY <3>1, <3>2, Geometry
  <2>2. /\ WR_BUF_PTR(wr) \in Nat /\ FtlBuf \in Nat /\ NumRd * SPP \in Nat
        /\ NumRd * SPP <= WR_BUF_PTR(wr) /\ WR_BUF_PTR(wr) + SPP <= FtlBuf
    <3>1. wr \in 0 .. NumWr - 1
      BY DEF IInv, Types
    <3>2. NumRd * SPP \in Nat
      BY Geometry
    <3>3. QED BY <3>1, <3>2, WriteBuffer
  <2>3. a - WR_BUF_PTR(wr) \notin DOMAIN sent
    <3>1. SUFFICES ASSUME a - WR_BUF_PTR(wr) \in 0 .. SPP - 1 PROVE FALSE
      BY <2>1
    <3> DEFINE x == NumRd * SPP
               w == WR_BUF_PTR(wr)
    <3>2. a \in Nat /\ a \notin x .. FtlBuf - 1 /\ SPP \in Nat
      BY <1>4, Geometry DEF DramSectors, WrSectors
    <3>3. x \in Nat /\ w \in Nat /\ FtlBuf \in Nat /\ x <= w /\ w + SPP <= FtlBuf /\ a - w \in 0 .. SPP - 1
      BY <2>2, <3>1
    <3> HIDE DEF x, w
    <3>4. QED BY <3>2, <3>3
  <2> HIDE DEF sent
  <2>4. QED BY <1>1, <2>3
<1>5. QED
  BY <1>3, <1>4 DEF Pages!HostWrites

LEMMA ReadRefines ==
  ASSUME IInv, IInv', NEW b \in Banks, NEW row \in Rows, NEW r \in Ranges, readFromOpenSSD(b, row, r)
  PROVE  UNCHANGED Pages!vars
<1>1. fmt = Formatted /\ fmt' = Formatted /\ pend = NoCall /\ UNCHANGED <<file, dram, pend>>
  BY DEF readFromOpenSSD
<1>2. Ready /\ Ready' /\ nand' = nand
  BY <1>1 DEF Ready, nand
<1>3. UNCHANGED <<ReadyCells, ReadyCalls>>
  BY <1>1, <1>2 DEF ReadyCells, ReadyCalls
<1>4. QED
  BY <1>1, <1>3 DEF Pages!vars

\* Serving a request is a call of the abstract specification.
LEMMA ServeRefines ==
  ASSUME IInv, IInv', ToHost \/ FromHost
  PROVE  \E b \in Banks, op \in Operations : Pages!Call(b, op)
<1> DEFINE kind == IF host.kind = "read" THEN "read" ELSE "program"
           buf == IF host.kind = "read" THEN RD_BUF_PTR(rd) ELSE WR_BUF_PTR(wr)
           op == [kind |-> kind, row |-> host.row, off |-> host.off, n |-> host.n, buf |-> buf]
<1>1. /\ host.kind \in {"read", "write"} /\ pend = NoCall
      /\ pend' = [kind |-> kind, bank |-> host.bank, row |-> host.row, off |-> host.off, n |-> host.n,
                  buf |-> buf, ring |-> TRUE]
      /\ UNCHANGED <<file, dram, fmt, calls>>
  BY DEF ToHost, FromHost
<1>2. calls # 0 /\ calls \in Nat /\ fmt = Formatted
  BY <1>1 DEF IInv, Formatting, NoHost, Types
<1>3. /\ host.bank \in Banks /\ host.row \in Rows
      /\ host.off \in Sectors /\ host.n \in 1 .. SPP /\ host.off + host.n <= SPP
  BY <1>1 DEF IInv, Requests
<1>4. op \in Operations
  <2>1. [off |-> host.off, n |-> host.n] \in Ranges
    BY <1>3 DEF Ranges
  <2>2. \A k, bufs : buf \in bufs /\ kind = k => op \in Transfers(k, bufs)
    <3> SUFFICES ASSUME NEW k, NEW bufs, buf \in bufs, kind = k PROVE op \in Transfers(k, bufs)
      OBVIOUS
    <3> DEFINE r == [off |-> host.off, n |-> host.n]
    <3>1. op = [kind |-> k, row |-> host.row, off |-> r.off, n |-> r.n, buf |-> buf]
      OBVIOUS
    <3>2. QED BY <1>3, <2>1, <3>1 DEF Transfers
  <2>3. rd \in 0 .. NumRd - 1 /\ wr \in 0 .. NumWr - 1
    BY DEF IInv, Types
  <2>4. CASE host.kind = "read"
    <3>1. kind = "read" /\ buf \in {FtlBuf} \cup {RD_BUF_PTR(i) : i \in 0 .. NumRd - 1}
      BY <2>3, <2>4
    <3> HIDE DEF op, kind, buf
    <3>2. QED BY <2>2, <3>1 DEF Operations
  <2>5. CASE host.kind # "read"
    <3>1. kind = "program" /\ buf \in {FtlBuf} \cup {WR_BUF_PTR(i) : i \in 0 .. NumWr - 1}
      BY <2>3, <2>5
    <3> HIDE DEF op, kind, buf
    <3>2. QED BY <2>2, <3>1 DEF Operations
  <2>6. QED BY <2>4, <2>5
<1> HIDE DEF kind, buf
<1>5. Ready /\ Ready' /\ nand' = nand
  BY <1>1, <1>2 DEF Ready, nand
<1>6. ReadyCells = nand /\ ReadyCells' = nand /\ ReadyCalls = [c \in Banks |-> <<>>]
  BY <1>1, <1>5 DEF ReadyCells, ReadyCalls
<1>7. Operation' = op
  <2>1. Operation' = [f \in DOMAIN pend' \ {"bank", "ring"} |-> pend'[f]]
    BY DEF Operation
  <2>2. DOMAIN pend' \ {"bank", "ring"} = {"kind", "row", "off", "n", "buf"}
    BY <1>1
  <2>3. QED BY <1>1, <2>1, <2>2
<1>8. pend'.bank = host.bank /\ pend' # NoCall
  <2>1. pend'.bank = host.bank /\ "bank" \in DOMAIN pend'
    BY <1>1
  <2>2. QED BY <2>1 DEF NoCall
<1> HIDE DEF op
<1>9. ReadyCalls' = [c \in Banks |-> IF c = host.bank THEN <<op>> ELSE <<>>]
  BY <1>5, <1>7, <1>8 DEF ReadyCalls
<1>10. ReadyCalls' = [ReadyCalls EXCEPT ![host.bank] = Append(@, op)]
  BY <1>6, <1>9
<1>11. Pages!Call(host.bank, op)
  BY <1>1, <1>6, <1>10 DEF Pages!Call
<1>12. QED
  BY <1>3, <1>4, <1>11

\* The last erase of the format leaves every page of the FTL erased.
LEMMA FormatEndRefines ==
  ASSUME IInv, IInv', Perform, ~Ready
  PROVE  UNCHANGED Pages!vars
<1>1. pend # NoCall /\ pend' = NoCall /\ UNCHANGED <<fmt, calls>>
  BY DEF Perform, Read, Program, Erase, NoCall
<1>2. calls = 0
  BY <1>1 DEF Ready, IInv, Formatting, Types
<1>3. pend.kind = "erase" /\ Erase /\ UNCHANGED dram
  BY <1>1, <1>2 DEF IInv, Formatting, Perform, Read, Program, Erase
<1>4. /\ ReadyCells = ErasedCells /\ ReadyCalls = [b \in Banks |-> <<>>]
      /\ ReadyCalls' = [b \in Banks |-> <<>>]
  BY <1>1 DEF ReadyCells, ReadyCalls
<1>5. CASE fmt = Formatted
  <2>1. ASSUME NEW b \in Banks, NEW r \in Rows, NEW s \in Sectors
        PROVE  file'[Position(b, r, s)] = Erased
    <3> DEFINE v == 1 + (r \div PPB)
               i == (r % PPB) * SPP + s
    <3>1. b \in Nat /\ v \in Nat /\ v \in FtlBlks /\ r % PPB \in 0 .. PPB - 1
      BY RowParts DEF Banks, FtlBlks
    <3>2. i \in 0 .. BlockSectors - 1 /\ Position(b, r, s) = Slot(b, v) * BlockSectors + i
      BY <3>1, InSlot DEF Position
    <3> HIDE DEF v, i
    <3>3. Passed(b, v)'
      <4>1. fmt'.bank > b
        BY <1>1, <1>5, FormattedFacts
      <4>2. QED BY <1>1, <4>1 DEF Passed, NoCall
    <3>4. file'[Slot(b, v) * BlockSectors + i] = Erased
      BY <1>1, <1>2, <3>1, <3>2, <3>3 DEF IInv, Formatting
    <3>5. QED BY <3>2, <3>4
  <2>2. nand' = ErasedCells
    BY <2>1 DEF nand, ErasedCells
  <2>3. Ready'
    BY <1>1, <1>5 DEF Ready
  <2>4. QED BY <1>3, <1>4, <2>2, <2>3 DEF ReadyCells, Pages!vars
<1>6. CASE fmt # Formatted
  <2>1. ~Ready'
    BY <1>1, <1>6 DEF Ready
  <2>2. QED BY <1>3, <1>4, <2>1 DEF ReadyCells, Pages!vars
<1>7. QED
  BY <1>5, <1>6

LEMMA PerformReady ==
  ASSUME IInv, Perform, Ready
  PROVE  /\ pend # NoCall /\ pend.bank \in Banks /\ Ready'
         /\ ReadyCells = nand /\ ReadyCells' = nand'
         /\ pend.kind = "erase" => pend.blk \in 0 .. LogBlks - 1
         /\ ReadyCalls[pend.bank] # <<>> /\ Head(ReadyCalls[pend.bank]) = Operation
         /\ ReadyCalls' = [ReadyCalls EXCEPT ![pend.bank] = Tail(@)]
<1>1. pend # NoCall /\ pend' = NoCall /\ UNCHANGED <<fmt, calls>>
  BY DEF Perform, Read, Program, Erase, NoCall
<1>2. calls # 0 /\ Ready'
  BY <1>1 DEF Ready, IInv, Types
<1>3. pend.bank \in Banks /\ (pend.kind = "erase" => pend.blk \in 0 .. LogBlks - 1)
  BY <1>1, <1>2 DEF IInv, Shapes
<1>4. ReadyCells = nand /\ ReadyCells' = nand'
  BY <1>2 DEF ReadyCells
<1>5. /\ ReadyCalls = [b \in Banks |-> IF b = pend.bank THEN <<Operation>> ELSE <<>>]
      /\ ReadyCalls' = [b \in Banks |-> <<>>]
  BY <1>1 DEF ReadyCalls
<1>6. /\ ReadyCalls[pend.bank] # <<>> /\ Head(ReadyCalls[pend.bank]) = Operation
      /\ ReadyCalls' = [ReadyCalls EXCEPT ![pend.bank] = Tail(@)]
  BY <1>3, <1>5
<1>7. QED
  BY <1>1, <1>2, <1>3, <1>4, <1>6

LEMMA OperationFields ==
  /\ "kind" \in DOMAIN pend => Operation.kind = pend.kind
  /\ "blk" \in DOMAIN pend => Operation.blk = pend.blk
  /\ "row" \in DOMAIN pend => Operation.row = pend.row
  /\ "off" \in DOMAIN pend => Operation.off = pend.off
  /\ "n" \in DOMAIN pend => Operation.n = pend.n
  /\ "buf" \in DOMAIN pend => Operation.buf = pend.buf
BY DEF Operation

LEMMA ReadPerforms ==
  ASSUME IInv, Perform, Ready, Read
  PROVE  Pages!Perform(pend.bank)
<1>1. pend.kind = "read" /\ UNCHANGED file
  BY DEF Read
<1>2. /\ Operation.kind = "read" /\ Operation.row = pend.row /\ Operation.off = pend.off
      /\ Operation.n = pend.n /\ Operation.buf = pend.buf
  BY <1>1, OperationFields DEF IInv, Shapes
<1>3. pend.bank \in Banks /\ pend.row \in Rows /\ Moved \subseteq Sectors
  BY <1>1, TransferShape DEF IInv
<1>4. dram' = [a \in DramSectors |->
                IF a - pend.buf \in Moved
                THEN file[Position(pend.bank, pend.row, a - pend.buf)] ELSE dram[a]]
  BY ReadEffect DEF IInv
<1>5. \A s \in Moved : nand[pend.bank][pend.row][s] = file[Position(pend.bank, pend.row, s)]
  BY <1>3 DEF nand
<1>6. nand' = nand
  BY <1>1 DEF nand
<1>7. Pages!Range(Operation) = Moved
  BY <1>2 DEF Pages!Range, Moved
<1>8. dram' = [a \in DramSectors |->
                IF a - pend.buf \in Moved THEN nand[pend.bank][pend.row][a - pend.buf] ELSE dram[a]]
  BY <1>4, <1>5
<1>9. Pages!Read(pend.bank, Operation)
  <2>1. ReadyCells = nand /\ ReadyCells' = ReadyCells
    BY <1>6, PerformReady
  <2>2. dram' = [a \in DramSectors |->
                  IF a - Operation.buf \in Moved
                  THEN ReadyCells[pend.bank][Operation.row][a - Operation.buf] ELSE dram[a]]
    BY <1>2, <1>8, <2>1
  <2>3. QED BY <1>7, <2>1, <2>2 DEF Pages!Read
<1>10. QED
  BY <1>2, <1>9, PerformReady DEF Pages!Perform

LEMMA ProgramPerforms ==
  ASSUME IInv, Perform, Ready, Program
  PROVE  Pages!Perform(pend.bank)
<1>1. pend.kind = "program" /\ UNCHANGED dram
  BY DEF Program
<1>2. /\ Operation.kind = "program" /\ Operation.row = pend.row /\ Operation.off = pend.off
      /\ Operation.n = pend.n /\ Operation.buf = pend.buf
  BY <1>1, OperationFields DEF IInv, Shapes
<1>3. pend.bank \in Banks /\ pend.row \in Rows
  BY <1>1, TransferShape DEF IInv
<1>4. Pages!Range(Operation) = Moved
  BY <1>2 DEF Pages!Range, Moved
<1> DEFINE new == [s \in Sectors |-> IF s \in Moved THEN dram[pend.buf + s]
                                                 ELSE nand[pend.bank][pend.row][s]]
           g == [nand EXCEPT ![pend.bank] = [nand[pend.bank] EXCEPT ![pend.row] = new]]
<1>5. nand' = g
  <2>1. ASSUME NEW b \in Banks, NEW r \in Rows, NEW s \in Sectors
        PROVE  /\ nand'[b][r][s] = IF b = pend.bank /\ r = pend.row /\ s \in Moved
                                   THEN dram[pend.buf + s] ELSE nand[b][r][s]
               /\ g[b][r][s] = IF b = pend.bank /\ r = pend.row /\ s \in Moved
                               THEN dram[pend.buf + s] ELSE nand[b][r][s]
    <3>1. nand'[b][r][s] = file'[Position(b, r, s)] /\ nand[b][r][s] = file[Position(b, r, s)]
      BY DEF nand
    <3>2. file'[Position(b, r, s)] = IF b = pend.bank /\ r = pend.row /\ s \in Moved
                                     THEN dram[pend.buf + s] ELSE file[Position(b, r, s)]
      BY ProgramEffect DEF IInv
    <3>3. g[b][r][s] = IF b = pend.bank /\ r = pend.row /\ s \in Moved
                       THEN dram[pend.buf + s] ELSE nand[b][r][s]
      BY <1>3 DEF nand
    <3>4. QED BY <3>1, <3>2, <3>3
  <2>2. nand' = [b \in Banks |-> [r \in Rows |-> [s \in Sectors |-> nand'[b][r][s]]]]
    BY DEF nand
  <2>3. g = [b \in Banks |-> [r \in Rows |-> [s \in Sectors |-> g[b][r][s]]]]
    <3>1. nand[pend.bank] = [r \in Rows |-> [s \in Sectors |-> nand[pend.bank][r][s]]]
      BY <1>3 DEF nand
    <3>2. new = [s \in Sectors |-> new[s]]
      OBVIOUS
    <3>3. nand = [b \in Banks |-> [r \in Rows |-> [s \in Sectors |-> nand[b][r][s]]]]
      BY DEF nand
    <3> DEFINE h == [nand[pend.bank] EXCEPT ![pend.row] = new]
    <3>4. h = [r \in Rows |-> [s \in Sectors |-> h[r][s]]]
      <4>1. h = [r \in Rows |-> IF r = pend.row THEN new ELSE nand[pend.bank][r]]
        BY <1>3, <3>1
      <4>2. \A r \in Rows : h[r] = [s \in Sectors |-> h[r][s]]
        <5>1. \A r \in Rows : nand[pend.bank][r] = [s \in Sectors |-> nand[pend.bank][r][s]]
          BY <1>3 DEF nand
        <5> HIDE DEF new
        <5>2. QED BY <3>2, <4>1, <5>1
      <4> HIDE DEF h, new
      <4>3. QED BY <4>1, <4>2
    <3>5. g = [b \in Banks |-> IF b = pend.bank THEN h ELSE nand[b]]
      <4> HIDE DEF h
      <4>1. QED BY <1>3, <3>3 DEF h
    <3>6. \A b \in Banks : g[b] = [r \in Rows |-> [s \in Sectors |-> g[b][r][s]]]
      <4>1. \A b \in Banks : nand[b] = [r \in Rows |-> [s \in Sectors |-> nand[b][r][s]]]
        BY DEF nand
      <4> HIDE DEF h, new, g
      <4> SUFFICES ASSUME NEW b \in Banks
                   PROVE  g[b] = [r \in Rows |-> [s \in Sectors |-> g[b][r][s]]]
        OBVIOUS
      <4>2. CASE b = pend.bank
        <5>1. g[b] = h
          BY <3>5, <4>2
        <5>2. QED BY <3>4, <5>1
      <4>3. CASE b # pend.bank
        <5>1. g[b] = nand[b]
          BY <3>5, <4>3
        <5>2. nand[b] = [r \in Rows |-> [s \in Sectors |-> nand[b][r][s]]]
          BY <4>1
        <5>3. QED BY <5>1, <5>2
      <4>4. QED BY <4>2, <4>3
    <3> HIDE DEF h, new, g
    <3>7. QED BY <3>5, <3>6
  <2> HIDE DEF g
  <2>4. QED BY <2>1, <2>2, <2>3, NandEqual
<1>6. ReadyCells' = [ReadyCells EXCEPT ![pend.bank][pend.row] =
                       [s \in Sectors |-> IF s \in Moved THEN dram[pend.buf + s] ELSE @[s]]]
  <2>1. ReadyCells' = [ReadyCells EXCEPT ![pend.bank] = [ReadyCells[pend.bank] EXCEPT ![pend.row] = new]]
    <3> HIDE DEF new
    <3>1. QED BY <1>5, PerformReady
  <2>2. new = [s \in Sectors |-> IF s \in Moved THEN dram[pend.buf + s]
                                                ELSE ReadyCells[pend.bank][pend.row][s]]
    BY PerformReady
  <2> HIDE DEF new
  <2>3. QED BY <2>1, <2>2
<1>7. Pages!Program(pend.bank, Operation)
  BY <1>1, <1>2, <1>4, <1>6 DEF Pages!Program
<1>8. QED
  BY <1>2, <1>7, PerformReady DEF Pages!Perform

LEMMA ErasePerforms ==
  ASSUME IInv, Perform, Ready, Erase
  PROVE  Pages!Perform(pend.bank)
<1> DEFINE t == Slot(pend.bank, pend.blk + 1)
<1>1. pend.kind = "erase" /\ UNCHANGED dram
  BY DEF Erase
<1>2. pend.bank \in Banks /\ pend.blk \in 0 .. LogBlks - 1 /\ DOMAIN pend = {"kind", "bank", "blk"}
  BY <1>1, PerformReady DEF IInv, Shapes
<1>3. Operation.kind = "erase" /\ Operation.blk = pend.blk
  BY <1>1, <1>2, OperationFields
<1>4. /\ t \in Nat
      /\ file' = [p \in FileSectors |->
                    IF p \in t * BlockSectors .. t * BlockSectors + BlockSectors - 1
                    THEN Erased ELSE file[p]]
  BY EraseEffect DEF IInv
<1>5. ASSUME NEW b \in Banks, NEW r \in Rows, NEW s \in Sectors
      PROVE  file'[Position(b, r, s)] = IF b = pend.bank /\ r \div PPB = pend.blk
                                        THEN Erased ELSE file[Position(b, r, s)]
  <2> DEFINE k == r \div PPB
             v == 1 + k
             u == Slot(b, v)
             i == (r % PPB) * SPP + s
             p == Position(b, r, s)
  <2>1. /\ b \in Nat /\ v \in Nat /\ v \in FtlBlks /\ r % PPB \in 0 .. PPB - 1 /\ k \in 0 .. LogBlks - 1
        /\ v = 1 + k
    BY RowParts DEF Banks, FtlBlks
  <2>2. i \in 0 .. BlockSectors - 1 /\ p = u * BlockSectors + i /\ p \in FileSectors
    <3>1. p \in FileSectors
      BY InPage
    <3> HIDE DEF v
    <3>2. QED BY <2>1, <3>1, InSlot DEF Position, v
  <2>3. u \in Nat
    <3> HIDE DEF v
    <3>1. u \in 0 .. Slots - 1
      BY <2>1, SlotType
    <3>2. QED BY <3>1, Geometry
  <2>4. pend.blk + 1 \in FtlBlks
    BY <1>2, Geometry DEF FtlBlks
  <2>5. u = t <=> (b = pend.bank /\ k = pend.blk)
    <3>1. u = t => b = pend.bank /\ v = pend.blk + 1
      <4> HIDE DEF v
      <4>1. b \in Banks /\ v \in FtlBlks /\ pend.bank \in Banks /\ pend.blk + 1 \in FtlBlks
        BY <1>2, <2>1, <2>4
      <4> DEFINE w == pend.blk + 1
      <4> HIDE DEF w
      <4>2. Slot(b, v) = Slot(pend.bank, w) => b = pend.bank /\ v = w
        BY <4>1, SlotsApart DEF w
      <4>3. QED BY <4>2 DEF w
    <3>2. v = pend.blk + 1 <=> k = pend.blk
      <4>1. pend.blk \in Int /\ k \in Int /\ v = 1 + k
        BY <1>2, <2>1, Geometry
      <4> HIDE DEF k, v
      <4>2. QED BY <4>1
    <3> HIDE DEF k, v
    <3>3. QED BY <3>1, <3>2
  <2> HIDE DEF k, v, u, i, p, t
  <2>6. p \in t * BlockSectors .. t * BlockSectors + BlockSectors - 1 <=> u = t
    <3>1. u * BlockSectors \in Nat /\ t * BlockSectors \in Nat /\ BlockSectors \in Nat \ {0}
      BY <1>4, <2>3, Geometry
    <3>2. u = t => p \in t * BlockSectors .. t * BlockSectors + BlockSectors - 1
      BY <2>2, <3>1
    <3>3. ASSUME p \in t * BlockSectors .. t * BlockSectors + BlockSectors - 1
          PROVE  u = t
      <4> DEFINE j == p - t * BlockSectors
      <4>1. j \in 0 .. BlockSectors - 1 /\ t * BlockSectors + j = u * BlockSectors + i
        BY <2>2, <3>1, <3>3
      <4> HIDE DEF j
      <4>2. QED BY <1>4, <2>2, <2>3, <4>1, BlocksApart
    <3>4. QED BY <3>2, <3>3
  <2>7. file'[p] = IF u = t THEN Erased ELSE file[p]
    BY <1>4, <2>2, <2>6
  <2>8. QED BY <2>5, <2>7 DEF k, p
<1> DEFINE g == [nand EXCEPT ![pend.bank] =
                   [r \in Rows |-> IF r \div PPB = pend.blk THEN [s \in Sectors |-> Erased]
                                                         ELSE nand[pend.bank][r]]]
<1>6. nand' = g
  <2>1. ASSUME NEW b \in Banks, NEW r \in Rows, NEW s \in Sectors
        PROVE  nand'[b][r][s] = g[b][r][s]
    <3>1. nand'[b][r][s] = file'[Position(b, r, s)] /\ nand[b][r][s] = file[Position(b, r, s)]
      BY DEF nand
    <3>2. g[b][r][s] = IF b = pend.bank /\ r \div PPB = pend.blk THEN Erased ELSE nand[b][r][s]
      BY <1>2 DEF nand
    <3>3. QED BY <1>5, <3>1, <3>2
  <2>2. nand' = [b \in Banks |-> [r \in Rows |-> [s \in Sectors |-> nand'[b][r][s]]]]
    BY DEF nand
  <2>3. g = [b \in Banks |-> [r \in Rows |-> [s \in Sectors |-> g[b][r][s]]]]
    <3>1. nand = [b \in Banks |-> [r \in Rows |-> [s \in Sectors |-> nand[b][r][s]]]]
      BY DEF nand
    <3>2. \A b \in Banks, r \in Rows : nand[b][r] = [s \in Sectors |-> nand[b][r][s]]
      BY DEF nand
    <3>3. QED BY <1>2, <3>1, <3>2
  <2> HIDE DEF g
  <2>4. QED BY <2>1, <2>2, <2>3, NandEqual
<1>7. ReadyCells' = [ReadyCells EXCEPT ![pend.bank] =
                       [r \in Rows |-> IF r \div PPB = Operation.blk THEN [s \in Sectors |-> Erased]
                                                                  ELSE @[r]]]
  <2>1. ReadyCells = nand /\ ReadyCells' = nand'
    BY PerformReady
  <2>2. QED BY <1>3, <1>6, <2>1
<1>8. Pages!Erase(pend.bank, Operation)
  BY <1>1, <1>7 DEF Pages!Erase
<1>9. QED
  BY <1>3, <1>8, PerformReady DEF Pages!Perform

LEMMA StepRefines ==
  IInv /\ IInv' /\ [Next]_vars => [Pages!Next]_(Pages!vars)
<1> SUFFICES ASSUME IInv, IInv', [Next]_vars PROVE [Pages!Next]_(Pages!vars)
  OBVIOUS
<1>1. CASE Format
  BY <1>1, FormatRefines
<1>2. CASE \E b \in Banks, op \in Operations : Call(b, op)
  BY <1>2, CallRefines DEF Pages!Next
<1>3. CASE \E b \in Banks, row \in Rows, r \in Ranges : writeToOpenSSD(b, row, r)
  BY <1>3, WriteRefines DEF Pages!Next
<1>4. CASE \E b \in Banks, row \in Rows, r \in Ranges : readFromOpenSSD(b, row, r)
  BY <1>4, ReadRefines
<1>5. CASE ToHost \/ FromHost
  BY <1>5, ServeRefines DEF Pages!Next
<1>6. CASE Perform /\ Ready
  <2>1. Pages!Perform(pend.bank) /\ pend.bank \in Banks
    BY <1>6, ReadPerforms, ProgramPerforms, ErasePerforms, PerformReady DEF Perform
  <2>2. QED BY <2>1 DEF Pages!Next
<1>7. CASE Perform /\ ~Ready
  BY <1>7, FormatEndRefines
<1>8. CASE UNCHANGED vars
  <2>1. UNCHANGED <<file, dram, fmt, pend, calls>>
    BY <1>8 DEF vars
  <2>2. UNCHANGED <<ReadyCells, ReadyCalls, dram>>
    BY <2>1 DEF ReadyCells, ReadyCalls, Ready, nand, Operation
  <2>3. QED BY <2>2 DEF Pages!vars
<1>9. QED
  BY <1>1, <1>2, <1>3, <1>4, <1>5, <1>6, <1>7, <1>8 DEF Next

\* The emulator implements the page operations of NandPages, all pages erased at first: the same
\* specification that the command sequences of flash_wrapper.c are checked against.
THEOREM EmulatorImplementsPages == Spec => ImplementsPages
<1>1. Init => Pages!Init
  BY InitRefines
<1>2. Spec => [][Pages!Next]_(Pages!vars)
  BY Invariant, StepRefines, PTL DEF Spec
<1>3. QED
  BY <1>1, <1>2, PTL DEF Spec, ImplementsPages, Pages!Spec
=============================================================================
