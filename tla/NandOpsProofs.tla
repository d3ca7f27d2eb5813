--------------------------- MODULE NandOpsProofs ---------------------------
(***************************************************************************)
(* The page operations of flash_wrapper.c, for every geometry and number   *)
(* of calls.  The argument: a command has a place <<i, k>> in the work of  *)
(* its bank, the k-th command of the i-th operation called on it.  The     *)
(* queue of the bank and then what the routine has left to issue are       *)
(* consecutive places from <<1, k>> on, each with the registers its        *)
(* operation needs, those it inherits included; and what the commands      *)
(* before k of the oldest operation have left, a page in the copy buffer   *)
(* of the bank and sectors in its page register, is what command k counts  *)
(* on.  So the last command of an operation does all that NandPages says   *)
(* of it, and the others change nothing the FTL sees.                      *)
(***************************************************************************)
EXTENDS NandOps, TLAPS

\* The copies by way of DRAM take several commands, the others one.
NumSteps(op) == IF op.kind = "modcopy" THEN 4
                ELSE IF op.kind = "copy" /\ ~Internal(op) THEN 2 ELSE 1

\* Command c, with the registers it was issued with.
Is(c, name, dma, cnt, col, r) ==
  /\ c.reg.cmd = name /\ c.reg.dma = dma /\ c.reg.cnt = cnt /\ c.reg.col = col /\ c.row = r

\* c is command k of op, all registers included.
Serves(c, b, op, k) ==
  /\ k \in 1 .. NumSteps(op)
  /\ c.last <=> k = NumSteps(op)
  /\ op.kind = "read" => Is(c, "READ_OUT", op.buf, op.n, op.off, op.row)
  /\ op.kind = "program" => Is(c, "ROW_IN_PROG", op.buf, op.n, op.off, op.row)
  /\ op.kind = "erase" => c.reg.cmd = "ERASE" /\ c.row = op.blk * RowsPerBlk
  /\ op.kind = "copy" /\ Internal(op) =>
       c.reg.cmd = "COPYBACK" /\ c.row = op.src /\ c.reg.dst = op.row
  /\ op.kind = "copy" /\ ~Internal(op) /\ k = 1 => Is(c, "READ_OUT", CopyBuf(b), SPP, 0, op.src)
  /\ op.kind = "copy" /\ ~Internal(op) /\ k = 2 => Is(c, "ROW_IN_PROG", CopyBuf(b), SPP, 0, op.row)
  /\ op.kind = "modcopy" /\ k = 1 => Is(c, "READ_OUT", CopyBuf(b), SPP, 0, op.src)
  /\ op.kind = "modcopy" /\ k = 2 => Is(c, "ROW_IN", CopyBuf(b), op.off, 0, op.row)
  /\ op.kind = "modcopy" /\ k = 3 => Is(c, "IN", op.buf - op.off, op.n, op.off, op.row)
  /\ op.kind = "modcopy" /\ k = 4 =>
       Is(c, "IN_PROG", CopyBuf(b), SPP - op.off - op.n, op.off + op.n, op.row)

\* The routine goes on with command k of op: the commands it has left, and what it counts on
\* of the registers it has written before.
Second(op) == [cmd |-> "ROW_IN_PROG", row |-> op.row]
Front(op) == [cmd |-> "ROW_IN", cnt |-> op.off, row |-> op.row, col |-> 0]
Middle(op) == [cmd |-> "IN", dma |-> op.buf - op.off, cnt |-> op.n, col |-> op.off]
Back(b, op) == [cmd |-> "IN_PROG", dma |-> CopyBuf(b), cnt |-> SPP - op.off - op.n,
                col |-> op.off + op.n]

GoesOn(b, op, k) ==
  /\ k \in 1 .. NumSteps(op)
  /\ k = 1 => todo = Steps(b, op)
  /\ op.kind = "copy" /\ k = 2 =>
       todo = <<Second(op)>> /\ fcp.dma = CopyBuf(b) /\ fcp.cnt = SPP /\ fcp.col = 0
  /\ op.kind = "modcopy" /\ k = 2 =>
       todo = <<Front(op), Middle(op), Back(b, op)>> /\ fcp.dma = CopyBuf(b)
  /\ op.kind = "modcopy" /\ k = 3 => todo = <<Middle(op), Back(b, op)>> /\ row[b] = op.row
  /\ op.kind = "modcopy" /\ k = 4 => todo = <<Back(b, op)>> /\ row[b] = op.row

\* A place in the work of a bank is <<i, k>>: command k of the i-th operation of its list.
After(b, i, k) == IF k = NumSteps(pending[b][i]) THEN <<i + 1, 1>> ELSE <<i, k + 1>>

\* Everything before that place has been issued, and nothing from there on.
IssuedTo(b, i, k) ==
  IF todo # <<>> /\ call.bank = b
  THEN i = Len(pending[b]) /\ GoesOn(b, pending[b][i], k)
  ELSE i = Len(pending[b]) + 1 /\ k = 1

\* Command j of the queue is the one at that place.
Queued(b, j, i, k) == i \in 1 .. Len(pending[b]) /\ Serves(queue[b][j], b, pending[b][i], k)

Queues(b, k) ==
  /\ queue[b] = <<>> => IssuedTo(b, 1, k)
  /\ queue[b] # <<>> => Queued(b, 1, 1, k)
  /\ Len(queue[b]) = 1 => LET p == After(b, 1, k) IN IssuedTo(b, p[1], p[2])
  /\ Len(queue[b]) = 2 => LET p == After(b, 1, k) IN
       /\ Queued(b, 2, p[1], p[2])
       /\ LET q == After(b, p[1], p[2]) IN IssuedTo(b, q[1], q[2])

\* What the commands before k of the oldest operation have left: the page in the copy
\* buffer, and the sectors loaded of it.
LeftBy(b, op, k) ==
  /\ k \in {1, 2} => open[b] = -1
  /\ k >= 2 => \A s \in Sectors : dram[CopyBuf(b) + s] = nand[b][op.src][s]
  /\ k >= 3 => /\ open[b] = op.row
               /\ \A s \in Sectors : page[b][s] =
                    IF s < op.off THEN nand[b][op.src][s]
                    ELSE IF k = 4 /\ s < op.off + op.n THEN dram[op.buf - op.off + s]
                    ELSE NotLoaded

Left(b, k) == LeftBy(b, pending[b][1], k)

Work == \A b \in Banks : \E k \in 1 .. 4 : Queues(b, k) /\ Left(b, k)

DramSectors == 0 .. OutBuf + SPP - 1
Values == {Erased} \cup {<<a>> : a \in DramSectors}
          \cup {<<b, r, s>> : b \in Banks, r \in Rows, s \in Sectors}
Names == {"WAIT", "READ_OUT", "ROW_IN", "IN", "IN_PROG", "ROW_IN_PROG", "COPYBACK", "ERASE"}
Registers == {r \in [cmd : Names, dma : Int, cnt : 0 .. SPP, col : 0 .. SPP, dst : Rows] :
                r.col + r.cnt <= SPP}

Commands == [reg : Registers, row : Rows, last : BOOLEAN]

Types ==
  /\ calls \in 0 .. MaxCalls /\ call \in [bank : Banks, wait : BOOLEAN]
  /\ fcp \in Registers /\ row \in [Banks -> Rows]
  /\ queue \in [Banks -> Seq(Commands)]
  /\ \A b \in Banks : Len(queue[b]) <= 2
  /\ page \in [Banks -> [Sectors -> Values \cup {NotLoaded}]]
  /\ open \in [Banks -> Rows \cup {-1}]
  /\ nand \in [Banks -> [Rows -> [Sectors -> Values]]]
  /\ dram \in [DramSectors -> Values]
  /\ pending \in [Banks -> Seq(Operations)]

IInv == Types /\ Work
-----------------------------------------------------------------------------
(* Sizes and sequences. *)

LEMMA Division ==
  ASSUME NEW N \in Nat \ {0}, NEW a \in Nat
  PROVE  a \div N \in Nat /\ N * (a \div N) <= a /\ a < N * (a \div N) + N
OBVIOUS

LEMMA Multiple == ASSUME NEW N \in Nat \ {0}, NEW q \in Nat PROVE (q * N) \div N = q
<1> DEFINE a == q * N
           k == a \div N
<1>1. a \in Nat /\ a = N * q
  OBVIOUS
<1>2. k \in Nat /\ N * k <= a /\ a < N * k + N
  <2> HIDE DEF a
  <2>1. QED BY <1>1, Division
<1> HIDE DEF k
<1>3. N * k <= N * q /\ N * q < N * (k + 1)
  BY <1>1, <1>2
<1>4. k <= q
  <2>1. k >= q + 1 => N * k >= N * (q + 1)
    BY <1>2
  <2>2. N * (q + 1) = N * q + N /\ N * q \in Nat /\ N * k \in Nat
    BY <1>2
  <2>3. QED BY <1>2, <1>3, <2>1, <2>2
<1>5. q <= k
  <2>1. q >= k + 1 => N * q >= N * (k + 1)
    BY <1>2
  <2>2. N * (k + 1) \in Nat /\ N * q \in Nat
    BY <1>2
  <2>3. QED BY <1>2, <1>3, <2>1, <2>2
<1>6. QED
  BY <1>2, <1>4, <1>5 DEF k

\* A copy buffer lies below the buffers of the FTL.
LEMMA Layout ==
  /\ {NumBanks, NumRows, RowsPerBlk, NumPlanes, SPP} \subseteq Nat \ {0} /\ MaxCalls \in Nat
  /\ CopyArea \in Nat /\ InBuf = CopyArea /\ OutBuf = CopyArea + SPP
  /\ \A b \in Banks : CopyBuf(b) \in Nat /\ CopyBuf(b) + SPP <= CopyArea
<1>1. {NumBanks, NumRows, RowsPerBlk, NumPlanes, SPP} \subseteq Nat \ {0} /\ MaxCalls \in Nat
  BY SizesAssumption
<1>2. CopyArea \in Nat
  BY <1>1 DEF CopyArea
<1>3. ASSUME NEW b \in Banks PROVE CopyBuf(b) \in Nat /\ CopyBuf(b) + SPP <= CopyArea
  <2>1. b \in Nat /\ b + 1 <= NumBanks
    BY <1>1 DEF Banks
  <2>2. (b + 1) * SPP <= NumBanks * SPP /\ (b + 1) * SPP = b * SPP + SPP /\ b * SPP \in Nat
    BY <1>1, <2>1
  <2>3. QED BY <1>1, <2>1, <2>2 DEF CopyBuf, CopyArea
<1>4. QED
  BY <1>1, <1>2, <1>3 DEF InBuf, OutBuf

\* Two banks have different copy buffers.
LEMMA CopyBufsApart ==
  ASSUME NEW b \in Banks, NEW d \in Banks, b # d, NEW s \in Sectors, NEW t \in Sectors
  PROVE  CopyBuf(b) + s # CopyBuf(d) + t
<1>1. b \in Nat /\ d \in Nat /\ SPP \in Nat \ {0} /\ s \in 0 .. SPP - 1 /\ t \in 0 .. SPP - 1
  BY Layout DEF Banks, Sectors
<1>2. b * SPP \in Nat /\ d * SPP \in Nat
  BY <1>1
<1>3. CASE b < d
  <2>1. (b + 1) * SPP <= d * SPP /\ (b + 1) * SPP = b * SPP + SPP
    BY <1>1, <1>3
  <2>2. QED BY <1>1, <1>2, <2>1 DEF CopyBuf
<1>4. CASE d < b
  <2>1. (d + 1) * SPP <= b * SPP /\ (d + 1) * SPP = d * SPP + SPP
    BY <1>1, <1>4
  <2>2. QED BY <1>1, <1>2, <2>1 DEF CopyBuf
<1>5. QED
  BY <1>1, <1>3, <1>4

LEMMA Appended ==
  ASSUME NEW S, NEW q \in Seq(S), NEW e \in S
  PROVE  /\ Append(q, e) \in Seq(S) /\ Append(q, e) # <<>>
         /\ Len(Append(q, e)) = Len(q) + 1 /\ Append(q, e)[Len(q) + 1] = e
         /\ \A i \in 1 .. Len(q) : Append(q, e)[i] = q[i]
OBVIOUS

LEMMA Appended1 == ASSUME NEW S, NEW q \in Seq(S), NEW e PROVE Append(q, e)[Len(q) + 1] = e
OBVIOUS

LEMMA AppendedAny ==
  ASSUME NEW S, NEW q \in Seq(S), NEW e
  PROVE  Len(Append(q, e)) = Len(q) + 1 /\ \A i \in 1 .. Len(q) : Append(q, e)[i] = q[i]
OBVIOUS

LEMMA Tailed ==
  ASSUME NEW S, NEW q \in Seq(S), q # <<>>
  PROVE  /\ Tail(q) \in Seq(S) /\ Len(Tail(q)) = Len(q) - 1 /\ Len(q) \in Nat \ {0}
         /\ Head(q) = q[1] /\ q[1] \in S
         /\ \A i \in 1 .. Len(q) - 1 : Tail(q)[i] = q[i + 1]
OBVIOUS

LEMMA NotEmpty == ASSUME NEW S, NEW q \in Seq(S) PROVE Len(q) \in Nat /\ (q = <<>> <=> Len(q) = 0)
OBVIOUS

-----------------------------------------------------------------------------
(* Operations and what the routines write for them. *)

LEMMA RangeShape ==
  ASSUME NEW r \in Ranges PROVE r.off \in 0 .. SPP - 1 /\ r.n \in 1 .. SPP /\ r.off + r.n <= SPP
BY DEF Ranges, Sectors

Reads == {[kind |-> "read", row |-> p, off |-> r.off, n |-> r.n, buf |-> OutBuf]
            : p \in Rows, r \in Ranges}
ProgramOps == {[kind |-> "program", row |-> p, off |-> r.off, n |-> r.n, buf |-> a]
               : p \in Rows, r \in Ranges, a \in {InBuf, OutBuf}}
Copies == {[kind |-> "copy", row |-> pp[1], src |-> pp[2]] : pp \in Rows \X Rows}
ModCopies == {[kind |-> "modcopy", row |-> pp[1], src |-> pp[2], off |-> r.off, n |-> r.n, buf |-> InBuf]
                : pp \in {q \in Rows \X Rows : q[1] # q[2]}, r \in Ranges}
Erases == {[kind |-> "erase", blk |-> k] : k \in 0 .. (NumRows - 1) \div RowsPerBlk}

LEMMA OpShape ==
  ASSUME NEW op \in Operations
  PROVE  /\ op.kind \in {"read", "program", "copy", "modcopy", "erase"}
         /\ op.kind # "erase" => op.row \in Rows
         /\ op.kind \in {"read", "program", "modcopy"} =>
              op.off \in 0 .. SPP - 1 /\ op.n \in 1 .. SPP /\ op.off + op.n <= SPP
         /\ op.kind = "read" => op.buf = OutBuf
         /\ op.kind = "program" => op.buf \in {InBuf, OutBuf}
         /\ op.kind = "modcopy" => op.buf = InBuf /\ op.src # op.row
         /\ op.kind \in {"copy", "modcopy"} => op.src \in Rows
         /\ op.kind = "erase" => op.blk \in 0 .. (NumRows - 1) \div RowsPerBlk
<1>1. op \in Reads \/ op \in ProgramOps \/ op \in Copies \/ op \in ModCopies \/ op \in Erases
  BY DEF Operations, Reads, ProgramOps, Copies, ModCopies, Erases
<1>2. CASE op \in Reads
  BY <1>2, RangeShape DEF Reads
<1>3. CASE op \in ProgramOps
  BY <1>3, RangeShape DEF ProgramOps
<1>4. CASE op \in Copies
  BY <1>4 DEF Copies
<1>5. CASE op \in ModCopies
  BY <1>5, RangeShape DEF ModCopies
<1>6. CASE op \in Erases
  BY <1>6 DEF Erases
<1>7. QED
  BY <1>1, <1>2, <1>3, <1>4, <1>5, <1>6

LEMMA StepsOf ==
  ASSUME NEW b, NEW op
  PROVE  /\ op.kind = "read" => Steps(b, op) = ReadOut(op)
         /\ op.kind = "program" => Steps(b, op) = InProg(op)
         /\ op.kind = "copy" => Steps(b, op) = Copyback(b, op)
         /\ op.kind = "modcopy" => Steps(b, op) = ModifiedCopyback(b, op)
         /\ op.kind = "erase" => Steps(b, op) = BlockErase(op)
<1>1. op.kind = "read" => Steps(b, op) = ReadOut(op)
  BY ZenonT(60) DEF Steps
<1>2. op.kind = "program" => Steps(b, op) = InProg(op)
  BY ZenonT(60) DEF Steps
<1>3. op.kind = "copy" => Steps(b, op) = Copyback(b, op)
  BY ZenonT(60) DEF Steps
<1>4. op.kind = "modcopy" => Steps(b, op) = ModifiedCopyback(b, op)
  BY ZenonT(60) DEF Steps
<1>5. op.kind = "erase" => Steps(b, op) = BlockErase(op)
  BY ZenonT(60) DEF Steps
<1>6. QED
  BY <1>1, <1>2, <1>3, <1>4, <1>5

LEMMA StepsFacts ==
  ASSUME NEW op \in Operations
  PROVE  NumSteps(op) \in 1 .. 4
BY DEF NumSteps

LEMMA SomeParts ==
  /\ \A u : <<u>> # <<>>
  /\ \A u, v : <<u, v>> # <<>>
  /\ \A u, v, w : <<u, v, w>> # <<>>
  /\ \A u, v, w, x : <<u, v, w, x>> # <<>>
OBVIOUS

LEMMA StepsSome ==
  ASSUME NEW b, NEW op, op.kind \in {"read", "program", "copy", "modcopy", "erase"}
  PROVE  Steps(b, op) # <<>>
<1>1. CASE op.kind = "read"
  BY <1>1, StepsOf, SomeParts DEF ReadOut
<1>2. CASE op.kind = "program"
  BY <1>2, StepsOf, SomeParts DEF InProg
<1>3. CASE op.kind = "copy"
  <2>1. CASE Internal(op)
    BY <1>3, <2>1, StepsOf, SomeParts DEF Copyback
  <2>2. CASE ~Internal(op)
    <3> DEFINE u == [cmd |-> "READ_OUT", dma |-> CopyBuf(b), cnt |-> SPP, row |-> op.src, col |-> 0]
               v == [cmd |-> "ROW_IN_PROG", row |-> op.row]
    <3>1. Copyback(b, op) = <<u, v>>
      BY <2>2 DEF Copyback
    <3> HIDE DEF u, v
    <3>2. QED BY <1>3, <3>1, StepsOf, SomeParts
  <2>3. QED BY <2>1, <2>2
<1>4. CASE op.kind = "modcopy"
  BY <1>4, StepsOf, SomeParts DEF ModifiedCopyback
<1>5. CASE op.kind = "erase"
  BY <1>5, StepsOf, SomeParts DEF BlockErase
<1>6. QED
  BY <1>1, <1>2, <1>3, <1>4, <1>5

\* What is left to do is not nothing.
LEMMA GoesOnSome ==
  ASSUME NEW b \in Banks, NEW op \in Operations, NEW k \in 1 .. 4, GoesOn(b, op, k)
  PROVE  todo # <<>>
<1>1. op.kind \in {"read", "program", "copy", "modcopy", "erase"}
  BY OpShape
<1>2. CASE k = 1
  BY <1>1, <1>2, StepsSome DEF GoesOn
<1>3. CASE k # 1
  <2>1. (op.kind = "copy" /\ k = 2) \/ (op.kind = "modcopy" /\ k \in {2, 3, 4})
    BY <1>1, <1>3 DEF GoesOn, NumSteps
  <2>2. QED BY <2>1, SomeParts DEF GoesOn
<1>4. QED
  BY <1>2, <1>3

-----------------------------------------------------------------------------
(* The initial state, and a call. *)

LEMMA InitInv == Init => IInv
<1> SUFFICES ASSUME Init PROVE IInv
  OBVIOUS
<1>1. Types
  <2>1. calls \in 0 .. MaxCalls /\ call \in [bank : Banks, wait : BOOLEAN]
    BY Layout DEF Init, Banks
  <2>2. fcp \in Registers /\ row \in [Banks -> Rows]
    <3>1. 0 \in Rows
      BY Layout DEF Rows
    <3>2. fcp = [cmd |-> "WAIT", dma |-> 0, cnt |-> 0, col |-> 0, dst |-> 0] /\ row = [b \in Banks |-> 0]
      BY DEF Init
    <3>3. fcp \in [cmd : Names, dma : Int, cnt : 0 .. SPP, col : 0 .. SPP, dst : Rows]
      <4>1. 0 \in 0 .. SPP /\ 0 \in Int /\ "WAIT" \in Names
        BY Layout DEF Names
      <4>2. QED BY <3>1, <3>2, <4>1
    <3>4. fcp.col + fcp.cnt <= SPP
      BY <3>2, Layout
    <3>5. QED BY <3>1, <3>2, <3>3, <3>4 DEF Registers
  <2>3. queue \in [Banks -> Seq(Commands)] /\ \A b \in Banks : Len(queue[b]) <= 2
    BY DEF Init
  <2>4. page \in [Banks -> [Sectors -> Values \cup {NotLoaded}]] /\ open \in [Banks -> Rows \cup {-1}]
    BY DEF Init
  <2>5. nand \in [Banks -> [Rows -> [Sectors -> Values]]]
    BY DEF Init, Cells, Values
  <2>6. dram \in [DramSectors -> Values]
    BY DEF Init, DataOf, Values, DramSectors
  <2>7. pending \in [Banks -> Seq(Operations)]
    BY DEF Init
  <2>8. QED BY <2>1, <2>2, <2>3, <2>4, <2>5, <2>6, <2>7 DEF Types
<1>2. Work
  <2> SUFFICES ASSUME NEW b \in Banks PROVE Queues(b, 1) /\ Left(b, 1)
    BY DEF Work
  <2>1. Len(queue[b]) = 0 /\ queue[b] = <<>> /\ Len(pending[b]) = 0 /\ todo = <<>> /\ open[b] = -1
    BY DEF Init
  <2>2. Queues(b, 1)
    BY <2>1 DEF Queues, IssuedTo
  <2>3. Left(b, 1)
    BY <2>1 DEF Left, LeftBy
  <2>4. QED BY <2>2, <2>3
<1>3. QED
  BY <1>1, <1>2 DEF IInv
LEMMA AfterIs ==
  ASSUME NEW b \in Banks, NEW i \in Nat, NEW k \in Nat
  PROVE  /\ k = NumSteps(pending[b][i]) => After(b, i, k)[1] = i + 1 /\ After(b, i, k)[2] = 1
         /\ k # NumSteps(pending[b][i]) => After(b, i, k)[1] = i /\ After(b, i, k)[2] = k + 1
BY DEF After

\* A step that leaves the queue of a bank as it is need only keep what is said of places.
LEMMA QueuesKept ==
  ASSUME NEW b \in Banks, NEW k \in 1 .. 4, Queues(b, k), queue'[b] = queue[b],
         \A i, m : IssuedTo(b, i, m) => IssuedTo(b, i, m)',
         \A j, i, m : Queued(b, j, i, m) => Queued(b, j, i, m)',
         \A m : \A i \in 1 .. Len(pending[b]) : After(b, i, m)' = After(b, i, m)
  PROVE  Queues(b, k)'
<1> DEFINE p == After(b, 1, k)
           q == After(b, p[1], p[2])
<1>1. queue[b] = <<>> => IssuedTo(b, 1, k)'
  BY DEF Queues
<1>2. queue[b] # <<>> => Queued(b, 1, 1, k)' /\ p' = p
  BY DEF Queues, Queued
<1>3. ~(queue[b] = <<>> /\ Len(queue[b]) \in {1, 2})
  OBVIOUS
<1>4. Len(queue[b]) = 1 => IssuedTo(b, p[1], p[2])' /\ p' = p
  <2> HIDE DEF p
  <2>1. QED BY <1>2, <1>3 DEF Queues, p
<1>5. Len(queue[b]) = 2 => Queued(b, 2, p[1], p[2])' /\ p' = p
  <2> HIDE DEF p
  <2>1. QED BY <1>2, <1>3 DEF Queues, p
<1>6. Len(queue[b]) = 2 => IssuedTo(b, q[1], q[2])' /\ q' = q
  <2>1. Len(queue[b]) = 2 => IssuedTo(b, q[1], q[2]) /\ p[1] \in 1 .. Len(pending[b])
    BY DEF Queues, Queued
  <2>2. Len(queue[b]) = 2 => After(b, p[1], p[2])' = After(b, p[1], p[2]) /\ p' = p
    <3> HIDE DEF p
    <3>1. QED BY <1>5, <2>1
  <2>3. Len(queue[b]) = 2 => q' = q
    <3> HIDE DEF p
    <3>1. QED BY <2>2 DEF q
  <2> HIDE DEF p, q
  <2>4. QED BY <2>1, <2>3
<1>7. QED
  BY <1>1, <1>2, <1>4, <1>5, <1>6 DEF Queues
LEMMA BeginInv ==
  ASSUME IInv, NEW d \in Banks, NEW op \in Operations, NEW wait \in BOOLEAN, Begin(d, op, wait)
  PROVE  IInv'
<1>1. Types /\ Work
  BY DEF IInv
<1>2. /\ todo = <<>> /\ todo' = Steps(d, op) /\ call'.bank = d
      /\ UNCHANGED <<fcp, row, queue, page, open, nand, dram>>
      /\ pending' = [pending EXCEPT ![d] = Append(pending[d], op)]
  BY DEF Begin, chip
<1>3. \A b \in Banks : pending[b] \in Seq(Operations) /\ queue[b] \in Seq(Commands)
  BY <1>1 DEF Types
<1>4. Types'
  <2>1. calls' \in 0 .. MaxCalls /\ call' \in [bank : Banks, wait : BOOLEAN]
    <3>1. calls \in 0 .. MaxCalls /\ calls < MaxCalls /\ calls' = calls + 1
      BY <1>1 DEF Begin, Types
    <3>2. call' = [bank |-> d, wait |-> wait]
      BY DEF Begin
    <3>3. call' \in [bank : Banks, wait : BOOLEAN]
      BY <3>2, Zenon
    <3>4. QED BY <3>1, <3>3, Layout
  <2>2. pending' \in [Banks -> Seq(Operations)]
    BY <1>1, <1>2, <1>3, Appended DEF Types
  <2>3. QED BY <1>1, <1>2, <2>1, <2>2 DEF Types
<1>5. GoesOn(d, op, 1)' /\ todo' # <<>>
  <2>1. GoesOn(d, op, 1)'
    BY <1>2, StepsFacts DEF GoesOn
  <2>2. Steps(d, op) # <<>>
    <3>1. op.kind \in {"read", "program", "copy", "modcopy", "erase"}
      BY OpShape
    <3>2. QED BY <3>1, StepsSome
  <2>3. QED BY <1>2, <2>1, <2>2
<1>6. ASSUME NEW b \in Banks
      PROVE  /\ \A i \in 1 .. Len(pending[b]) : pending'[b][i] = pending[b][i]
             /\ Len(pending'[b]) = IF b = d THEN Len(pending[b]) + 1 ELSE Len(pending[b])
             /\ b = d => pending'[b][Len(pending[b]) + 1] = op
  BY <1>1, <1>2, <1>3, Appended DEF Types
<1>7. ASSUME NEW b \in Banks, NEW i, NEW m, IssuedTo(b, i, m) PROVE IssuedTo(b, i, m)'
  <2>1. i = Len(pending[b]) + 1 /\ m = 1
    BY <1>2, <1>7 DEF IssuedTo
  <2>2. CASE b = d
    BY <1>2, <1>5, <1>6, <2>1, <2>2 DEF IssuedTo
  <2>3. CASE b # d
    BY <1>2, <1>6, <2>1, <2>3 DEF IssuedTo
  <2>4. QED BY <2>2, <2>3
<1>8. ASSUME NEW b \in Banks, NEW j, NEW i, NEW m, Queued(b, j, i, m) PROVE Queued(b, j, i, m)'
  <2>1. i \in 1 .. Len(pending[b]) /\ Serves(queue[b][j], b, pending[b][i], m)
    BY <1>8 DEF Queued
  <2>2. i \in 1 .. Len(pending'[b]) /\ Serves(queue'[b][j], b, pending'[b][i], m)
    BY <1>2, <1>3, <1>6, <2>1
  <2>3. QED BY <2>2 DEF Queued
<1>9. ASSUME NEW b \in Banks, NEW m, NEW i \in 1 .. Len(pending[b])
      PROVE  After(b, i, m)' = After(b, i, m)
  BY <1>6 DEF After
<1>10. ASSUME NEW b \in Banks, NEW k \in 1 .. 4, Queues(b, k), Left(b, k)
       PROVE  Queues(b, k)' /\ Left(b, k)'
  <2>1. Queues(b, k)'
    BY <1>2, <1>7, <1>8, <1>9, <1>10, QueuesKept
  <2>2. CASE pending[b] = <<>>
    <3>1. queue[b] = <<>>
      BY <1>10, <2>2 DEF Queues, Queued
    <3>2. k = 1
      BY <1>2, <1>10, <3>1 DEF Queues, IssuedTo
    <3>3. QED BY <1>2, <1>10, <2>1, <3>2 DEF Left, LeftBy
  <2>3. CASE pending[b] # <<>>
    <3>1. pending'[b][1] = pending[b][1]
      BY <1>3, <1>6, <2>3, NotEmpty
    <3>2. QED BY <1>2, <1>10, <2>1, <3>1 DEF Left, LeftBy
  <2>4. QED BY <2>2, <2>3
<1>11. Work'
  BY <1>1, <1>10 DEF Work
<1>12. QED
  BY <1>4, <1>11 DEF IInv
-----------------------------------------------------------------------------
(* FCP_ISSUE: a command takes the registers as they are. *)

LEMMA HeadTail ==
  /\ \A u : Head(<<u>>) = u /\ Tail(<<u>>) = <<>>
  /\ \A u, v : Head(<<u, v>>) = u /\ Tail(<<u, v>>) = <<v>>
  /\ \A u, v, w : Head(<<u, v, w>>) = u /\ Tail(<<u, v, w>>) = <<v, w>>
  /\ \A u, v, w, x : Head(<<u, v, w, x>>) = u /\ Tail(<<u, v, w, x>>) = <<v, w, x>>
OBVIOUS

LEMMA RegistersShape ==
  ASSUME NEW r \in Registers
  PROVE  /\ r = [f \in DOMAIN r |-> r[f]] /\ DOMAIN r = {"cmd", "dma", "cnt", "col", "dst"}
         /\ r.cmd \in Names /\ r.dma \in Int /\ r.cnt \in 0 .. SPP /\ r.col \in 0 .. SPP
         /\ r.dst \in Rows
         /\ r.col + r.cnt <= SPP
<1>1. r \in [cmd : Names, dma : Int, cnt : 0 .. SPP, col : 0 .. SPP, dst : Rows] /\ r.col + r.cnt <= SPP
  BY DEF Registers
<1>2. QED
  BY <1>1

LEMMA RegistersMade ==
  ASSUME NEW r, r = [f \in DOMAIN r |-> r[f]], DOMAIN r = {"cmd", "dma", "cnt", "col", "dst"},
         r.cmd \in Names, r.dma \in Int, r.cnt \in Nat, r.col \in Nat, r.dst \in Rows,
         r.col + r.cnt <= SPP
  PROVE  r \in Registers
<1>1. r.cnt \in 0 .. SPP /\ r.col \in 0 .. SPP /\ SPP \in Nat
  BY Layout
<1>2. r \in [cmd : Names, dma : Int, cnt : 0 .. SPP, col : 0 .. SPP, dst : Rows]
  BY <1>1
<1>3. QED
  BY <1>2 DEF Registers

\* What a step of the routine leaves in the registers and in the queue.
LEMMA Written ==
  ASSUME Types, Issue, NEW u, u = Head(todo)
  PROVE  LET b == call.bank
             c == queue'[b][Len(queue[b]) + 1] IN
         /\ todo' = Tail(todo)
         /\ fcp' = [f \in DOMAIN fcp' |-> fcp'[f]] /\ DOMAIN fcp' = {"cmd", "dma", "cnt", "col", "dst"}
         /\ \A f \in DOMAIN fcp' : fcp'[f] = IF f \in DOMAIN u THEN u[f] ELSE fcp[f]
         /\ row' = IF "row" \in DOMAIN u THEN [row EXCEPT ![b] = u.row] ELSE row
         /\ queue' = [queue EXCEPT ![b] = Append(queue[b], [reg |-> fcp', row |-> row'[b], last |-> Tail(todo) = <<>>])]
         /\ c.reg = fcp' /\ c.row = row'[b] /\ c.last = (Tail(todo) = <<>>)
<1> DEFINE b == call.bank
           e == [reg |-> fcp', row |-> row'[b], last |-> Tail(todo) = <<>>]
           c == queue'[b][Len(queue[b]) + 1]
<1>1. b \in Banks /\ fcp \in Registers /\ queue \in [Banks -> Seq(Commands)]
  BY DEF Types
<1>2. fcp' = [f \in DOMAIN fcp |-> IF f \in DOMAIN u THEN u[f] ELSE fcp[f]]
  BY DEF Issue
<1>3. DOMAIN fcp = {"cmd", "dma", "cnt", "col", "dst"}
  BY <1>1, RegistersShape
<1>4. fcp' = [f \in DOMAIN fcp' |-> fcp'[f]] /\ DOMAIN fcp' = DOMAIN fcp
  BY <1>2
<1>5. \A f \in DOMAIN fcp' : fcp'[f] = IF f \in DOMAIN u THEN u[f] ELSE fcp[f]
  BY <1>2
<1>6. row' = IF "row" \in DOMAIN u THEN [row EXCEPT ![b] = u.row] ELSE row
  BY DEF Issue
<1>7. queue' = [queue EXCEPT ![b] = Append(queue[b], e)]
  BY DEF Issue
<1>8. c = e
  <2> HIDE DEF e
  <2>1. queue'[b] = Append(queue[b], e)
    BY <1>1, <1>7
  <2>2. QED BY <1>1, <2>1, Appended1
<1>9. e.reg = fcp' /\ e.row = row'[b] /\ e.last = (Tail(todo) = <<>>)
  BY Zenon
<1>10. todo' = Tail(todo)
  BY DEF Issue
<1> HIDE DEF e
<1>11. QED
  BY <1>3, <1>4, <1>5, <1>6, <1>7, <1>8, <1>9, <1>10 DEF e
\* The common part of the steps: the rest is about one record each.
LEMMA IssueRest ==
  ASSUME Types, Issue, NEW b \in Banks, b = call.bank,
         NEW op, NEW k, Tail(todo) = <<>> <=> k = NumSteps(op)
  PROVE  todo' = Tail(todo) /\ (queue'[b][Len(queue[b]) + 1].last <=> k = NumSteps(op))
<1> DEFINE c == queue'[b][Len(queue[b]) + 1]
<1>1. todo' = Tail(todo) /\ c.last = (Tail(todo) = <<>>)
  BY Written
<1> HIDE DEF c
<1>2. c.last <=> k = NumSteps(op)
  BY <1>1, Zenon
<1>3. QED
  BY <1>1, <1>2 DEF c

LEMMA IssueFacts ==
  ASSUME Types, Issue, NEW b \in Banks, b = call.bank, NEW u, u = Head(todo)
  PROVE  LET c == queue'[b][Len(queue[b]) + 1] IN
         /\ c.reg = fcp' /\ c.row = row'[b]
         /\ "row" \in DOMAIN u => row'[b] = u.row
         /\ "row" \notin DOMAIN u => row'[b] = row[b]
         /\ fcp'.cmd = IF "cmd" \in DOMAIN u THEN u.cmd ELSE fcp.cmd
         /\ fcp'.dma = IF "dma" \in DOMAIN u THEN u.dma ELSE fcp.dma
         /\ fcp'.cnt = IF "cnt" \in DOMAIN u THEN u.cnt ELSE fcp.cnt
         /\ fcp'.col = IF "col" \in DOMAIN u THEN u.col ELSE fcp.col
         /\ fcp'.dst = IF "dst" \in DOMAIN u THEN u.dst ELSE fcp.dst
<1> DEFINE c == queue'[b][Len(queue[b]) + 1]
<1>1. row \in [Banks -> Rows]
  BY DEF Types
<1>2. c.reg = fcp' /\ c.row = row'[b]
  BY Written
<1>3. row' = IF "row" \in DOMAIN u THEN [row EXCEPT ![b] = u.row] ELSE row
  BY Written
<1>4. \A f \in {"cmd", "dma", "cnt", "col", "dst"} : fcp'[f] = IF f \in DOMAIN u THEN u[f] ELSE fcp[f]
  BY Written
<1> HIDE DEF c
<1>5. "row" \in DOMAIN u => row'[b] = u.row
  BY <1>1, <1>3
<1>6. "row" \notin DOMAIN u => row'[b] = row[b]
  BY <1>3
<1>7. QED
  BY <1>2, <1>4, <1>5, <1>6 DEF c

\* The registers of a step that leaves a transfer within the page.
LEMMA IssueTypes ==
  ASSUME Types, Issue, fcp'.cmd \in Names, fcp'.dma \in Int, fcp'.dst \in Rows,
         fcp'.cnt \in Nat, fcp'.col \in Nat, fcp'.col + fcp'.cnt <= SPP,
         "row" \in DOMAIN Head(todo) => Head(todo).row \in Rows
  PROVE  fcp' \in Registers /\ row' \in [Banks -> Rows]
<1>1. fcp' = [f \in DOMAIN fcp' |-> fcp'[f]] /\ DOMAIN fcp' = {"cmd", "dma", "cnt", "col", "dst"}
  BY Written
<1>2. fcp' \in Registers
  BY <1>1, RegistersMade
<1>3. row' = IF "row" \in DOMAIN Head(todo) THEN [row EXCEPT ![call.bank] = Head(todo).row] ELSE row
  BY Written
<1>4. row \in [Banks -> Rows]
  BY DEF Types
<1>5. QED
  BY <1>2, <1>3, <1>4

IssueDone(b, op, k) ==
  /\ Serves(queue'[b][Len(queue[b]) + 1], b, op, k)
  /\ fcp' \in Registers /\ row' \in [Banks -> Rows]
  /\ todo' = <<>> <=> k = NumSteps(op)
  /\ k # NumSteps(op) => GoesOn(b, op, k + 1)'

LEMMA EraseRow ==
  ASSUME NEW op \in Operations, op.kind = "erase"
  PROVE  op.blk * RowsPerBlk \in Rows /\ (op.blk * RowsPerBlk) \div RowsPerBlk = op.blk
<1> DEFINE q == (NumRows - 1) \div RowsPerBlk
<1>1. /\ op.blk \in Nat /\ op.blk <= q /\ q \in Nat /\ RowsPerBlk * q <= NumRows - 1
      /\ RowsPerBlk \in Nat \ {0} /\ NumRows \in Nat \ {0}
  <2>1. op.blk \in 0 .. q /\ RowsPerBlk \in Nat \ {0} /\ NumRows \in Nat \ {0}
    BY OpShape, Layout
  <2>2. NumRows - 1 \in Nat
    BY <2>1
  <2>3. QED BY <2>1, <2>2, Division
<1> HIDE DEF q
<1>2. RowsPerBlk * op.blk <= RowsPerBlk * q /\ RowsPerBlk * op.blk \in Nat /\ RowsPerBlk * q \in Nat
  BY <1>1
<1>3. op.blk * RowsPerBlk = RowsPerBlk * op.blk
  BY <1>1
<1>4. QED
  BY <1>1, <1>2, <1>3, Multiple DEF Rows

LEMMA IssueRead ==
  ASSUME Types, Issue, NEW b \in Banks, b = call.bank,
         NEW op \in Operations, NEW k \in 1 .. 4, GoesOn(b, op, k),
         op.kind = "read"
  PROVE  IssueDone(b, op, k)
<1> DEFINE u == [cmd |-> "READ_OUT", dma |-> op.buf, cnt |-> op.n, col |-> op.off, row |-> op.row]
           c == queue'[b][Len(queue[b]) + 1]
<1>1. k = 1 /\ NumSteps(op) = 1
  BY DEF GoesOn, NumSteps
<1>2. todo = <<u>>
  BY <1>1, StepsOf DEF GoesOn, ReadOut
<1>3. u = Head(todo) /\ Tail(todo) = <<>>
  <2> HIDE DEF u
  <2>1. QED BY <1>2, HeadTail
<1>4. /\ todo' = <<>> /\ (todo' = <<>> <=> k = NumSteps(op)) /\ (c.last <=> k = NumSteps(op))
      /\ c.reg = fcp' /\ c.row = row'[b] /\ row'[b] = op.row
      /\ fcp'.cmd = "READ_OUT" /\ fcp'.dma = op.buf /\ fcp'.cnt = op.n
      /\ fcp'.col = op.off /\ fcp'.dst = fcp.dst
  <2>1. DOMAIN u = {"cmd", "dma", "cnt", "col", "row"}
    OBVIOUS
  <2>2. u.cmd = "READ_OUT" /\ u.dma = op.buf /\ u.cnt = op.n /\ u.col = op.off /\ u.row = op.row
    OBVIOUS
  <2>3. Tail(todo) = <<>> <=> k = NumSteps(op)
    BY <1>1, <1>3
  <2> HIDE DEF u, c
  <2>4. todo' = Tail(todo) /\ (c.last <=> k = NumSteps(op))
    BY <2>3, IssueRest DEF c
  <2>5. QED BY <1>1, <1>2, <1>3, <2>1, <2>2, <2>4, IssueFacts DEF c
<1>5. op.buf \in Int /\ op.n \in Nat /\ op.off \in Nat /\ op.off + op.n <= SPP /\ op.row \in Rows
  BY OpShape, Layout
<1>6. fcp' \in Registers /\ row' \in [Banks -> Rows]
  <2>1. /\ fcp.dst \in Rows /\ fcp.dma \in Int
        /\ fcp.cnt \in 0 .. SPP /\ fcp.col \in 0 .. SPP /\ fcp.col + fcp.cnt <= SPP
    BY RegistersShape DEF Types
  <2>2. u.row = op.row
    OBVIOUS
  <2> HIDE DEF u, c
  <2>3. QED BY <1>2, <1>3, <1>4, <1>5, <2>1, <2>2, IssueTypes, Layout DEF Names
<1>7. Serves(c, b, op, k)
  <2> HIDE DEF c
  <2>1. QED BY <1>1, <1>2, <1>4 DEF Serves, Is
<1>8. QED
  BY <1>1, <1>4, <1>6, <1>7 DEF IssueDone

LEMMA IssueProgram ==
  ASSUME Types, Issue, NEW b \in Banks, b = call.bank,
         NEW op \in Operations, NEW k \in 1 .. 4, GoesOn(b, op, k),
         op.kind = "program"
  PROVE  IssueDone(b, op, k)
<1> DEFINE u == [cmd |-> "ROW_IN_PROG", dma |-> op.buf, cnt |-> op.n, col |-> op.off, row |-> op.row]
           c == queue'[b][Len(queue[b]) + 1]
<1>1. k = 1 /\ NumSteps(op) = 1
  BY DEF GoesOn, NumSteps
<1>2. todo = <<u>>
  BY <1>1, StepsOf DEF GoesOn, InProg
<1>3. u = Head(todo) /\ Tail(todo) = <<>>
  <2> HIDE DEF u
  <2>1. QED BY <1>2, HeadTail
<1>4. /\ todo' = <<>> /\ (todo' = <<>> <=> k = NumSteps(op)) /\ (c.last <=> k = NumSteps(op))
      /\ c.reg = fcp' /\ c.row = row'[b] /\ row'[b] = op.row
      /\ fcp'.cmd = "ROW_IN_PROG" /\ fcp'.dma = op.buf /\ fcp'.cnt = op.n
      /\ fcp'.col = op.off /\ fcp'.dst = fcp.dst
  <2>1. DOMAIN u = {"cmd", "dma", "cnt", "col", "row"}
    OBVIOUS
  <2>2. u.cmd = "ROW_IN_PROG" /\ u.dma = op.buf /\ u.cnt = op.n /\ u.col = op.off /\ u.row = op.row
    OBVIOUS
  <2>3. Tail(todo) = <<>> <=> k = NumSteps(op)
    BY <1>1, <1>3
  <2> HIDE DEF u, c
  <2>4. todo' = Tail(todo) /\ (c.last <=> k = NumSteps(op))
    BY <2>3, IssueRest DEF c
  <2>5. QED BY <1>1, <1>2, <1>3, <2>1, <2>2, <2>4, IssueFacts DEF c
<1>5. op.buf \in Int /\ op.n \in Nat /\ op.off \in Nat /\ op.off + op.n <= SPP /\ op.row \in Rows
  BY OpShape, Layout
<1>6. fcp' \in Registers /\ row' \in [Banks -> Rows]
  <2>1. /\ fcp.dst \in Rows /\ fcp.dma \in Int
        /\ fcp.cnt \in 0 .. SPP /\ fcp.col \in 0 .. SPP /\ fcp.col + fcp.cnt <= SPP
    BY RegistersShape DEF Types
  <2>2. u.row = op.row
    OBVIOUS
  <2> HIDE DEF u, c
  <2>3. QED BY <1>2, <1>3, <1>4, <1>5, <2>1, <2>2, IssueTypes, Layout DEF Names
<1>7. Serves(c, b, op, k)
  <2> HIDE DEF c
  <2>1. QED BY <1>1, <1>2, <1>4 DEF Serves, Is
<1>8. QED
  BY <1>1, <1>4, <1>6, <1>7 DEF IssueDone

LEMMA IssueErase ==
  ASSUME Types, Issue, NEW b \in Banks, b = call.bank,
         NEW op \in Operations, NEW k \in 1 .. 4, GoesOn(b, op, k),
         op.kind = "erase"
  PROVE  IssueDone(b, op, k)
<1> DEFINE u == [cmd |-> "ERASE", row |-> op.blk * RowsPerBlk]
           c == queue'[b][Len(queue[b]) + 1]
<1>1. k = 1 /\ NumSteps(op) = 1
  BY DEF GoesOn, NumSteps
<1>2. todo = <<u>>
  BY <1>1, StepsOf DEF GoesOn, BlockErase
<1>3. u = Head(todo) /\ Tail(todo) = <<>>
  <2> HIDE DEF u
  <2>1. QED BY <1>2, HeadTail
<1>4. /\ todo' = <<>> /\ (todo' = <<>> <=> k = NumSteps(op)) /\ (c.last <=> k = NumSteps(op))
      /\ c.reg = fcp' /\ c.row = row'[b] /\ row'[b] = op.blk * RowsPerBlk
      /\ fcp'.cmd = "ERASE" /\ fcp'.dma = fcp.dma /\ fcp'.cnt = fcp.cnt
      /\ fcp'.col = fcp.col /\ fcp'.dst = fcp.dst
  <2>1. DOMAIN u = {"cmd", "row"}
    OBVIOUS
  <2>2. u.cmd = "ERASE" /\ u.row = op.blk * RowsPerBlk
    OBVIOUS
  <2>3. Tail(todo) = <<>> <=> k = NumSteps(op)
    BY <1>1, <1>3
  <2> HIDE DEF u, c
  <2>4. todo' = Tail(todo) /\ (c.last <=> k = NumSteps(op))
    BY <2>3, IssueRest DEF c
  <2>5. QED BY <1>1, <1>2, <1>3, <2>1, <2>2, <2>4, IssueFacts DEF c
<1>5. op.blk * RowsPerBlk \in Rows
  BY OpShape, Layout, EraseRow
<1>6. fcp' \in Registers /\ row' \in [Banks -> Rows]
  <2>1. /\ fcp.dst \in Rows /\ fcp.dma \in Int
        /\ fcp.cnt \in 0 .. SPP /\ fcp.col \in 0 .. SPP /\ fcp.col + fcp.cnt <= SPP
    BY RegistersShape DEF Types
  <2>2. u.row = op.blk * RowsPerBlk
    OBVIOUS
  <2> HIDE DEF u, c
  <2>3. QED BY <1>2, <1>3, <1>4, <1>5, <2>1, <2>2, IssueTypes, Layout DEF Names
<1>7. Serves(c, b, op, k)
  <2> HIDE DEF c
  <2>1. QED BY <1>1, <1>2, <1>4 DEF Serves, Is
<1>8. QED
  BY <1>1, <1>4, <1>6, <1>7 DEF IssueDone

LEMMA IssueCopyback ==
  ASSUME Types, Issue, NEW b \in Banks, b = call.bank,
         NEW op \in Operations, NEW k \in 1 .. 4, GoesOn(b, op, k),
         op.kind = "copy", Internal(op)
  PROVE  IssueDone(b, op, k)
<1> DEFINE u == [cmd |-> "COPYBACK", col |-> 0, row |-> op.src, dst |-> op.row]
           c == queue'[b][Len(queue[b]) + 1]
<1>1. k = 1 /\ NumSteps(op) = 1
  BY DEF GoesOn, NumSteps
<1>2. todo = <<u>>
  BY <1>1, StepsOf DEF GoesOn, Copyback
<1>3. u = Head(todo) /\ Tail(todo) = <<>>
  <2> HIDE DEF u
  <2>1. QED BY <1>2, HeadTail
<1>4. /\ todo' = <<>> /\ (todo' = <<>> <=> k = NumSteps(op)) /\ (c.last <=> k = NumSteps(op))
      /\ c.reg = fcp' /\ c.row = row'[b] /\ row'[b] = op.src
      /\ fcp'.cmd = "COPYBACK" /\ fcp'.dma = fcp.dma /\ fcp'.cnt = fcp.cnt
      /\ fcp'.col = 0 /\ fcp'.dst = op.row
  <2>1. DOMAIN u = {"cmd", "col", "row", "dst"}
    OBVIOUS
  <2>2. u.cmd = "COPYBACK" /\ u.col = 0 /\ u.row = op.src /\ u.dst = op.row
    OBVIOUS
  <2>3. Tail(todo) = <<>> <=> k = NumSteps(op)
    BY <1>1, <1>3
  <2> HIDE DEF u, c
  <2>4. todo' = Tail(todo) /\ (c.last <=> k = NumSteps(op))
    BY <2>3, IssueRest DEF c
  <2>5. QED BY <1>1, <1>2, <1>3, <2>1, <2>2, <2>4, IssueFacts DEF c
<1>5. op.src \in Rows /\ op.row \in Rows
  BY OpShape, Layout
<1>6. fcp' \in Registers /\ row' \in [Banks -> Rows]
  <2>1. /\ fcp.dst \in Rows /\ fcp.dma \in Int
        /\ fcp.cnt \in 0 .. SPP /\ fcp.col \in 0 .. SPP /\ fcp.col + fcp.cnt <= SPP
    BY RegistersShape DEF Types
  <2>2. u.row = op.src
    OBVIOUS
  <2> HIDE DEF u, c
  <2>3. QED BY <1>2, <1>3, <1>4, <1>5, <2>1, <2>2, IssueTypes, Layout DEF Names
<1>7. Serves(c, b, op, k)
  <2> HIDE DEF c
  <2>1. QED BY <1>1, <1>2, <1>4 DEF Serves, Is
<1>8. QED
  BY <1>1, <1>4, <1>6, <1>7 DEF IssueDone

LEMMA IssueCopyOut ==
  ASSUME Types, Issue, NEW b \in Banks, b = call.bank,
         NEW op \in Operations, NEW k \in 1 .. 4, GoesOn(b, op, k),
         op.kind = "copy", ~Internal(op), k = 1
  PROVE  IssueDone(b, op, k)
<1> DEFINE u == [cmd |-> "READ_OUT", dma |-> CopyBuf(b), cnt |-> SPP, row |-> op.src, col |-> 0]
           c == queue'[b][Len(queue[b]) + 1]
<1>1. k = 1 /\ NumSteps(op) = 2
  BY DEF GoesOn, NumSteps
<1>2. todo = <<u, Second(op)>>
  BY <1>1, StepsOf DEF GoesOn, Copyback, Second
<1>3. u = Head(todo) /\ Tail(todo) = <<Second(op)>> /\ Tail(todo) # <<>>
  <2> HIDE DEF u
  <2>1. QED BY <1>2, HeadTail, SomeParts
<1>4. /\ todo' = <<Second(op)>> /\ (todo' = <<>> <=> k = NumSteps(op)) /\ (c.last <=> k = NumSteps(op))
      /\ c.reg = fcp' /\ c.row = row'[b] /\ row'[b] = op.src
      /\ fcp'.cmd = "READ_OUT" /\ fcp'.dma = CopyBuf(b) /\ fcp'.cnt = SPP
      /\ fcp'.col = 0 /\ fcp'.dst = fcp.dst
  <2>1. DOMAIN u = {"cmd", "dma", "cnt", "row", "col"}
    OBVIOUS
  <2>2. u.cmd = "READ_OUT" /\ u.dma = CopyBuf(b) /\ u.cnt = SPP /\ u.row = op.src /\ u.col = 0
    OBVIOUS
  <2>3. Tail(todo) = <<>> <=> k = NumSteps(op)
    BY <1>1, <1>3
  <2> HIDE DEF u, c
  <2>4. todo' = Tail(todo) /\ (c.last <=> k = NumSteps(op))
    BY <2>3, IssueRest DEF c
  <2>5. QED BY <1>1, <1>2, <1>3, <2>1, <2>2, <2>4, IssueFacts DEF c
<1>5. op.src \in Rows /\ op.row \in Rows /\ CopyBuf(b) \in Nat /\ SPP \in Nat
  BY OpShape, Layout
<1>6. fcp' \in Registers /\ row' \in [Banks -> Rows]
  <2>1. /\ fcp.dst \in Rows /\ fcp.dma \in Int
        /\ fcp.cnt \in 0 .. SPP /\ fcp.col \in 0 .. SPP /\ fcp.col + fcp.cnt <= SPP
    BY RegistersShape DEF Types
  <2>2. u.row = op.src
    OBVIOUS
  <2> HIDE DEF u, c
  <2>3. QED BY <1>2, <1>3, <1>4, <1>5, <2>1, <2>2, IssueTypes, Layout DEF Names
<1>7. Serves(c, b, op, k)
  <2> HIDE DEF c
  <2>1. QED BY <1>1, <1>2, <1>4 DEF Serves, Is
<1>8. GoesOn(b, op, k + 1)'
  BY <1>1, <1>2, <1>4 DEF GoesOn, Second, Front, Middle, Back, NumSteps
<1>9. QED
  BY <1>1, <1>4, <1>6, <1>7, <1>8 DEF IssueDone

LEMMA IssueCopyIn ==
  ASSUME Types, Issue, NEW b \in Banks, b = call.bank,
         NEW op \in Operations, NEW k \in 1 .. 4, GoesOn(b, op, k),
         op.kind = "copy", ~Internal(op), k = 2
  PROVE  IssueDone(b, op, k)
<1> DEFINE u == [cmd |-> "ROW_IN_PROG", row |-> op.row]
           c == queue'[b][Len(queue[b]) + 1]
<1>1. k = 2 /\ NumSteps(op) = 2
  BY DEF GoesOn, NumSteps
<1>2. todo = <<u>> /\ fcp.dma = CopyBuf(b) /\ fcp.cnt = SPP /\ fcp.col = 0
  BY <1>1 DEF GoesOn, Second
<1>3. u = Head(todo) /\ Tail(todo) = <<>>
  <2> HIDE DEF u
  <2>1. QED BY <1>2, HeadTail
<1>4. /\ todo' = <<>> /\ (todo' = <<>> <=> k = NumSteps(op)) /\ (c.last <=> k = NumSteps(op))
      /\ c.reg = fcp' /\ c.row = row'[b] /\ row'[b] = op.row
      /\ fcp'.cmd = "ROW_IN_PROG" /\ fcp'.dma = fcp.dma /\ fcp'.cnt = fcp.cnt
      /\ fcp'.col = fcp.col /\ fcp'.dst = fcp.dst
  <2>1. DOMAIN u = {"cmd", "row"}
    OBVIOUS
  <2>2. u.cmd = "ROW_IN_PROG" /\ u.row = op.row
    OBVIOUS
  <2>3. Tail(todo) = <<>> <=> k = NumSteps(op)
    BY <1>1, <1>3
  <2> HIDE DEF u, c
  <2>4. todo' = Tail(todo) /\ (c.last <=> k = NumSteps(op))
    BY <2>3, IssueRest DEF c
  <2>5. QED BY <1>1, <1>2, <1>3, <2>1, <2>2, <2>4, IssueFacts DEF c
<1>5. op.src \in Rows /\ op.row \in Rows /\ CopyBuf(b) \in Nat /\ SPP \in Nat
  BY OpShape, Layout
<1>6. fcp' \in Registers /\ row' \in [Banks -> Rows]
  <2>1. /\ fcp.dst \in Rows /\ fcp.dma \in Int
        /\ fcp.cnt \in 0 .. SPP /\ fcp.col \in 0 .. SPP /\ fcp.col + fcp.cnt <= SPP
    BY RegistersShape DEF Types
  <2>2. u.row = op.row
    OBVIOUS
  <2> HIDE DEF u, c
  <2>3. QED BY <1>2, <1>3, <1>4, <1>5, <2>1, <2>2, IssueTypes, Layout DEF Names
<1>7. Serves(c, b, op, k)
  <2> HIDE DEF c
  <2>1. QED BY <1>1, <1>2, <1>4 DEF Serves, Is
<1>8. QED
  BY <1>1, <1>4, <1>6, <1>7 DEF IssueDone

LEMMA IssueModOut ==
  ASSUME Types, Issue, NEW b \in Banks, b = call.bank,
         NEW op \in Operations, NEW k \in 1 .. 4, GoesOn(b, op, k),
         op.kind = "modcopy", k = 1
  PROVE  IssueDone(b, op, k)
<1> DEFINE u == [cmd |-> "READ_OUT", dma |-> CopyBuf(b), cnt |-> SPP, row |-> op.src, col |-> 0]
           c == queue'[b][Len(queue[b]) + 1]
<1>1. k = 1 /\ NumSteps(op) = 4
  BY DEF GoesOn, NumSteps
<1>2. todo = <<u, Front(op), Middle(op), Back(b, op)>>
  BY <1>1, StepsOf DEF GoesOn, ModifiedCopyback, Front, Middle, Back
<1>3. u = Head(todo) /\ Tail(todo) = <<Front(op), Middle(op), Back(b, op)>> /\ Tail(todo) # <<>>
  <2> HIDE DEF u
  <2>1. QED BY <1>2, HeadTail, SomeParts
<1>4. /\ todo' = <<Front(op), Middle(op), Back(b, op)>> /\ (todo' = <<>> <=> k = NumSteps(op))
      /\ (c.last <=> k = NumSteps(op))
      /\ c.reg = fcp' /\ c.row = row'[b] /\ row'[b] = op.src
      /\ fcp'.cmd = "READ_OUT" /\ fcp'.dma = CopyBuf(b) /\ fcp'.cnt = SPP
      /\ fcp'.col = 0 /\ fcp'.dst = fcp.dst
  <2>1. DOMAIN u = {"cmd", "dma", "cnt", "row", "col"}
    OBVIOUS
  <2>2. u.cmd = "READ_OUT" /\ u.dma = CopyBuf(b) /\ u.cnt = SPP /\ u.row = op.src /\ u.col = 0
    OBVIOUS
  <2>3. Tail(todo) = <<>> <=> k = NumSteps(op)
    BY <1>1, <1>3
  <2> HIDE DEF u, c
  <2>4. todo' = Tail(todo) /\ (c.last <=> k = NumSteps(op))
    BY <2>3, IssueRest DEF c
  <2>5. QED BY <1>1, <1>2, <1>3, <2>1, <2>2, <2>4, IssueFacts DEF c
<1>5. op.src \in Rows /\ op.row \in Rows /\ CopyBuf(b) \in Nat /\ SPP \in Nat
      /\ op.off \in Nat /\ op.n \in Nat /\ op.off + op.n <= SPP /\ op.buf \in Nat /\ op.buf >= op.off
  BY OpShape, Layout
<1>6. fcp' \in Registers /\ row' \in [Banks -> Rows]
  <2>1. /\ fcp.dst \in Rows /\ fcp.dma \in Int
        /\ fcp.cnt \in 0 .. SPP /\ fcp.col \in 0 .. SPP /\ fcp.col + fcp.cnt <= SPP
    BY RegistersShape DEF Types
  <2>2. u.row = op.src
    OBVIOUS
  <2> HIDE DEF u, c
  <2>3. QED BY <1>2, <1>3, <1>4, <1>5, <2>1, <2>2, IssueTypes, Layout DEF Names
<1>7. Serves(c, b, op, k)
  <2> HIDE DEF c
  <2>1. QED BY <1>1, <1>2, <1>4 DEF Serves, Is
<1>8. GoesOn(b, op, k + 1)'
  BY <1>1, <1>2, <1>4 DEF GoesOn, Second, Front, Middle, Back, NumSteps
<1>9. QED
  BY <1>1, <1>4, <1>6, <1>7, <1>8 DEF IssueDone

LEMMA IssueFront ==
  ASSUME Types, Issue, NEW b \in Banks, b = call.bank,
         NEW op \in Operations, NEW k \in 1 .. 4, GoesOn(b, op, k),
         op.kind = "modcopy", k = 2
  PROVE  IssueDone(b, op, k)
<1> DEFINE u == [cmd |-> "ROW_IN", cnt |-> op.off, row |-> op.row, col |-> 0]
           c == queue'[b][Len(queue[b]) + 1]
<1>1. k = 2 /\ NumSteps(op) = 4
  BY DEF GoesOn, NumSteps
<1>2. todo = <<u, Middle(op), Back(b, op)>> /\ fcp.dma = CopyBuf(b)
  BY <1>1 DEF GoesOn, Front
<1>3. u = Head(todo) /\ Tail(todo) = <<Middle(op), Back(b, op)>> /\ Tail(todo) # <<>>
  <2> HIDE DEF u
  <2>1. QED BY <1>2, HeadTail, SomeParts
<1>4. /\ todo' = <<Middle(op), Back(b, op)>> /\ (todo' = <<>> <=> k = NumSteps(op))
      /\ (c.last <=> k = NumSteps(op))
      /\ c.reg = fcp' /\ c.row = row'[b] /\ row'[b] = op.row
      /\ fcp'.cmd = "ROW_IN" /\ fcp'.dma = fcp.dma /\ fcp'.cnt = op.off
      /\ fcp'.col = 0 /\ fcp'.dst = fcp.dst
  <2>1. DOMAIN u = {"cmd", "cnt", "row", "col"}
    OBVIOUS
  <2>2. u.cmd = "ROW_IN" /\ u.cnt = op.off /\ u.row = op.row /\ u.col = 0
    OBVIOUS
  <2>3. Tail(todo) = <<>> <=> k = NumSteps(op)
    BY <1>1, <1>3
  <2> HIDE DEF u, c
  <2>4. todo' = Tail(todo) /\ (c.last <=> k = NumSteps(op))
    BY <2>3, IssueRest DEF c
  <2>5. QED BY <1>1, <1>2, <1>3, <2>1, <2>2, <2>4, IssueFacts DEF c
<1>5. op.src \in Rows /\ op.row \in Rows /\ CopyBuf(b) \in Nat /\ SPP \in Nat
      /\ op.off \in Nat /\ op.n \in Nat /\ op.off + op.n <= SPP /\ op.buf \in Nat /\ op.buf >= op.off
  BY OpShape, Layout
<1>6. fcp' \in Registers /\ row' \in [Banks -> Rows]
  <2>1. /\ fcp.dst \in Rows /\ fcp.dma \in Int
        /\ fcp.cnt \in 0 .. SPP /\ fcp.col \in 0 .. SPP /\ fcp.col + fcp.cnt <= SPP
    BY RegistersShape DEF Types
  <2>2. u.row = op.row
    OBVIOUS
  <2> HIDE DEF u, c
  <2>3. QED BY <1>2, <1>3, <1>4, <1>5, <2>1, <2>2, IssueTypes, Layout DEF Names
<1>7. Serves(c, b, op, k)
  <2> HIDE DEF c
  <2>1. QED BY <1>1, <1>2, <1>4 DEF Serves, Is
<1>8. GoesOn(b, op, k + 1)'
  BY <1>1, <1>2, <1>4 DEF GoesOn, Second, Front, Middle, Back, NumSteps
<1>9. QED
  BY <1>1, <1>4, <1>6, <1>7, <1>8 DEF IssueDone

LEMMA IssueMiddle ==
  ASSUME Types, Issue, NEW b \in Banks, b = call.bank,
         NEW op \in Operations, NEW k \in 1 .. 4, GoesOn(b, op, k),
         op.kind = "modcopy", k = 3
  PROVE  IssueDone(b, op, k)
<1> DEFINE u == [cmd |-> "IN", dma |-> op.buf - op.off, cnt |-> op.n, col |-> op.off]
           c == queue'[b][Len(queue[b]) + 1]
<1>1. k = 3 /\ NumSteps(op) = 4
  BY DEF GoesOn, NumSteps
<1>2. todo = <<u, Back(b, op)>> /\ row[b] = op.row
  BY <1>1 DEF GoesOn, Middle
<1>3. u = Head(todo) /\ Tail(todo) = <<Back(b, op)>> /\ Tail(todo) # <<>>
  <2> HIDE DEF u
  <2>1. QED BY <1>2, HeadTail, SomeParts
<1>4. /\ todo' = <<Back(b, op)>> /\ (todo' = <<>> <=> k = NumSteps(op)) /\ (c.last <=> k = NumSteps(op))
      /\ c.reg = fcp' /\ c.row = row'[b] /\ row'[b] = row[b]
      /\ fcp'.cmd = "IN" /\ fcp'.dma = op.buf - op.off /\ fcp'.cnt = op.n
      /\ fcp'.col = op.off /\ fcp'.dst = fcp.dst
  <2>1. DOMAIN u = {"cmd", "dma", "cnt", "col"}
    OBVIOUS
  <2>2. u.cmd = "IN" /\ u.dma = op.buf - op.off /\ u.cnt = op.n /\ u.col = op.off
    OBVIOUS
  <2>3. Tail(todo) = <<>> <=> k = NumSteps(op)
    BY <1>1, <1>3
  <2> HIDE DEF u, c
  <2>4. todo' = Tail(todo) /\ (c.last <=> k = NumSteps(op))
    BY <2>3, IssueRest DEF c
  <2>5. QED BY <1>1, <1>2, <1>3, <2>1, <2>2, <2>4, IssueFacts DEF c
<1>5. op.src \in Rows /\ op.row \in Rows /\ CopyBuf(b) \in Nat /\ SPP \in Nat
      /\ op.off \in Nat /\ op.n \in Nat /\ op.off + op.n <= SPP /\ op.buf \in Nat /\ op.buf >= op.off
  BY OpShape, Layout
<1>6. fcp' \in Registers /\ row' \in [Banks -> Rows]
  <2>1. /\ fcp.dst \in Rows /\ fcp.dma \in Int
        /\ fcp.cnt \in 0 .. SPP /\ fcp.col \in 0 .. SPP /\ fcp.col + fcp.cnt <= SPP
    BY RegistersShape DEF Types
  <2>2. "row" \notin DOMAIN u
    OBVIOUS
  <2> HIDE DEF u, c
  <2>3. QED BY <1>2, <1>3, <1>4, <1>5, <2>1, <2>2, IssueTypes, Layout DEF Names
<1>7. Serves(c, b, op, k)
  <2> HIDE DEF c
  <2>1. QED BY <1>1, <1>2, <1>4 DEF Serves, Is
<1>8. GoesOn(b, op, k + 1)'
  BY <1>1, <1>2, <1>4 DEF GoesOn, Second, Front, Middle, Back, NumSteps
<1>9. QED
  BY <1>1, <1>4, <1>6, <1>7, <1>8 DEF IssueDone

LEMMA IssueBack ==
  ASSUME Types, Issue, NEW b \in Banks, b = call.bank,
         NEW op \in Operations, NEW k \in 1 .. 4, GoesOn(b, op, k),
         op.kind = "modcopy", k = 4
  PROVE  IssueDone(b, op, k)
<1> DEFINE u == [cmd |-> "IN_PROG", dma |-> CopyBuf(b), cnt |-> SPP - op.off - op.n, col |-> op.off + op.n]
           c == queue'[b][Len(queue[b]) + 1]
<1>1. k = 4 /\ NumSteps(op) = 4
  BY DEF GoesOn, NumSteps
<1>2. todo = <<u>> /\ row[b] = op.row
  BY <1>1 DEF GoesOn, Back
<1>3. u = Head(todo) /\ Tail(todo) = <<>>
  <2> HIDE DEF u
  <2>1. QED BY <1>2, HeadTail
<1>4. /\ todo' = <<>> /\ (todo' = <<>> <=> k = NumSteps(op)) /\ (c.last <=> k = NumSteps(op))
      /\ c.reg = fcp' /\ c.row = row'[b] /\ row'[b] = row[b]
      /\ fcp'.cmd = "IN_PROG" /\ fcp'.dma = CopyBuf(b) /\ fcp'.cnt = SPP - op.off - op.n
      /\ fcp'.col = op.off + op.n /\ fcp'.dst = fcp.dst
  <2>1. DOMAIN u = {"cmd", "dma", "cnt", "col"}
    OBVIOUS
  <2>2. u.cmd = "IN_PROG" /\ u.dma = CopyBuf(b) /\ u.cnt = SPP - op.off - op.n /\ u.col = op.off + op.n
    OBVIOUS
  <2>3. Tail(todo) = <<>> <=> k = NumSteps(op)
    BY <1>1, <1>3
  <2> HIDE DEF u, c
  <2>4. todo' = Tail(todo) /\ (c.last <=> k = NumSteps(op))
    BY <2>3, IssueRest DEF c
  <2>5. QED BY <1>1, <1>2, <1>3, <2>1, <2>2, <2>4, IssueFacts DEF c
<1>5. op.src \in Rows /\ op.row \in Rows /\ CopyBuf(b) \in Nat /\ SPP \in Nat
      /\ op.off \in Nat /\ op.n \in Nat /\ op.off + op.n <= SPP /\ op.buf \in Nat /\ op.buf >= op.off
      /\ SPP - op.off - op.n \in Nat /\ (op.off + op.n) + (SPP - op.off - op.n) <= SPP
  BY OpShape, Layout
<1>6. fcp' \in Registers /\ row' \in [Banks -> Rows]
  <2>1. /\ fcp.dst \in Rows /\ fcp.dma \in Int
        /\ fcp.cnt \in 0 .. SPP /\ fcp.col \in 0 .. SPP /\ fcp.col + fcp.cnt <= SPP
    BY RegistersShape DEF Types
  <2>2. "row" \notin DOMAIN u
    OBVIOUS
  <2> HIDE DEF u, c
  <2>3. /\ fcp'.cmd \in Names /\ fcp'.dma \in Int /\ fcp'.dst \in Rows
        /\ fcp'.cnt \in Nat /\ fcp'.col \in Nat /\ fcp'.col + fcp'.cnt <= SPP
    BY <1>4, <1>5, <2>1 DEF Names
  <2>4. "row" \notin DOMAIN Head(todo)
    BY <1>3, <2>2
  <2>5. QED BY <2>3, <2>4, IssueTypes
<1>7. Serves(c, b, op, k)
  <2> HIDE DEF c
  <2>1. QED BY <1>1, <1>2, <1>4 DEF Serves, Is
<1>8. QED
  BY <1>1, <1>4, <1>6, <1>7 DEF IssueDone

\* Whatever the routine does next, the command it issues is the one of the place.
LEMMA IssueStep ==
  ASSUME Types, Issue, NEW b \in Banks, b = call.bank,
         NEW op \in Operations, NEW k \in 1 .. 4, GoesOn(b, op, k)
  PROVE  IssueDone(b, op, k)
<1>1. CASE op.kind = "copy" /\ ~Internal(op)
  <2>1. k \in {1, 2}
    BY <1>1 DEF GoesOn, NumSteps
  <2>2. QED BY <1>1, <2>1, IssueCopyOut, IssueCopyIn
<1>2. CASE op.kind = "modcopy"
  <2>1. k \in {1, 2, 3, 4}
    OBVIOUS
  <2>2. QED BY <1>2, <2>1, IssueModOut, IssueFront, IssueMiddle, IssueBack
<1>3. QED
  BY <1>1, <1>2, OpShape, IssueRead, IssueProgram, IssueErase, IssueCopyback

LEMMA IssueInv == ASSUME IInv, Issue PROVE IInv'
<1>1. Types /\ Work
  BY DEF IInv
<1>2. PICK d \in Banks : d = call.bank
  BY <1>1 DEF Types
<1> DEFINE n == Len(queue[d]) + 1
<1>3. /\ todo # <<>> /\ UNCHANGED <<call, calls, page, open, nand, dram, pending>>
      /\ \A b \in Banks : Len(queue[b]) <= 1
  BY <1>1 DEF Issue, chip, Types
<1>4. \A b \in Banks : pending[b] \in Seq(Operations) /\ queue[b] \in Seq(Commands)
  BY <1>1 DEF Types
<1>5. /\ queue' = [queue EXCEPT ![d] = Append(queue[d], [reg |-> fcp', row |-> row'[d], last |-> Tail(todo) = <<>>])]
      /\ row' = IF "row" \in DOMAIN Head(todo) THEN [row EXCEPT ![d] = Head(todo).row] ELSE row
  BY <1>1, <1>2, Written
<1>6. ASSUME NEW b \in Banks, b # d
      PROVE  queue'[b] = queue[b] /\ row'[b] = row[b]
  BY <1>1, <1>5, <1>6 DEF Types
<1>7. /\ Len(queue[d]) \in {0, 1} /\ Len(queue'[d]) = n
      /\ \A i \in 1 .. Len(queue[d]) : queue'[d][i] = queue[d][i]
      /\ Len(queue[d]) = 0 <=> queue[d] = <<>>
  <2>1. queue'[d] = Append(queue[d], [reg |-> fcp', row |-> row'[d], last |-> Tail(todo) = <<>>])
    BY <1>1, <1>5 DEF Types
  <2>2. Len(queue[d]) \in {0, 1}
    <3>1. Len(queue[d]) \in Nat /\ Len(queue[d]) <= 1
      BY <1>3, <1>4
    <3> DEFINE x == Len(queue[d])
    <3>2. x \in Nat /\ x <= 1
      BY <3>1
    <3> HIDE DEF x
    <3>3. x \in {0, 1}
      BY <3>2
    <3>4. QED BY <3>3 DEF x
  <2>3. Len(queue[d]) = 0 <=> queue[d] = <<>>
    BY <1>4, NotEmpty
  <2>4. QED BY <1>4, <2>1, <2>2, <2>3, AppendedAny
\* The last operation of the bank goes on, and its next command is now the last of the queue.
<1>8. ASSUME NEW i, NEW m \in 1 .. 4, IssuedTo(d, i, m), i \in 1 .. Len(pending[d])
      PROVE  \E op \in Operations : op = pending[d][i] /\ i = Len(pending[d]) /\ IssueDone(d, op, m)
  <2>1. PICK op \in Operations : op = pending[d][i]
    BY <1>4, <1>8
  <2>2. i = Len(pending[d]) /\ GoesOn(d, op, m)
    BY <1>2, <1>3, <1>8, <2>1 DEF IssuedTo
  <2>3. IssueDone(d, op, m)
    BY <1>1, <1>2, <2>2, IssueStep
  <2>4. QED BY <2>1, <2>2, <2>3
<1>9. ASSUME NEW i, NEW m \in 1 .. 4, IssuedTo(d, i, m), i \in 1 .. Len(pending[d])
      PROVE  /\ i \in 1 .. Len(pending'[d]) /\ Serves(queue'[d][n], d, pending'[d][i], m)
             /\ \A j, l : j = After(d, i, m)[1] /\ l = After(d, i, m)[2] => IssuedTo(d, j, l)'
  <2>1. PICK op \in Operations :
          IssueDone(d, op, m) /\ i = Len(pending[d]) /\ op = pending[d][i] /\ i \in Nat
    BY <1>4, <1>8, <1>9
  <2>2. Serves(queue'[d][n], d, op, m) /\ call'.bank = d /\ pending' = pending
    BY <1>2, <1>3, <2>1 DEF IssueDone
  <2>3. CASE m = NumSteps(op)
    <3>1. todo' = <<>>
      BY <2>1, <2>3 DEF IssueDone
    <3>2. After(d, i, m)[1] = i + 1 /\ After(d, i, m)[2] = 1
      BY <2>1, <2>3, AfterIs
    <3>3. IssuedTo(d, i + 1, 1)'
      BY <2>1, <2>2, <3>1 DEF IssuedTo
    <3>4. QED BY <1>9, <2>1, <2>2, <3>2, <3>3
  <2>4. CASE m # NumSteps(op)
    <3>1. todo' # <<>> /\ GoesOn(d, op, m + 1)'
      BY <2>1, <2>4 DEF IssueDone
    <3>2. After(d, i, m)[1] = i /\ After(d, i, m)[2] = m + 1
      BY <2>1, <2>4, AfterIs
    <3>3. IssuedTo(d, i, m + 1)'
      BY <2>1, <2>2, <3>1 DEF IssuedTo
    <3>4. QED BY <1>9, <2>1, <2>2, <3>2, <3>3
  <2>5. QED BY <2>3, <2>4
<1>10. PICK k \in 1 .. 4 : Queues(d, k) /\ Left(d, k)
  BY <1>1 DEF Work
<1>11. Left(d, k)'
  BY <1>3, <1>10 DEF Left, LeftBy
\* The command issued is the first of the queue, or follows it.
<1>12. Queues(d, k)' /\ \E i, m : m \in 1 .. 4 /\ IssuedTo(d, i, m) /\ i \in 1 .. Len(pending[d])
  <2>1. CASE queue[d] = <<>>
    <3>1. IssuedTo(d, 1, k) /\ n = 1 /\ Len(queue'[d]) = 1
      BY <1>7, <1>10, <2>1 DEF Queues
    <3>2. 1 \in 1 .. Len(pending[d])
      BY <1>2, <1>3, <3>1 DEF IssuedTo
    <3>3. Serves(queue'[d][1], d, pending'[d][1], k) /\ 1 \in 1 .. Len(pending'[d])
      BY <1>9, <3>1, <3>2
    <3>4. Queued(d, 1, 1, k)'
      BY <3>3 DEF Queued
    <3>5. After(d, 1, k)' = After(d, 1, k)
      BY <1>3 DEF After
    <3>6. IssuedTo(d, After(d, 1, k)[1], After(d, 1, k)[2])'
      BY <1>9, <3>1, <3>2, <3>5
    <3>7. queue'[d] # <<>>
      BY <3>1
    <3>8. Queues(d, k)'
      BY <3>1, <3>4, <3>6, <3>7 DEF Queues
    <3>9. QED BY <3>1, <3>2, <3>8
  <2>2. CASE queue[d] # <<>>
    <3> DEFINE p == After(d, 1, k)
    <3>1. /\ Queued(d, 1, 1, k) /\ IssuedTo(d, p[1], p[2])
          /\ n = 2 /\ Len(queue'[d]) = 2 /\ queue'[d][1] = queue[d][1]
      <4>1. Len(queue[d]) = 1
        BY <1>7, <2>2
      <4>2. n = 2 /\ Len(queue'[d]) = 2 /\ queue'[d][1] = queue[d][1]
        BY <1>7, <4>1
      <4>3. QED BY <1>10, <2>2, <4>1, <4>2 DEF Queues
    <3>2. /\ k \in 1 .. NumSteps(pending[d][1]) /\ pending[d][1] \in Operations
          /\ Len(pending[d]) \in Nat \ {0} /\ Serves(queue[d][1], d, pending[d][1], k)
      BY <1>4, <3>1 DEF Queued, Serves
    <3>3. p[2] \in 1 .. 4
      BY <3>2, AfterIs, StepsFacts
    <3>4. p[1] \in 1 .. Len(pending[d])
      BY <1>2, <1>3, <3>1, <3>2 DEF IssuedTo
    <3>5. p' = p /\ (\A i, m : After(d, i, m)' = After(d, i, m))
      BY <1>3 DEF After
    <3> DEFINE q == After(d, p[1], p[2])
    <3> HIDE DEF p
    <3>6. q' = q
      <4>1. After(d, p[1], p[2])' = After(d, p[1], p[2])
        BY <1>3, <3>5 DEF After
      <4>2. QED BY <4>1 DEF q
    <3>7. /\ Serves(queue'[d][2], d, pending'[d][p[1]], p[2]) /\ p[1] \in 1 .. Len(pending'[d])
          /\ \A j, l : j = q[1] /\ l = q[2] => IssuedTo(d, j, l)'
      BY <1>9, <3>1, <3>3, <3>4 DEF q
    <3> HIDE DEF q
    <3>8. IssuedTo(d, q[1], q[2])'
      BY <3>6, <3>7
    <3>9. Queued(d, 2, p[1], p[2])'
      BY <3>5, <3>7 DEF Queued
    <3>10. Queued(d, 1, 1, k)' /\ queue'[d] # <<>>
      BY <1>3, <3>1, <3>2 DEF Queued
    <3>11. Queues(d, k)'
      BY <3>1, <3>8, <3>9, <3>10 DEF Queues, p, q
    <3>12. QED BY <3>1, <3>3, <3>4, <3>11
  <2>3. QED BY <2>1, <2>2
<1>13. ASSUME NEW b \in Banks, b # d, NEW m \in 1 .. 4, Queues(b, m), Left(b, m)
       PROVE  Queues(b, m)' /\ Left(b, m)'
  <2>1. \A i, l : IssuedTo(b, i, l) => IssuedTo(b, i, l)'
    BY <1>2, <1>3, <1>13 DEF IssuedTo
  <2>2. \A j, i, l : Queued(b, j, i, l) => Queued(b, j, i, l)'
    BY <1>3, <1>6, <1>13 DEF Queued
  <2>3. \A l : \A i \in 1 .. Len(pending[b]) : After(b, i, l)' = After(b, i, l)
    BY <1>3 DEF After
  <2>4. Queues(b, m)'
    BY <1>6, <1>13, <2>1, <2>2, <2>3, QueuesKept
  <2>5. Left(b, m)'
    BY <1>3, <1>13 DEF Left, LeftBy
  <2>6. QED BY <2>4, <2>5
<1>14. Work'
  BY <1>1, <1>10, <1>11, <1>12, <1>13 DEF Work
<1>15. Types'
  <2>1. fcp' \in Registers /\ row' \in [Banks -> Rows]
    BY <1>8, <1>12 DEF IssueDone
  <2> DEFINE e == [reg |-> fcp', row |-> row'[d], last |-> Tail(todo) = <<>>]
  <2>2. e \in Commands
    <3>1. (Tail(todo) = <<>>) \in BOOLEAN /\ row'[d] \in Rows
      BY <2>1
    <3>2. QED BY <2>1, <3>1, Zenon DEF Commands
  <2> HIDE DEF e
  <2>3. queue' = [queue EXCEPT ![d] = Append(queue[d], e)]
    BY <1>5 DEF e
  <2>4. queue' \in [Banks -> Seq(Commands)]
    BY <1>1, <1>4, <2>2, <2>3, Appended DEF Types
  <2>5. \A b \in Banks : Len(queue'[b]) <= 2
    <3>1. \A b \in Banks : Len(queue[b]) <= 2
      BY <1>1 DEF Types
    <3>2. Len(queue'[d]) <= 2
      <4> DEFINE x == Len(queue[d])
      <4>1. x \in {0, 1} /\ Len(queue'[d]) = x + 1
        BY <1>7
      <4> HIDE DEF x
      <4>2. QED BY <4>1
    <3>3. QED BY <1>6, <3>1, <3>2
  <2>6. QED BY <1>1, <1>3, <2>1, <2>4, <2>5 DEF Types
<1>16. QED
  BY <1>14, <1>15 DEF IInv

-----------------------------------------------------------------------------
(* What a command does to the chips and the DRAM. *)

LEMMA Areas ==
  /\ UserAddrs \subseteq DramSectors
  /\ \A s \in Sectors : InBuf + s \in UserAddrs /\ OutBuf + s \in UserAddrs
  /\ \A b \in Banks, s \in Sectors : CopyBuf(b) + s \in DramSectors \ UserAddrs
  /\ \A b \in Banks, a \in UserAddrs : a - CopyBuf(b) \notin Sectors
<1>1. CopyArea \in Nat /\ InBuf = CopyArea /\ OutBuf = CopyArea + SPP /\ SPP \in Nat \ {0}
  BY Layout
<1>2. UserAddrs = CopyArea .. CopyArea + SPP + SPP - 1 /\ DramSectors = 0 .. CopyArea + SPP + SPP - 1
  BY <1>1 DEF UserAddrs, DramSectors
<1>3. \A b \in Banks : CopyBuf(b) \in Nat /\ CopyBuf(b) + SPP <= CopyArea
  BY Layout
<1>4. \A s \in Sectors : s \in 0 .. SPP - 1
  BY DEF Sectors
<1>5. UserAddrs \subseteq DramSectors
  BY <1>1, <1>2
<1>6. \A s \in Sectors : InBuf + s \in UserAddrs /\ OutBuf + s \in UserAddrs
  BY <1>1, <1>2, <1>4
<1>7. \A b \in Banks, s \in Sectors : CopyBuf(b) + s \in DramSectors \ UserAddrs
  BY <1>1, <1>2, <1>3, <1>4
<1>8. \A b \in Banks, a \in UserAddrs : a - CopyBuf(b) \notin Sectors
  BY <1>1, <1>2, <1>3 DEF Sectors
<1>9. QED
  BY <1>5, <1>6, <1>7, <1>8

\* What is in a cell or a word of DRAM is data.
LEMMA ValuesLoaded == NotLoaded \notin Values /\ Erased \in Values
<1>1. NotLoaded # Erased
  BY DEF NotLoaded, Erased
<1>2. ASSUME NEW a PROVE NotLoaded # <<a>>
  <2>1. Len(<<0, 0>>) = 2 /\ Len(<<a>>) = 1
    OBVIOUS
  <2>2. QED BY <2>1 DEF NotLoaded
<1>3. ASSUME NEW b, NEW r, NEW s PROVE NotLoaded # <<b, r, s>>
  <2>1. Len(<<0, 0>>) = 2 /\ Len(<<b, r, s>>) = 3
    OBVIOUS
  <2>2. QED BY <2>1 DEF NotLoaded
<1>4. QED
  BY <1>1, <1>2, <1>3 DEF Values

LEMMA CommandShape ==
  ASSUME NEW c \in Commands
  PROVE  /\ c.reg \in Registers /\ c.row \in Rows /\ c.last \in BOOLEAN
         /\ c.reg.dma \in Int /\ c.reg.cnt \in 0 .. SPP /\ c.reg.col \in 0 .. SPP /\ c.reg.dst \in Rows
         /\ Moved(c) \subseteq Sectors
<1>1. c.reg \in Registers /\ c.row \in Rows /\ c.last \in BOOLEAN
  BY DEF Commands
<1>2. /\ c.reg.dma \in Int /\ c.reg.cnt \in 0 .. SPP /\ c.reg.col \in 0 .. SPP /\ c.reg.dst \in Rows
      /\ c.reg.col + c.reg.cnt <= SPP
  BY <1>1, RegistersShape
<1>3. Moved(c) \subseteq Sectors
  BY <1>2, Layout DEF Moved, Sectors
<1>4. QED
  BY <1>1, <1>2, <1>3

LEMMA Runs ==
  ASSUME Types, NEW b \in Banks, Execute(b), NEW c, c = queue[b][1]
  PROVE  /\ c \in Commands /\ queue[b] # <<>> /\ queue' = [queue EXCEPT ![b] = Tail(queue[b])]
         /\ c.last => pending' = [pending EXCEPT ![b] = Tail(pending[b])]
         /\ ~c.last => pending' = pending
         /\ UNCHANGED <<todo, call, calls, fcp, row>>
         /\ c.reg.cmd = "READ_OUT" => Out(b, c)
         /\ c.reg.cmd = "ROW_IN" => In(b, c, TRUE, FALSE)
         /\ c.reg.cmd = "IN" => In(b, c, FALSE, FALSE)
         /\ c.reg.cmd = "IN_PROG" => In(b, c, FALSE, TRUE)
         /\ c.reg.cmd = "ROW_IN_PROG" => In(b, c, TRUE, TRUE)
         /\ c.reg.cmd = "COPYBACK" => Copied(b, c)
         /\ c.reg.cmd = "ERASE" => ErasedBlock(b, c)
<1>1. queue[b] # <<>> /\ queue[b] \in Seq(Commands)
  BY DEF Execute, Types
<1>2. Head(queue[b]) = c /\ c \in Commands
  BY <1>1, Tailed
<1>3. queue' = [queue EXCEPT ![b] = Tail(queue[b])] /\ UNCHANGED <<todo, call, calls, fcp, row>>
  BY DEF Execute, firmware
<1>4. pending' = IF c.last THEN [pending EXCEPT ![b] = Tail(pending[b])] ELSE pending
  BY <1>2 DEF Execute
<1>5. \/ c.reg.cmd = "READ_OUT" /\ Out(b, c)
      \/ c.reg.cmd = "ROW_IN" /\ In(b, c, TRUE, FALSE)
      \/ c.reg.cmd = "IN" /\ In(b, c, FALSE, FALSE)
      \/ c.reg.cmd = "IN_PROG" /\ In(b, c, FALSE, TRUE)
      \/ c.reg.cmd = "ROW_IN_PROG" /\ In(b, c, TRUE, TRUE)
      \/ c.reg.cmd = "COPYBACK" /\ Copied(b, c)
      \/ c.reg.cmd = "ERASE" /\ ErasedBlock(b, c)
  BY <1>2, Zenon DEF Execute
<1>6. c.last => pending' = [pending EXCEPT ![b] = Tail(pending[b])]
  BY <1>4, Zenon
<1>7. ~c.last => pending' = pending
  BY <1>4, Zenon
<1>8. QED
  BY <1>1, <1>2, <1>3, <1>5, <1>6, <1>7

Takes(b, op) ==
  \/ op.kind = "read" /\ Pages!Read(b, op)
  \/ op.kind = "program" /\ Pages!Program(b, op)
  \/ op.kind = "copy" /\ Pages!Copy(b, op)
  \/ op.kind = "modcopy" /\ Pages!ModifiedCopy(b, op)
  \/ op.kind = "erase" /\ Pages!Erase(b, op)

\* What the rest of the proof needs to know of a command: nothing but the bank's own cells
\* and buffers changes; the last one does what the operation promises, and the others
\* prepare the next.
Effect(b, op, k) ==
  /\ page' \in [Banks -> [Sectors -> Values \cup {NotLoaded}]] /\ open' \in [Banks -> Rows \cup {-1}]
  /\ nand' \in [Banks -> [Rows -> [Sectors -> Values]]] /\ dram' \in [DramSectors -> Values]
  /\ \A d \in Banks \ {b} : page'[d] = page[d] /\ open'[d] = open[d] /\ nand'[d] = nand[d]
  /\ \A a \in DramSectors : a - CopyBuf(b) \notin Sectors /\ a - OutBuf \notin Sectors => dram'[a] = dram[a]
  /\ k = NumSteps(op) => open'[b] = -1 /\ Takes(b, op)
  /\ k # NumSteps(op) => UNCHANGED <<nand, UserData>> /\ LeftBy(b, op, k + 1)'

LEMMA OutEffect ==
  ASSUME Types, NEW b \in Banks, NEW c \in Commands, Out(b, c)
  PROVE  /\ UNCHANGED <<page, open, nand>> /\ dram' \in [DramSectors -> Values]
         /\ dram' = [a \in DramSectors |-> IF a - c.reg.dma \in Moved(c)
                                           THEN nand[b][c.row][a - c.reg.dma] ELSE dram[a]]
<1>1. dram \in [DramSectors -> Values] /\ nand \in [Banks -> [Rows -> [Sectors -> Values]]]
  BY DEF Types
<1>2. UNCHANGED <<page, open, nand>>
  BY DEF Out, chip
<1>3. dram' = [a \in DramSectors |-> IF a - c.reg.dma \in Moved(c)
                                     THEN nand[b][c.row][a - c.reg.dma] ELSE dram[a]]
  BY <1>1 DEF Out
<1>4. \A s \in Moved(c) : nand[b][c.row][s] \in Values
  BY <1>1, CommandShape
<1>5. dram' \in [DramSectors -> Values]
  BY <1>1, <1>3, <1>4
<1>6. QED
  BY <1>2, <1>3, <1>5

LEMMA RunRead ==
  ASSUME Types, NEW b \in Banks, Execute(b), NEW op \in Operations, NEW k \in 1 .. 4,
         NEW c, c = queue[b][1], Serves(c, b, op, k), LeftBy(b, op, k), op.kind = "read"
  PROVE  Effect(b, op, k)
<1>1. k = 1 /\ NumSteps(op) = 1 /\ op.buf = OutBuf
  BY OpShape DEF Serves, NumSteps
<1>2. /\ c.reg.cmd = "READ_OUT" /\ c.reg.dma = OutBuf /\ c.row = op.row
      /\ Moved(c) = Pages!Range(op) /\ c \in Commands
  BY <1>1, Runs DEF Serves, Is, Moved, Pages!Range
<1>3. /\ UNCHANGED <<page, open, nand>> /\ dram' \in [DramSectors -> Values]
      /\ dram' = [a \in DramSectors |-> IF a - OutBuf \in Pages!Range(op)
                                        THEN nand[b][op.row][a - OutBuf] ELSE dram[a]]
  <2>1. Out(b, c)
    BY <1>2, Runs
  <2>2. QED BY <1>2, <2>1, OutEffect
<1>4. Pages!Range(op) \subseteq Sectors
  BY <1>2, CommandShape
<1>5. Pages!Read(b, op)
  <2>1. UserData' = [a \in UserAddrs |-> IF a - op.buf \in Pages!Range(op)
                                         THEN nand[b][op.row][a - op.buf] ELSE UserData[a]]
    BY <1>1, <1>3, Areas DEF UserData
  <2>2. QED BY <1>3, <2>1 DEF Pages!Read
<1>6. open'[b] = -1
  BY <1>1, <1>3 DEF LeftBy
<1>7. \A a \in DramSectors : a - OutBuf \notin Sectors => dram'[a] = dram[a]
  BY <1>3, <1>4
<1>8. QED
  BY <1>1, <1>3, <1>5, <1>6, <1>7 DEF Types, Effect, Takes

LEMMA RunOut ==
  ASSUME Types, NEW b \in Banks, Execute(b), NEW op \in Operations, NEW k \in 1 .. 4,
         NEW c, c = queue[b][1], Serves(c, b, op, k), LeftBy(b, op, k), k = 1,
         (op.kind = "copy" /\ ~Internal(op)) \/ op.kind = "modcopy"
  PROVE  Effect(b, op, k)
<1>1. NumSteps(op) # 1
  BY DEF NumSteps
<1>2. c.reg.cmd = "READ_OUT" /\ c.reg.dma = CopyBuf(b) /\ c.row = op.src /\ Moved(c) = Sectors /\ c \in Commands
  <2>1. Is(c, "READ_OUT", CopyBuf(b), SPP, 0, op.src)
    BY DEF Serves
  <2>2. Moved(c) = 0 .. 0 + SPP - 1
    BY <2>1 DEF Is, Moved
  <2>3. 0 + SPP - 1 = SPP - 1
    BY Layout
  <2>4. QED BY <2>1, <2>2, <2>3, Runs DEF Is, Sectors
<1>3. /\ UNCHANGED <<page, open, nand>> /\ dram' \in [DramSectors -> Values]
      /\ dram' = [a \in DramSectors |-> IF a - CopyBuf(b) \in Sectors
                                        THEN nand[b][op.src][a - CopyBuf(b)] ELSE dram[a]]
  <2>1. Out(b, c)
    BY <1>2, Runs
  <2>2. QED BY <1>2, <2>1, OutEffect
<1>4. \A s \in Sectors : dram'[CopyBuf(b) + s] = nand[b][op.src][s]
  <2> SUFFICES ASSUME NEW s \in Sectors PROVE dram'[CopyBuf(b) + s] = nand[b][op.src][s]
    OBVIOUS
  <2>1. CopyBuf(b) + s \in DramSectors /\ CopyBuf(b) \in Nat /\ s \in Int
    BY Areas, Layout DEF Sectors
  <2>2. (CopyBuf(b) + s) - CopyBuf(b) = s
    BY <2>1
  <2>3. QED BY <1>3, <2>1, <2>2
<1>5. UserData' = UserData
  BY <1>3, Areas DEF UserData
<1>6. LeftBy(b, op, k + 1)'
  <2>1. open'[b] = -1 /\ k + 1 = 2
    BY <1>3 DEF LeftBy
  <2>2. QED BY <1>3, <1>4, <2>1 DEF LeftBy
<1>7. \A a \in DramSectors : a - CopyBuf(b) \notin Sectors => dram'[a] = dram[a]
  BY <1>3
<1>8. QED
  BY <1>1, <1>3, <1>5, <1>6, <1>7 DEF Types, Effect

\* The page register after a transfer to the chip.
LEMMA LoadedShape ==
  ASSUME Types, NEW b \in Banks, NEW c \in Commands,
         \A s \in Moved(c) : c.reg.dma + s \in DramSectors
  PROVE  /\ Loaded(b, c, TRUE) \in [Sectors -> Values \cup {NotLoaded}]
         /\ Loaded(b, c, FALSE) \in [Sectors -> Values \cup {NotLoaded}]
         /\ \A s \in Sectors : Loaded(b, c, TRUE)[s] = IF s \in Moved(c) THEN dram[c.reg.dma + s] ELSE NotLoaded
         /\ \A s \in Sectors : Loaded(b, c, FALSE)[s] = IF s \in Moved(c) THEN dram[c.reg.dma + s] ELSE page[b][s]
<1>1. dram \in [DramSectors -> Values] /\ page \in [Banks -> [Sectors -> Values \cup {NotLoaded}]]
  BY DEF Types
<1>2. \A s \in Sectors : page[b][s] \in Values \cup {NotLoaded}
  BY <1>1
<1>3. \A s \in Moved(c) : dram[c.reg.dma + s] \in Values
  BY <1>1
<1>4. QED
  BY <1>2, <1>3 DEF Loaded

\* A command that programs writes the merged page and closes the sequence.
Programs(b, r, ld) ==
  /\ page' = [page EXCEPT ![b] = [s \in Sectors |-> NotLoaded]]
  /\ open' = [open EXCEPT ![b] = -1]
  /\ nand' = [nand EXCEPT ![b][r] = Merge(nand[b][r], ld)]
  /\ dram' = dram

LEMMA ProgramEffect ==
  ASSUME Types, NEW b \in Banks, NEW r \in Rows, NEW ld \in [Sectors -> Values \cup {NotLoaded}],
         Programs(b, r, ld), NEW new, new = [s \in Sectors |-> new[s]],
         \A s \in Sectors : new[s] = IF ld[s] = NotLoaded THEN nand[b][r][s] ELSE ld[s]
  PROVE  /\ page' \in [Banks -> [Sectors -> Values \cup {NotLoaded}]]
         /\ open' \in [Banks -> Rows \cup {-1}]
         /\ nand' \in [Banks -> [Rows -> [Sectors -> Values]]] /\ dram' = dram
         /\ \A d \in Banks \ {b} : page'[d] = page[d] /\ open'[d] = open[d] /\ nand'[d] = nand[d]
         /\ open'[b] = -1
         /\ nand' = [nand EXCEPT ![b][r] = new]
<1> DEFINE old == nand[b][r]
           none == [s \in Sectors |-> NotLoaded]
<1>1. /\ page \in [Banks -> [Sectors -> Values \cup {NotLoaded}]] /\ open \in [Banks -> Rows \cup {-1}]
      /\ nand \in [Banks -> [Rows -> [Sectors -> Values]]]
  BY DEF Types
<1>2. r \in Rows /\ ld \in [Sectors -> Values \cup {NotLoaded}]
  OBVIOUS
<1>3. old \in [Sectors -> Values]
  BY <1>1, <1>2
<1>4. Merge(old, ld) = [s \in Sectors |-> new[s]]
  <2> HIDE DEF old
  <2>1. \A s \in Sectors : new[s] = IF ld[s] = NotLoaded THEN old[s] ELSE ld[s]
    BY DEF old
  <2>2. QED BY <2>1 DEF Merge
<1>5. Merge(old, ld) = new
  BY <1>4
<1>6. new \in [Sectors -> Values]
  <2>1. \A s \in Sectors : new[s] \in Values
    BY <1>2, <1>3
  <2>2. QED BY <2>1
<1>7. /\ page' = [page EXCEPT ![b] = none] /\ open' = [open EXCEPT ![b] = -1] /\ dram' = dram
      /\ nand' = [nand EXCEPT ![b][r] = Merge(old, ld)]
  BY DEF Programs
<1> HIDE DEF old
<1>8. nand' = [nand EXCEPT ![b][r] = new]
  BY <1>5, <1>7
<1>9. page' \in [Banks -> [Sectors -> Values \cup {NotLoaded}]] /\ open' \in [Banks -> Rows \cup {-1}]
  <2>1. none \in [Sectors -> Values \cup {NotLoaded}]
    OBVIOUS
  <2> HIDE DEF none
  <2>2. QED BY <1>1, <1>7, <2>1
<1>10. nand' = [nand EXCEPT ![b] = [nand[b] EXCEPT ![r] = new]]
  BY <1>1, <1>8
<1>11. nand' \in [Banks -> [Rows -> [Sectors -> Values]]]
  <2>1. [nand[b] EXCEPT ![r] = new] \in [Rows -> [Sectors -> Values]]
    BY <1>1, <1>2, <1>6
  <2>2. QED BY <1>1, <1>10, <2>1
<1>12. \A d \in Banks \ {b} : page'[d] = page[d] /\ open'[d] = open[d] /\ nand'[d] = nand[d]
  BY <1>1, <1>7, <1>10
<1>13. QED
  BY <1>1, <1>7, <1>8, <1>9, <1>11, <1>12

LEMMA RunProgram ==
  ASSUME Types, NEW b \in Banks, Execute(b), NEW op \in Operations, NEW k \in 1 .. 4,
         NEW c, c = queue[b][1], Serves(c, b, op, k), LeftBy(b, op, k), op.kind = "program"
  PROVE  Effect(b, op, k)
<1> DEFINE new == [s \in Sectors |-> IF s \in Pages!Range(op) THEN UserData[op.buf + s] ELSE nand[b][op.row][s]]
<1>1. k = 1 /\ NumSteps(op) = 1 /\ op.buf \in {InBuf, OutBuf}
  BY OpShape DEF Serves, NumSteps
<1>2. /\ c.reg.cmd = "ROW_IN_PROG" /\ c.reg.dma = op.buf /\ c.row = op.row
      /\ Moved(c) = Pages!Range(op) /\ c \in Commands /\ Moved(c) \subseteq Sectors
  BY <1>1, Runs, CommandShape DEF Serves, Is, Moved, Pages!Range
<1>3. \A s \in Sectors : op.buf + s \in UserAddrs /\ op.buf + s \in DramSectors /\ dram[op.buf + s] \in Values
  BY <1>1, Areas DEF Types
<1>4. In(b, c, TRUE, TRUE)
  BY <1>2, Runs
<1>5. \A s \in Sectors : new[s] = IF Loaded(b, c, TRUE)[s] = NotLoaded
                                  THEN nand[b][c.row][s] ELSE Loaded(b, c, TRUE)[s]
  <2> SUFFICES ASSUME NEW s \in Sectors
               PROVE  new[s] = IF Loaded(b, c, TRUE)[s] = NotLoaded
                               THEN nand[b][c.row][s] ELSE Loaded(b, c, TRUE)[s]
    OBVIOUS
  <2> DEFINE ld == Loaded(b, c, TRUE)[s]
  <2>1. ld = IF s \in Moved(c) THEN dram[op.buf + s] ELSE NotLoaded
    <3>1. \A t \in Moved(c) : c.reg.dma + t \in DramSectors
      BY <1>2, <1>3
    <3>2. \A t \in Sectors : Loaded(b, c, TRUE)[t] = IF t \in Moved(c) THEN dram[c.reg.dma + t] ELSE NotLoaded
      BY <1>2, <3>1, LoadedShape
    <3>3. QED BY <1>2, <3>2
  <2>2. dram[op.buf + s] # NotLoaded /\ UserData[op.buf + s] = dram[op.buf + s]
    BY <1>3, ValuesLoaded DEF UserData
  <2> HIDE DEF ld
  <2>3. new[s] = IF ld = NotLoaded THEN nand[b][c.row][s] ELSE ld
    BY <1>2, <2>1, <2>2
  <2>4. QED BY <2>3 DEF ld
<1>6. /\ page' \in [Banks -> [Sectors -> Values \cup {NotLoaded}]]
      /\ open' \in [Banks -> Rows \cup {-1}]
      /\ nand' \in [Banks -> [Rows -> [Sectors -> Values]]] /\ dram' = dram
      /\ \A d \in Banks \ {b} : page'[d] = page[d] /\ open'[d] = open[d] /\ nand'[d] = nand[d]
      /\ open'[b] = -1
      /\ nand' = [nand EXCEPT ![b][c.row] = new]
  <2>1. new = [s \in Sectors |-> new[s]]
    OBVIOUS
  <2>2. \A s \in Moved(c) : c.reg.dma + s \in DramSectors
    BY <1>2, <1>3
  <2> HIDE DEF new
  <2> DEFINE ld == Loaded(b, c, TRUE)
  <2>3. Programs(b, c.row, ld)
    BY <1>4 DEF In, Programs
  <2>4. \A s \in Sectors : new[s] = IF ld[s] = NotLoaded THEN nand[b][c.row][s] ELSE ld[s]
    BY <1>5
  <2>5. ld \in [Sectors -> Values \cup {NotLoaded}] /\ c.row \in Rows
    BY <1>2, <2>2, LoadedShape, CommandShape
  <2> HIDE DEF ld
  <2>6. QED BY <2>1, <2>3, <2>4, <2>5, ProgramEffect
<1>7. Pages!Program(b, op)
  BY <1>2, <1>6 DEF Pages!Program, UserData
<1>8. QED
  BY <1>1, <1>6, <1>7 DEF Types, Effect, Takes

LEMMA RunCopyIn ==
  ASSUME Types, NEW b \in Banks, Execute(b), NEW op \in Operations, NEW k \in 1 .. 4,
         NEW c, c = queue[b][1], Serves(c, b, op, k), LeftBy(b, op, k), k = 2,
         op.kind = "copy"
  PROVE  Effect(b, op, k)
<1> DEFINE new == nand[b][op.src]
           ld == Loaded(b, c, TRUE)
<1>1. NumSteps(op) = 2 /\ ~Internal(op) /\ op.src \in Rows /\ c \in Commands /\ c.row \in Rows
  <2>1. NumSteps(op) = 2 /\ ~Internal(op)
    BY DEF Serves, NumSteps
  <2>2. c \in Commands /\ op.src \in Rows
    BY OpShape, Runs
  <2>3. QED BY <2>1, <2>2, CommandShape
<1>2. c.reg.cmd = "ROW_IN_PROG" /\ c.reg.dma = CopyBuf(b) /\ c.row = op.row /\ Moved(c) = Sectors
  <2>1. Is(c, "ROW_IN_PROG", CopyBuf(b), SPP, 0, op.row)
    BY <1>1 DEF Serves
  <2>2. Moved(c) = 0 .. 0 + SPP - 1
    BY <2>1 DEF Is, Moved
  <2>3. 0 + SPP - 1 = SPP - 1
    BY Layout
  <2>4. QED BY <2>1, <2>2, <2>3 DEF Is, Sectors
<1>3. new \in [Sectors -> Values] /\ new = [s \in Sectors |-> new[s]]
  BY <1>1 DEF Types
<1>4. \A t \in Moved(c) : c.reg.dma + t \in DramSectors
  BY <1>2, Areas
<1>5. ld \in [Sectors -> Values \cup {NotLoaded}] /\ \A s \in Sectors : ld[s] = new[s]
  <2>1. \A t \in Sectors : Loaded(b, c, TRUE)[t] = IF t \in Moved(c) THEN dram[c.reg.dma + t] ELSE NotLoaded
    BY <1>1, <1>4, LoadedShape
  <2>2. \A t \in Sectors : dram[CopyBuf(b) + t] = new[t]
    BY DEF LeftBy
  <2>3. ld \in [Sectors -> Values \cup {NotLoaded}]
    BY <1>1, <1>4, LoadedShape
  <2> HIDE DEF new
  <2>4. QED BY <1>2, <2>1, <2>2, <2>3
<1>6. \A s \in Sectors : new[s] = IF ld[s] = NotLoaded THEN nand[b][c.row][s] ELSE ld[s]
  <2> HIDE DEF new, ld
  <2>1. QED BY <1>3, <1>5, ValuesLoaded
<1>7. Programs(b, c.row, ld)
  BY <1>1, <1>2, Runs DEF In, Programs
<1>8. /\ page' \in [Banks -> [Sectors -> Values \cup {NotLoaded}]]
      /\ open' \in [Banks -> Rows \cup {-1}]
      /\ nand' \in [Banks -> [Rows -> [Sectors -> Values]]] /\ dram' = dram
      /\ \A d \in Banks \ {b} : page'[d] = page[d] /\ open'[d] = open[d] /\ nand'[d] = nand[d]
      /\ open'[b] = -1
      /\ nand' = [nand EXCEPT ![b][c.row] = new]
  <2> HIDE DEF new, ld
  <2>1. QED BY <1>1, <1>3, <1>5, <1>6, <1>7, ProgramEffect
<1>9. Pages!Copy(b, op)
  BY <1>2, <1>8 DEF Pages!Copy, UserData
<1>10. QED
  BY <1>1, <1>8, <1>9 DEF Types, Effect, Takes

LEMMA RunBack ==
  ASSUME Types, NEW b \in Banks, Execute(b), NEW op \in Operations, NEW k \in 1 .. 4,
         NEW c, c = queue[b][1], Serves(c, b, op, k), LeftBy(b, op, k), k = 4,
         op.kind = "modcopy"
  PROVE  Effect(b, op, k)
<1> DEFINE new == [s \in Sectors |-> IF s \in Pages!Range(op) THEN UserData[op.buf + s - op.off]
                                                              ELSE nand[b][op.src][s]]
           ld == Loaded(b, c, FALSE)
<1>1. /\ NumSteps(op) = 4 /\ op.src \in Rows /\ c \in Commands /\ c.row \in Rows
      /\ op.off \in Nat /\ op.n \in Nat /\ op.off + op.n <= SPP /\ op.buf = InBuf /\ op.buf \in Nat
      /\ SPP \in Nat /\ op.n >= 1
  <2>1. NumSteps(op) = 4
    BY DEF NumSteps
  <2>2. c \in Commands /\ op.src \in Rows
    BY OpShape, Runs
  <2>3. op.off \in 0 .. SPP - 1 /\ op.n \in 1 .. SPP /\ op.off + op.n <= SPP /\ op.buf = InBuf
    BY OpShape
  <2>4. InBuf \in Nat /\ SPP \in Nat
    BY Layout
  <2>5. QED BY <2>1, <2>2, <2>3, <2>4, CommandShape
<1>2. c.reg.cmd = "IN_PROG" /\ c.reg.dma = CopyBuf(b) /\ c.row = op.row /\ Moved(c) = op.off + op.n .. SPP - 1
  <2>1. Is(c, "IN_PROG", CopyBuf(b), SPP - op.off - op.n, op.off + op.n, op.row)
    BY DEF Serves
  <2>2. Moved(c) = op.off + op.n .. (op.off + op.n) + (SPP - op.off - op.n) - 1
    BY <2>1 DEF Is, Moved
  <2>3. (op.off + op.n) + (SPP - op.off - op.n) - 1 = SPP - 1
    BY <1>1
  <2>4. QED BY <2>1, <2>2, <2>3 DEF Is
<1>3. new = [s \in Sectors |-> new[s]]
  OBVIOUS
<1>4. \A t \in Moved(c) : c.reg.dma + t \in DramSectors
  <2>1. Moved(c) \subseteq Sectors
    BY <1>1, CommandShape
  <2>2. QED BY <1>2, <2>1, Areas
<1>5. ld \in [Sectors -> Values \cup {NotLoaded}]
  BY <1>1, <1>4, LoadedShape
<1>6. ASSUME NEW s \in Sectors PROVE ld[s] = new[s] /\ ld[s] # NotLoaded
  <2>1. ld[s] = IF s \in Moved(c) THEN dram[c.reg.dma + s] ELSE page[b][s]
    <3>1. \A t \in Sectors : Loaded(b, c, FALSE)[t] = IF t \in Moved(c) THEN dram[c.reg.dma + t] ELSE page[b][t]
      BY <1>1, <1>4, LoadedShape
    <3>2. QED BY <3>1
  <2>2. dram[CopyBuf(b) + s] = nand[b][op.src][s]
    BY DEF LeftBy
  <2>3. page[b][s] = IF s < op.off THEN nand[b][op.src][s]
                     ELSE IF s < op.off + op.n THEN dram[op.buf - op.off + s] ELSE NotLoaded
    BY DEF LeftBy
  <2>4. s \in 0 .. SPP - 1
    BY DEF Sectors
  <2>5. nand[b][op.src][s] \in Values
    BY <1>1 DEF Types
  <2>6. s \in Pages!Range(op) => /\ op.buf - op.off + s = op.buf + s - op.off
                                 /\ op.buf + s - op.off \in UserAddrs
    <3>1. s \in Pages!Range(op) => s \in op.off .. op.off + op.n - 1
      BY DEF Pages!Range
    <3>2. s \in Pages!Range(op) => s - op.off \in Sectors
      BY <1>1, <2>4, <3>1 DEF Sectors
    <3>3. op.buf - op.off + s = op.buf + s - op.off /\ op.buf + s - op.off = InBuf + (s - op.off)
      BY <1>1, <2>4
    <3>4. QED BY <3>2, <3>3, Areas
  <2>7. s \in Pages!Range(op) => /\ dram[op.buf - op.off + s] \in Values
                                 /\ UserData[op.buf + s - op.off] = dram[op.buf - op.off + s]
    BY <2>6, Areas DEF Types, UserData
  <2> DEFINE lo == op.off
             hi == op.off + op.n
  <2>8. /\ lo \in Nat /\ hi \in Nat /\ lo < hi /\ s \in Nat
        /\ s \in Moved(c) <=> s >= hi
        /\ s \in Pages!Range(op) <=> s >= lo /\ s < hi
    BY <1>1, <1>2, <2>4 DEF Pages!Range
  <2>9. page[b][s] = IF s < lo THEN nand[b][op.src][s]
                      ELSE IF s < hi THEN dram[op.buf - op.off + s] ELSE NotLoaded
    BY <2>3
  <2> HIDE DEF lo, hi
  <2>10. s \notin Pages!Range(op) => new[s] = nand[b][op.src][s]
    OBVIOUS
  <2>11. CASE s < lo
    <3>1. s \notin Moved(c) /\ s \notin Pages!Range(op)
      BY <2>8, <2>11
    <3>2. ld[s] = nand[b][op.src][s]
      BY <2>1, <2>9, <2>11, <3>1
    <3> HIDE DEF ld, new
    <3>3. QED BY <2>5, <2>10, <3>1, <3>2, ValuesLoaded
  <2>12. CASE s >= lo /\ s < hi
    <3>1. s \in Pages!Range(op) /\ s \notin Moved(c) /\ ~(s < lo)
      BY <2>8, <2>12
    <3>2. ld[s] = dram[op.buf - op.off + s]
      BY <2>1, <2>12, <2>9, <3>1
    <3>3. new[s] = UserData[op.buf + s - op.off]
      BY <3>1
    <3> HIDE DEF ld, new
    <3>4. QED BY <2>7, <3>1, <3>2, <3>3, ValuesLoaded
  <2>13. CASE s >= hi
    <3>1. s \in Moved(c) /\ s \notin Pages!Range(op)
      BY <2>8, <2>13
    <3>2. ld[s] = nand[b][op.src][s]
      BY <1>2, <2>1, <2>2, <3>1
    <3> HIDE DEF ld, new
    <3>3. QED BY <2>5, <2>10, <3>1, <3>2, ValuesLoaded
  <2>14. s < lo \/ (s >= lo /\ s < hi) \/ s >= hi
    BY <2>8
  <2> HIDE DEF ld, new
  <2>15. QED BY <2>11, <2>12, <2>13, <2>14
<1>7. Programs(b, c.row, ld)
  BY <1>1, <1>2, Runs DEF In, Programs
<1>8. /\ page' \in [Banks -> [Sectors -> Values \cup {NotLoaded}]]
      /\ open' \in [Banks -> Rows \cup {-1}]
      /\ nand' \in [Banks -> [Rows -> [Sectors -> Values]]] /\ dram' = dram
      /\ \A d \in Banks \ {b} : page'[d] = page[d] /\ open'[d] = open[d] /\ nand'[d] = nand[d]
      /\ open'[b] = -1
      /\ nand' = [nand EXCEPT ![b][c.row] = new]
  <2> HIDE DEF new, ld
  <2>1. \A s \in Sectors : new[s] = IF ld[s] = NotLoaded THEN nand[b][c.row][s] ELSE ld[s]
    BY <1>6
  <2>2. QED BY <1>1, <1>3, <1>5, <1>7, <2>1, ProgramEffect
<1>9. Pages!ModifiedCopy(b, op)
  BY <1>2, <1>8 DEF Pages!ModifiedCopy, UserData
<1>10. QED
  BY <1>1, <1>8, <1>9 DEF Types, Effect, Takes

LEMMA RunFront ==
  ASSUME Types, NEW b \in Banks, Execute(b), NEW op \in Operations, NEW k \in 1 .. 4,
         NEW c, c = queue[b][1], Serves(c, b, op, k), LeftBy(b, op, k), k = 2,
         op.kind = "modcopy"
  PROVE  Effect(b, op, k)
<1> DEFINE ld == Loaded(b, c, TRUE)
<1>1. /\ NumSteps(op) = 4 /\ c \in Commands /\ c.row \in Rows /\ op.off \in Nat /\ SPP \in Nat
  <2>1. NumSteps(op) = 4 /\ c \in Commands /\ op.off \in 0 .. SPP - 1
    BY OpShape, Runs DEF NumSteps
  <2>2. QED BY <2>1, CommandShape, Layout
<1>2. /\ c.reg.cmd = "ROW_IN" /\ c.reg.dma = CopyBuf(b) /\ c.row = op.row
      /\ \A s \in Sectors : s \in Moved(c) <=> s < op.off
  <2>1. Is(c, "ROW_IN", CopyBuf(b), op.off, 0, op.row)
    BY DEF Serves
  <2>2. Moved(c) = 0 .. 0 + op.off - 1
    BY <2>1 DEF Is, Moved
  <2>3. \A s \in Sectors : s \in Nat
    BY DEF Sectors
  <2>4. QED BY <1>1, <2>1, <2>2, <2>3 DEF Is
<1>3. /\ dram \in [DramSectors -> Values] /\ page \in [Banks -> [Sectors -> Values \cup {NotLoaded}]]
      /\ open \in [Banks -> Rows \cup {-1}] /\ nand \in [Banks -> [Rows -> [Sectors -> Values]]]
  BY DEF Types
<1>4. \A t \in Moved(c) : c.reg.dma + t \in DramSectors
  BY <1>1, <1>2, Areas, CommandShape
<1>5. /\ ld \in [Sectors -> Values \cup {NotLoaded}]
      /\ \A s \in Sectors : ld[s] = IF s \in Moved(c) THEN dram[CopyBuf(b) + s] ELSE NotLoaded
  <2>1. \A t \in Sectors : Loaded(b, c, TRUE)[t] = IF t \in Moved(c) THEN dram[c.reg.dma + t] ELSE NotLoaded
    BY <1>1, <1>4, LoadedShape
  <2>2. ld \in [Sectors -> Values \cup {NotLoaded}]
    BY <1>1, <1>4, LoadedShape
  <2>3. QED BY <1>2, <2>1, <2>2
<1>6. /\ page' = [page EXCEPT ![b] = ld] /\ open' = [open EXCEPT ![b] = c.row]
      /\ nand' = nand /\ dram' = dram
  BY <1>2, Runs DEF In
<1> HIDE DEF ld
<1>7. page' \in [Banks -> [Sectors -> Values \cup {NotLoaded}]] /\ open' \in [Banks -> Rows \cup {-1}]
  BY <1>1, <1>3, <1>5, <1>6
<1>8. \A d \in Banks \ {b} : page'[d] = page[d] /\ open'[d] = open[d]
  BY <1>3, <1>6
<1>9. LeftBy(b, op, k + 1)'
  <2>1. open'[b] = op.row /\ page'[b] = ld
    BY <1>2, <1>3, <1>6
  <2>2. \A s \in Sectors : dram'[CopyBuf(b) + s] = nand'[b][op.src][s]
    BY <1>6 DEF LeftBy
  <2>3. \A s \in Sectors : page'[b][s] = IF s < op.off THEN nand'[b][op.src][s] ELSE NotLoaded
    BY <1>2, <1>5, <1>6, <2>1, <2>2
  <2>4. k + 1 = 3
    OBVIOUS
  <2>5. QED BY <2>1, <2>2, <2>3, <2>4 DEF LeftBy
<1>10. k # NumSteps(op) /\ UserData' = UserData
  BY <1>1, <1>6 DEF UserData
<1>11. QED
  BY <1>3, <1>6, <1>7, <1>8, <1>9, <1>10 DEF Effect

LEMMA RunMiddle ==
  ASSUME Types, NEW b \in Banks, Execute(b), NEW op \in Operations, NEW k \in 1 .. 4,
         NEW c, c = queue[b][1], Serves(c, b, op, k), LeftBy(b, op, k), k = 3,
         op.kind = "modcopy"
  PROVE  Effect(b, op, k)
<1> DEFINE ld == Loaded(b, c, FALSE)
           lo == op.off
           hi == op.off + op.n
<1>1. /\ NumSteps(op) = 4 /\ c \in Commands /\ op.off \in Nat /\ op.n \in Nat /\ hi <= SPP
      /\ op.buf = InBuf /\ InBuf \in Nat
  <2>1. NumSteps(op) = 4 /\ c \in Commands
    BY Runs DEF NumSteps
  <2>2. op.off \in 0 .. SPP - 1 /\ op.n \in 1 .. SPP /\ op.off + op.n <= SPP /\ op.buf = InBuf
    BY OpShape
  <2>3. QED BY <2>1, <2>2, Layout
<1>2. /\ c.reg.cmd = "IN" /\ c.reg.dma = op.buf - op.off /\ c.row = op.row
      /\ \A s \in Sectors : s \in Moved(c) <=> s >= lo /\ s < hi
  <2>1. Is(c, "IN", op.buf - op.off, op.n, op.off, op.row)
    BY DEF Serves
  <2>2. Moved(c) = op.off .. op.off + op.n - 1
    BY <2>1 DEF Is, Moved
  <2>3. \A s \in Sectors : s \in Nat
    BY DEF Sectors
  <2>4. QED BY <1>1, <2>1, <2>2, <2>3 DEF Is
<1>3. /\ dram \in [DramSectors -> Values] /\ page \in [Banks -> [Sectors -> Values \cup {NotLoaded}]]
      /\ open \in [Banks -> Rows \cup {-1}] /\ nand \in [Banks -> [Rows -> [Sectors -> Values]]]
  BY DEF Types
<1>4. \A t \in Moved(c) : c.reg.dma + t \in DramSectors
  <2> SUFFICES ASSUME NEW t \in Moved(c) PROVE c.reg.dma + t \in DramSectors
    OBVIOUS
  <2>1. t \in Sectors /\ t >= lo /\ t < hi
    BY <1>1, <1>2, CommandShape
  <2>2. t - op.off \in Sectors /\ t \in Nat
    <3>1. t \in 0 .. SPP - 1 /\ SPP \in Nat /\ t >= op.off
      BY <2>1, Layout DEF Sectors
    <3>2. t - op.off \in 0 .. SPP - 1
      BY <1>1, <3>1
    <3>3. QED BY <3>1, <3>2 DEF Sectors
  <2>3. op.buf - op.off + t = InBuf + (t - op.off)
    BY <1>1, <2>2
  <2>4. QED BY <1>2, <2>2, <2>3, Areas
<1>5. /\ ld \in [Sectors -> Values \cup {NotLoaded}]
      /\ \A s \in Sectors : ld[s] = IF s \in Moved(c) THEN dram[c.reg.dma + s] ELSE page[b][s]
  BY <1>1, <1>4, LoadedShape
<1>6. /\ page' = [page EXCEPT ![b] = ld] /\ open' = open /\ nand' = nand /\ dram' = dram
  <2>1. open' = [open EXCEPT ![b] = open[b]] /\ page' = [page EXCEPT ![b] = ld] /\ nand' = nand /\ dram' = dram
    BY <1>2, Runs DEF In
  <2>2. QED BY <1>3, <2>1
<1> HIDE DEF ld
<1>7. page' \in [Banks -> [Sectors -> Values \cup {NotLoaded}]]
  BY <1>3, <1>5, <1>6
<1>8. \A d \in Banks \ {b} : page'[d] = page[d]
  BY <1>3, <1>6
<1>9. LeftBy(b, op, k + 1)'
  <2>1. open'[b] = op.row /\ page'[b] = ld
    BY <1>3, <1>6 DEF LeftBy
  <2>2. \A s \in Sectors : dram'[CopyBuf(b) + s] = nand'[b][op.src][s]
    BY <1>6 DEF LeftBy
  <2>3. \A s \in Sectors : page'[b][s] = IF s < lo THEN nand'[b][op.src][s]
                                         ELSE IF s < hi THEN dram'[op.buf - op.off + s] ELSE NotLoaded
    <3> SUFFICES ASSUME NEW s \in Sectors
                 PROVE  page'[b][s] = IF s < lo THEN nand'[b][op.src][s]
                                      ELSE IF s < hi THEN dram'[op.buf - op.off + s] ELSE NotLoaded
      OBVIOUS
    <3>1. page[b][s] = IF s < lo THEN nand[b][op.src][s] ELSE NotLoaded
      BY DEF LeftBy
    <3>2. ld[s] = IF s \in Moved(c) THEN dram[op.buf - op.off + s] ELSE page[b][s]
      BY <1>2, <1>5
    <3>3. (s \in Moved(c) <=> s >= lo /\ s < hi) /\ s \in Nat /\ lo \in Nat /\ hi \in Nat /\ lo <= hi
      BY <1>1, <1>2 DEF Sectors
    <3> HIDE DEF lo, hi
    <3>4. QED BY <1>6, <2>1, <3>1, <3>2, <3>3
  <2>4. k + 1 = 4
    OBVIOUS
  <2>5. QED BY <2>1, <2>2, <2>3, <2>4 DEF LeftBy
<1>10. k # NumSteps(op) /\ UserData' = UserData
  BY <1>1, <1>6 DEF UserData
<1>11. QED
  BY <1>3, <1>6, <1>7, <1>8, <1>9, <1>10 DEF Effect

LEMMA RunCopyback ==
  ASSUME Types, NEW b \in Banks, Execute(b), NEW op \in Operations, NEW k \in 1 .. 4,
         NEW c, c = queue[b][1], Serves(c, b, op, k), LeftBy(b, op, k),
         op.kind = "copy", Internal(op)
  PROVE  Effect(b, op, k)
<1> DEFINE new == nand[b][op.src]
<1>1. k = 1 /\ NumSteps(op) = 1 /\ op.src \in Rows /\ op.row \in Rows
  BY OpShape DEF Serves, NumSteps
<1>2. c.reg.cmd = "COPYBACK" /\ c.row = op.src /\ c.reg.dst = op.row
  BY DEF Serves
<1>3. /\ dram \in [DramSectors -> Values] /\ nand \in [Banks -> [Rows -> [Sectors -> Values]]]
  BY DEF Types
<1>4. /\ nand' = [nand EXCEPT ![b][op.row] = new] /\ UNCHANGED <<page, open>>
      /\ dram' = [a \in DramSectors |-> IF a - CopyBuf(b) \in Sectors THEN new[a - CopyBuf(b)] ELSE dram[a]]
  <2>1. Copied(b, c)
    BY <1>2, Runs
  <2>2. QED BY <1>2, <1>3, <2>1 DEF Copied
<1>5. new \in [Sectors -> Values]
  BY <1>1, <1>3
<1> HIDE DEF new
<1>6. dram' \in [DramSectors -> Values]
  BY <1>3, <1>4, <1>5
<1>7. nand' = [nand EXCEPT ![b] = [nand[b] EXCEPT ![op.row] = new]]
  BY <1>3, <1>4
<1>8. nand' \in [Banks -> [Rows -> [Sectors -> Values]]]
  <2>1. [nand[b] EXCEPT ![op.row] = new] \in [Rows -> [Sectors -> Values]]
    BY <1>1, <1>3, <1>5
  <2>2. QED BY <1>3, <1>7, <2>1
<1>9. \A d \in Banks \ {b} : nand'[d] = nand[d]
  BY <1>3, <1>7
<1>10. UserData' = UserData
  BY <1>4, Areas DEF UserData
<1>11. Pages!Copy(b, op)
  BY <1>4, <1>10 DEF Pages!Copy, new
<1>12. open'[b] = -1
  BY <1>1, <1>4 DEF LeftBy
<1>13. \A a \in DramSectors : a - CopyBuf(b) \notin Sectors => dram'[a] = dram[a]
  BY <1>4
<1>14. QED
  BY <1>1, <1>4, <1>6, <1>8, <1>9, <1>11, <1>12, <1>13 DEF Types, Effect, Takes

LEMMA RunErase ==
  ASSUME Types, NEW b \in Banks, Execute(b), NEW op \in Operations, NEW k \in 1 .. 4,
         NEW c, c = queue[b][1], Serves(c, b, op, k), LeftBy(b, op, k), op.kind = "erase"
  PROVE  Effect(b, op, k)
<1> DEFINE new == [r \in Rows |-> IF r \div RowsPerBlk = op.blk THEN [s \in Sectors |-> Erased] ELSE nand[b][r]]
<1>1. k = 1 /\ NumSteps(op) = 1
  BY DEF Serves, NumSteps
<1>2. c.reg.cmd = "ERASE" /\ c.row \div RowsPerBlk = op.blk
  BY EraseRow DEF Serves
<1>3. nand \in [Banks -> [Rows -> [Sectors -> Values]]]
  BY DEF Types
<1>4. nand' = [nand EXCEPT ![b] = new] /\ UNCHANGED <<page, open, dram>>
  <2>1. ErasedBlock(b, c)
    BY <1>2, Runs
  <2>2. QED BY <1>2, <2>1 DEF ErasedBlock
<1>5. new \in [Rows -> [Sectors -> Values]]
  <2>1. [s \in Sectors |-> Erased] \in [Sectors -> Values]
    BY ValuesLoaded
  <2>2. QED BY <1>3, <2>1
<1>6. Pages!Erase(b, op)
  BY <1>4 DEF Pages!Erase, UserData
<1> HIDE DEF new
<1>7. nand' \in [Banks -> [Rows -> [Sectors -> Values]]]
  BY <1>3, <1>4, <1>5
<1>8. \A d \in Banks \ {b} : nand'[d] = nand[d]
  BY <1>3, <1>4
<1>9. open'[b] = -1
  BY <1>1, <1>4 DEF LeftBy
<1>10. QED
  BY <1>1, <1>4, <1>6, <1>7, <1>8, <1>9 DEF Types, Effect, Takes

LEMMA EffectOf ==
  ASSUME Types, NEW b \in Banks, Execute(b), NEW op \in Operations, NEW k \in 1 .. 4,
         NEW c, c = queue[b][1], Serves(c, b, op, k), LeftBy(b, op, k)
  PROVE  Effect(b, op, k)
<1>1. CASE op.kind = "copy" /\ ~Internal(op)
  <2>1. k \in {1, 2}
    BY <1>1 DEF Serves, NumSteps
  <2>2. QED BY <1>1, <2>1, RunOut, RunCopyIn
<1>2. CASE op.kind = "modcopy"
  <2>1. k \in {1, 2, 3, 4}
    OBVIOUS
  <2>2. QED BY <1>2, <2>1, RunOut, RunFront, RunMiddle, RunBack
<1>3. QED
  BY <1>1, <1>2, OpShape, RunRead, RunProgram, RunCopyback, RunErase

-----------------------------------------------------------------------------
(* The invariant is kept by the chips. *)

\* Past its first command, a bank is at an operation of several.
LEMMA AtOperation ==
  ASSUME Types, NEW b \in Banks, NEW k \in 1 .. 4, Queues(b, k), k # 1
  PROVE  pending[b][1] \in Operations /\ k \in 1 .. NumSteps(pending[b][1])
<1>1. pending[b] \in Seq(Operations)
  BY DEF Types
<1>2. CASE queue[b] = <<>>
  BY <1>1, <1>2 DEF Queues, IssuedTo, GoesOn
<1>3. CASE queue[b] # <<>>
  <2>1. 1 \in 1 .. Len(pending[b]) /\ Serves(queue[b][1], b, pending[b][1], k)
    BY <1>3 DEF Queues, Queued
  <2>2. QED BY <1>1, <2>1 DEF Serves
<1>4. QED
  BY <1>2, <1>3

\* The command of another bank does not touch what a copy has read and loaded.
LEMMA LeftKept ==
  ASSUME Types, NEW b \in Banks, NEW d \in Banks, b # d, NEW op \in Operations, NEW k \in 1 .. 4,
         k \in 1 .. NumSteps(op), LeftBy(b, op, k),
         page'[b] = page[b], open'[b] = open[b], nand'[b] = nand[b],
         \A a \in DramSectors : a - CopyBuf(d) \notin Sectors /\ a - OutBuf \notin Sectors => dram'[a] = dram[a]
  PROVE  LeftBy(b, op, k)'
<1>1. ASSUME NEW s \in Sectors PROVE dram'[CopyBuf(b) + s] = dram[CopyBuf(b) + s]
  <2> DEFINE a == CopyBuf(b) + s
  <2>1. a \in DramSectors /\ CopyBuf(b) \in Nat /\ s \in 0 .. SPP - 1 /\ CopyBuf(b) + SPP <= OutBuf
        /\ CopyBuf(d) \in Nat /\ SPP \in Nat /\ OutBuf \in Nat
    BY Areas, Layout DEF Sectors
  <2>2. a - OutBuf \notin Sectors
    BY <2>1 DEF Sectors
  <2>3. a - CopyBuf(d) \notin Sectors
    <3>1. SUFFICES ASSUME a - CopyBuf(d) \in Sectors PROVE FALSE
      OBVIOUS
    <3>2. CopyBuf(b) + s # CopyBuf(d) + (a - CopyBuf(d))
      <4> DEFINE t == a - CopyBuf(d)
      <4>1. t \in Sectors
        BY <3>1
      <4> HIDE DEF t, a
      <4>2. CopyBuf(b) + s # CopyBuf(d) + t
        BY <4>1, CopyBufsApart
      <4>3. QED BY <4>2 DEF t
    <3>3. QED BY <2>1, <3>2
  <2>4. QED BY <2>1, <2>2, <2>3
<1>2. CASE k \in {1, 2}
  <2>1. k # 4 /\ ~(k >= 3)
    BY <1>2
  <2>2. QED BY <1>1, <1>2, <2>1 DEF LeftBy
<1>3. CASE k \in {3, 4}
  <2>1. op.kind = "modcopy" /\ op.buf = InBuf /\ op.off \in Nat /\ op.n \in Nat /\ op.off + op.n <= SPP
    <3>1. op.kind = "modcopy"
      BY <1>3 DEF NumSteps
    <3>2. QED BY <3>1, OpShape
  <2>2. ASSUME NEW s \in Sectors, ~(s < op.off), s < op.off + op.n
        PROVE  dram'[op.buf - op.off + s] = dram[op.buf - op.off + s]
    <3>1. s \in 0 .. SPP - 1 /\ SPP \in Nat /\ InBuf \in Nat /\ OutBuf = InBuf + SPP
      BY Layout DEF Sectors
    <3>2. s - op.off \in 0 .. SPP - 1
      BY <2>1, <2>2, <3>1
    <3>3. op.buf - op.off + s = InBuf + (s - op.off)
      BY <2>1, <3>1
    <3> DEFINE a == InBuf + (s - op.off)
    <3>4. a \in UserAddrs /\ a \in DramSectors
      BY <3>2, Areas DEF Sectors
    <3>5. a - CopyBuf(d) \notin Sectors
      BY <3>4, Areas
    <3>6. a - OutBuf \notin Sectors
      BY <3>1, <3>2 DEF Sectors
    <3> HIDE DEF a
    <3>7. dram'[a] = dram[a]
      BY <3>4, <3>5, <3>6
    <3>8. QED BY <3>3, <3>7 DEF a
  <2>3. open'[b] = op.row /\ \A s \in Sectors : dram'[CopyBuf(b) + s] = nand'[b][op.src][s]
    BY <1>1, <1>3 DEF LeftBy
  <2>4. \A s \in Sectors : page'[b][s] =
                    IF s < op.off THEN nand'[b][op.src][s]
                    ELSE IF k = 4 /\ s < op.off + op.n THEN dram'[op.buf - op.off + s]
                    ELSE NotLoaded
    <3>1. \A s \in Sectors : page[b][s] =
                    IF s < op.off THEN nand[b][op.src][s]
                    ELSE IF k = 4 /\ s < op.off + op.n THEN dram[op.buf - op.off + s]
                    ELSE NotLoaded
      BY <1>3 DEF LeftBy
    <3>2. QED BY <2>2, <3>1
  <2>5. k \notin {1, 2}
    BY <1>3
  <2>6. QED BY <2>3, <2>4, <2>5 DEF LeftBy
<1>4. QED
  BY <1>2, <1>3

LEMMA ExecuteInv == ASSUME IInv, NEW d \in Banks, Execute(d) PROVE IInv'
<1>1. Types /\ Work
  BY DEF IInv
<1>2. PICK k \in 1 .. 4 : Queues(d, k) /\ Left(d, k)
  BY <1>1 DEF Work
<1> DEFINE c == queue[d][1]
<1>3. /\ c \in Commands /\ queue[d] # <<>> /\ queue' = [queue EXCEPT ![d] = Tail(queue[d])]
      /\ UNCHANGED <<todo, call, calls, fcp, row>>
  BY <1>1, Runs
<1>4. \A b \in Banks : pending[b] \in Seq(Operations) /\ queue[b] \in Seq(Commands)
  BY <1>1 DEF Types
<1>5. PICK op \in Operations :
        /\ op = pending[d][1] /\ Serves(c, d, op, k) /\ LeftBy(d, op, k)
        /\ pending[d] # <<>> /\ Len(pending[d]) \in Nat \ {0} /\ k \in 1 .. NumSteps(op)
  <2>1. Queued(d, 1, 1, k)
    BY <1>2, <1>3 DEF Queues
  <2>2. 1 \in 1 .. Len(pending[d]) /\ Serves(c, d, pending[d][1], k)
    BY <2>1 DEF Queued
  <2>3. Len(pending[d]) \in Nat \ {0} /\ pending[d] # <<>> /\ pending[d][1] \in Operations
    BY <1>4, <2>2
  <2>4. QED BY <1>2, <2>2, <2>3 DEF Left, Serves
<1>6. Effect(d, op, k)
  <2>1. c = queue[d][1]
    OBVIOUS
  <2> HIDE DEF c
  <2>2. QED BY <1>1, <1>5, <2>1, EffectOf
\* The lists of the bank lose their heads: that of operations, when c is the last.
<1>7. /\ k = NumSteps(op) => pending' = [pending EXCEPT ![d] = Tail(pending[d])]
      /\ k # NumSteps(op) => pending' = pending
  <2>1. c.last <=> k = NumSteps(op)
    BY <1>5 DEF Serves
  <2>2. c.last => pending' = [pending EXCEPT ![d] = Tail(pending[d])]
    BY <1>1, Runs
  <2>3. ~c.last => pending' = pending
    BY <1>1, Runs
  <2> HIDE DEF c
  <2>4. QED BY <2>1, <2>2, <2>3, Zenon
<1> DEFINE z == IF k = NumSteps(op) THEN 1 ELSE 0
<1>8. /\ z \in {0, 1} /\ Len(pending'[d]) = Len(pending[d]) - z /\ pending'[d] \in Seq(Operations)
      /\ \A j \in 1 .. Len(pending[d]) - z : pending'[d][j] = pending[d][j + z]
  <2>1. CASE k = NumSteps(op)
    <3>1. pending'[d] = Tail(pending[d]) /\ z = 1
      BY <1>1, <1>7, <2>1 DEF Types
    <3> DEFINE n == Len(pending[d])
    <3>2. /\ Tail(pending[d]) \in Seq(Operations) /\ Len(Tail(pending[d])) = n - 1
          /\ \A i \in 1 .. n - 1 : Tail(pending[d])[i] = pending[d][i + 1]
      BY <1>4, <1>5, Tailed
    <3> HIDE DEF n
    <3>3. QED BY <3>1, <3>2 DEF n
  <2>2. CASE k # NumSteps(op)
    <3>1. pending'[d] = pending[d] /\ z = 0
      BY <1>7, <2>2
    <3> DEFINE n == Len(pending[d])
    <3>2. n \in Nat /\ n - z = n
      <4>1. n \in Nat \ {0}
        BY <1>5
      <4> HIDE DEF n, z
      <4>2. QED BY <3>1, <4>1
    <3>3. \A j \in 1 .. n : pending'[d][j] = pending[d][j + z]
      <4> HIDE DEF z
      <4>1. QED BY <3>1
    <3> HIDE DEF n, z
    <3>4. QED BY <1>4, <3>1, <3>2, <3>3 DEF n
  <2>3. QED BY <2>1, <2>2
<1>9. /\ Len(queue[d]) \in {1, 2} /\ queue'[d] \in Seq(Commands) /\ Len(queue'[d]) = Len(queue[d]) - 1
      /\ Len(queue[d]) = 2 => queue'[d][1] = queue[d][2]
  <2> DEFINE x == Len(queue[d])
  <2>1. x \in Nat \ {0} /\ x <= 2
    BY <1>1, <1>3, <1>4, Tailed DEF Types
  <2>2. queue'[d] = Tail(queue[d])
    BY <1>1, <1>3 DEF Types
  <2>3. Tail(queue[d]) \in Seq(Commands) /\ Len(Tail(queue[d])) = x - 1
        /\ \A i \in 1 .. x - 1 : Tail(queue[d])[i] = queue[d][i + 1]
    BY <1>3, <1>4, Tailed
  <2> HIDE DEF x
  <2>4. x \in {1, 2}
    BY <2>1
  <2>5. x = 2 => 1 \in 1 .. x - 1 /\ 1 + 1 = 2
    OBVIOUS
  <2>6. QED BY <2>2, <2>3, <2>4, <2>5 DEF x
<1> HIDE DEF z
<1>10. ASSUME NEW j \in Nat \ {0}, NEW i, i = j + z, NEW m, IssuedTo(d, i, m)
       PROVE  IssuedTo(d, j, m)'
  <2>1. CASE todo # <<>> /\ call.bank = d
    <3>1. i = Len(pending[d]) /\ GoesOn(d, pending[d][i], m)
      BY <1>10, <2>1 DEF IssuedTo
    <3>2. j = Len(pending[d]) - z /\ j \in 1 .. Len(pending[d]) - z
      BY <1>5, <1>8, <1>10, <3>1
    <3>3. j = Len(pending'[d]) /\ pending'[d][j] = pending[d][i]
      BY <1>8, <1>10, <3>2
    <3>4. \A o : GoesOn(d, o, m) => GoesOn(d, o, m)'
      BY <1>3 DEF GoesOn
    <3>5. PICK o : o = pending[d][i]
      OBVIOUS
    <3>6. GoesOn(d, o, m)' /\ pending'[d][j] = o
      BY <3>1, <3>3, <3>4, <3>5
    <3>7. GoesOn(d, pending[d][j], m)'
      BY <3>6
    <3>8. QED BY <1>3, <2>1, <3>3, <3>7 DEF IssuedTo
  <2>2. CASE ~(todo # <<>> /\ call.bank = d)
    <3>1. i = Len(pending[d]) + 1 /\ m = 1
      BY <1>10, <2>2 DEF IssuedTo
    <3>2. j = Len(pending'[d]) + 1
      BY <1>5, <1>8, <1>10, <3>1
    <3>3. QED BY <1>3, <2>2, <3>1, <3>2 DEF IssuedTo
  <2>3. QED BY <2>1, <2>2
<1>11. ASSUME NEW j \in Nat \ {0}, NEW i, i = j + z, NEW m, Queued(d, 2, i, m), Len(queue[d]) = 2
       PROVE  Queued(d, 1, j, m)' /\ pending'[d][j] = pending[d][i]
  <2>1. i \in 1 .. Len(pending[d]) /\ Serves(queue[d][2], d, pending[d][i], m)
    BY <1>11 DEF Queued
  <2>2. j \in 1 .. Len(pending[d]) - z
    BY <1>5, <1>8, <1>11, <2>1
  <2>3. pending'[d][j] = pending[d][i] /\ j \in 1 .. Len(pending'[d])
    BY <1>8, <1>11, <2>2
  <2>4. Serves(queue'[d][1], d, pending'[d][j], m)
    BY <1>9, <1>11, <2>1, <2>3
  <2>5. QED BY <2>3, <2>4 DEF Queued
\* The bank goes on with the place after the command.
<1> DEFINE p == After(d, 1, k)
<1>12. PICK l \in 1 .. 4 : /\ p[1] = 1 + z /\ p[2] = l
                           /\ k = NumSteps(op) => l = 1
                           /\ k # NumSteps(op) => l = k + 1
  <2>1. k = NumSteps(op) => p[1] = 2 /\ p[2] = 1 /\ z = 1
    BY <1>5, AfterIs DEF z
  <2>2. k # NumSteps(op) => p[1] = 1 /\ p[2] = k + 1 /\ z = 0
    BY <1>5, AfterIs DEF z
  <2>3. NumSteps(op) \in 1 .. 4
    BY <1>5, StepsFacts
  <2> HIDE DEF p
  <2>4. p[1] = 1 + z
    BY <2>1, <2>2
  <2>5. p[2] \in 1 .. 4
    BY <1>5, <2>1, <2>2, <2>3
  <2>6. QED BY <2>1, <2>2, <2>4, <2>5
<1>13. Left(d, l)'
  <2>1. CASE k = NumSteps(op)
    <3>1. open'[d] = -1 /\ l = 1
      BY <1>6, <1>12, <2>1 DEF Effect
    <3>2. QED BY <3>1 DEF Left, LeftBy
  <2>2. CASE k # NumSteps(op)
    <3>1. LeftBy(d, op, l)' /\ pending'[d][1] = op
      BY <1>5, <1>6, <1>7, <1>12, <2>2 DEF Effect
    <3>2. QED BY <3>1 DEF Left
  <2>3. QED BY <2>1, <2>2
<1>14. Queues(d, l)'
  <2>1. CASE Len(queue[d]) = 1
    <3>1. IssuedTo(d, p[1], p[2]) /\ queue'[d] = <<>> /\ Len(queue'[d]) = 0
      BY <1>2, <1>9, <2>1, NotEmpty DEF Queues
    <3> HIDE DEF p
    <3>2. IssuedTo(d, 1 + z, l)
      BY <1>12, <3>1
    <3>3. IssuedTo(d, 1, l)'
      BY <1>10, <3>2
    <3>4. QED BY <3>1, <3>3 DEF Queues
  <2>2. CASE Len(queue[d]) = 2
    <3>1. /\ Queued(d, 2, p[1], p[2]) /\ queue'[d] # <<>> /\ Len(queue'[d]) = 1
          /\ IssuedTo(d, After(d, p[1], p[2])[1], After(d, p[1], p[2])[2])
      BY <1>2, <1>9, <2>2, NotEmpty DEF Queues
    <3> HIDE DEF p
    <3>2. Queued(d, 2, 1 + z, l) /\ IssuedTo(d, After(d, 1 + z, l)[1], After(d, 1 + z, l)[2])
      BY <1>12, <3>1
    <3>3. Queued(d, 1, 1, l)' /\ pending'[d][1] = pending[d][1 + z]
      BY <1>11, <2>2, <3>2
    <3>4. PICK i, m : /\ i = After(d, 1 + z, l)[1] /\ m = After(d, 1 + z, l)[2] /\ IssuedTo(d, i, m)
      BY <3>2
    <3>5. PICK j \in Nat \ {0} : i = j + z /\ After(d, 1, l)'[1] = j /\ After(d, 1, l)'[2] = m
      <4>1. CASE l = NumSteps(pending[d][1 + z])
        <5>1. i = 1 + z + 1 /\ m = 1
          BY <1>8, <3>4, <4>1 DEF After
        <5>2. After(d, 1, l)' = <<2, 1>>
          BY <3>3, <4>1 DEF After
        <5>3. 2 \in Nat \ {0} /\ i = 2 + z
          BY <1>8, <5>1
        <5>4. QED BY <5>1, <5>2, <5>3
      <4>2. CASE l # NumSteps(pending[d][1 + z])
        <5>1. i = 1 + z /\ m = l + 1
          BY <1>8, <3>4, <4>2 DEF After
        <5>2. After(d, 1, l)' = <<1, l + 1>>
          BY <3>3, <4>2 DEF After
        <5>3. QED BY <5>1, <5>2
      <4>3. QED BY <4>1, <4>2
    <3>6. IssuedTo(d, j, m)'
      BY <1>10, <3>4, <3>5
    <3>7. IssuedTo(d, After(d, 1, l)[1], After(d, 1, l)[2])'
      BY <3>5, <3>6
    <3>8. QED BY <3>1, <3>3, <3>7 DEF Queues
  <2>3. QED BY <1>9, <2>1, <2>2
<1>15. ASSUME NEW b \in Banks, b # d, NEW m \in 1 .. 4, Queues(b, m), Left(b, m)
       PROVE  Queues(b, m)' /\ Left(b, m)'
  <2>1. queue'[b] = queue[b] /\ pending'[b] = pending[b]
    BY <1>1, <1>3, <1>7, <1>15 DEF Types
  <2>2. \A i, n : IssuedTo(b, i, n) => IssuedTo(b, i, n)'
    BY <1>3, <2>1 DEF IssuedTo, GoesOn
  <2>3. \A j, i, n : Queued(b, j, i, n) => Queued(b, j, i, n)'
    BY <2>1 DEF Queued
  <2>4. \A n : \A i \in 1 .. Len(pending[b]) : After(b, i, n)' = After(b, i, n)
    BY <2>1 DEF After
  <2>5. Queues(b, m)'
    BY <1>15, <2>1, <2>2, <2>3, <2>4, QueuesKept
  <2>6. b \in Banks \ {d} /\ page'[b] = page[b] /\ open'[b] = open[b] /\ nand'[b] = nand[b]
    BY <1>6, <1>15 DEF Effect
  <2>7. CASE m = 1
    <3>1. open'[b] = -1
      BY <1>15, <2>6, <2>7 DEF Left, LeftBy
    <3>2. ~(m >= 2) /\ ~(m >= 3)
      BY <2>7
    <3>3. QED BY <2>5, <3>1, <3>2 DEF Left, LeftBy
  <2>8. CASE m # 1
    <3>1. PICK o \in Operations : o = pending[b][1] /\ m \in 1 .. NumSteps(o)
      BY <1>1, <1>15, <2>8, AtOperation
    <3>2. LeftBy(b, o, m)
      BY <1>15, <3>1 DEF Left
    <3>3. LeftBy(b, o, m)'
      BY <1>1, <1>6, <1>15, <2>6, <3>1, <3>2, LeftKept DEF Effect
    <3>4. QED BY <2>1, <2>5, <3>1, <3>3 DEF Left
  <2>9. QED BY <2>5, <2>7, <2>8
<1>16. Work'
  BY <1>1, <1>13, <1>14, <1>15 DEF Work
<1>17. Types'
  <2>1. pending' \in [Banks -> Seq(Operations)]
    <3>1. CASE k = NumSteps(op)
      <4>1. pending' = [pending EXCEPT ![d] = Tail(pending[d])] /\ Tail(pending[d]) \in Seq(Operations)
        BY <1>4, <1>5, <1>7, <3>1, Tailed
      <4>2. QED BY <1>1, <4>1 DEF Types
    <3>2. CASE k # NumSteps(op)
      BY <1>1, <1>7, <3>2 DEF Types
    <3>3. QED BY <3>1, <3>2
  <2>2. queue' \in [Banks -> Seq(Commands)]
    BY <1>1, <1>3, <1>4, Tailed DEF Types
  <2>3. \A b \in Banks : Len(queue'[b]) <= 2
    <3>1. Len(queue'[d]) <= 2
      <4> DEFINE x == Len(queue[d])
      <4>1. x \in {1, 2} /\ Len(queue'[d]) = x - 1
        BY <1>9
      <4> HIDE DEF x
      <4>2. QED BY <4>1
    <3>2. \A b \in Banks : b # d => queue'[b] = queue[b] /\ Len(queue[b]) <= 2
      BY <1>1, <1>3 DEF Types
    <3>3. QED BY <3>1, <3>2
  <2>4. QED BY <1>1, <1>3, <1>6, <2>1, <2>2, <2>3 DEF Types, Effect
<1>18. QED
  BY <1>16, <1>17 DEF IInv

LEMMA StutterInv == ASSUME IInv, UNCHANGED vars PROVE IInv'
<1>1. UNCHANGED <<todo, call, calls, fcp, row, queue, page, open, nand, dram, pending>>
  BY DEF vars, firmware, chip
<1>2. Types'
  BY <1>1 DEF IInv, Types
<1>3. ASSUME NEW b \in Banks, NEW i, NEW m, IssuedTo(b, i, m) PROVE IssuedTo(b, i, m)'
  BY <1>1, <1>3 DEF IssuedTo, GoesOn
<1>4. ASSUME NEW b \in Banks, NEW j, NEW i, NEW m, Queued(b, j, i, m) PROVE Queued(b, j, i, m)'
  BY <1>1, <1>4 DEF Queued
<1>5. ASSUME NEW b \in Banks, NEW m, NEW i \in 1 .. Len(pending[b])
      PROVE  After(b, i, m)' = After(b, i, m)
  BY <1>1 DEF After
<1>6. ASSUME NEW b \in Banks, NEW k \in 1 .. 4, Queues(b, k), Left(b, k)
      PROVE  Queues(b, k)' /\ Left(b, k)'
  <2>1. Queues(b, k)'
    BY <1>1, <1>3, <1>4, <1>5, <1>6, QueuesKept
  <2>2. QED BY <1>1, <1>6, <2>1 DEF Left, LeftBy
<1>7. Work'
  BY <1>6 DEF IInv, Work
<1>8. QED
  BY <1>2, <1>7 DEF IInv

LEMMA StepInv == IInv /\ [Next]_vars => IInv'
<1>1. SUFFICES ASSUME IInv, Next \/ UNCHANGED vars PROVE IInv'
  OBVIOUS
<1>2. ASSUME NEW b \in Banks, NEW op \in Operations, NEW wait \in BOOLEAN, Begin(b, op, wait)
      PROVE  IInv'
  BY <1>1, <1>2, BeginInv
<1>3. ASSUME NEW b \in Banks, Execute(b) PROVE IInv'
  BY <1>1, <1>3, ExecuteInv
<1>4. QED
  BY <1>1, <1>2, <1>3, IssueInv, StutterInv DEF Next

\* Every state satisfies the inductive invariant: the commands in the queue of a bank, and
\* then those the routine has left, are those of the operations called on it, in order and
\* with their registers; and the chip and the copy buffer are where they should be for the next.
THEOREM Invariant == Spec => []IInv
BY InitInv, StepInv, PTL DEF Spec

\* No register, row or transfer of the page operations leaves its range.
THEOREM TypeCorrect == Spec => []TypeOK
<1>1. IInv => TypeOK
  <2> SUFFICES ASSUME Types PROVE TypeOK
    BY DEF IInv
  <2>1. fcp.dst \in Rows
    BY RegistersShape DEF Types
  <2>2. ASSUME NEW b \in Banks
        PROVE  /\ Len(queue[b]) <= 2
               /\ \A i \in DOMAIN queue[b] : Moved(queue[b][i]) \subseteq Sectors
               /\ DOMAIN page[b] = Sectors /\ open[b] \in Rows \cup {-1}
    <3>1. queue[b] \in Seq(Commands) /\ Len(queue[b]) <= 2
      BY DEF Types
    <3>2. \A i \in DOMAIN queue[b] : queue[b][i] \in Commands
      BY <3>1
    <3>3. page[b] \in [Sectors -> Values \cup {NotLoaded}] /\ open[b] \in Rows \cup {-1}
      BY DEF Types
    <3>4. QED BY <3>1, <3>2, <3>3, CommandShape
  <2>3. QED BY <2>1, <2>2 DEF Types, TypeOK, DramSectors
<1>2. QED
  BY <1>1, Invariant, PTL

\* The rules of flash.h for write sequences: a page programmed in parts is loaded on its bank
\* without a command of another kind or another row in between.
THEOREM SequencesKept == Spec => []WriteSequences
<1>1. IInv => WriteSequences
  <2> SUFFICES ASSUME IInv, NEW b \in Banks, queue[b] # <<>>
               PROVE  IF Head(queue[b]).reg.cmd \in {"IN", "IN_PROG"}
                      THEN open[b] = Head(queue[b]).row ELSE open[b] = -1
    BY DEF WriteSequences
  <2>1. PICK k \in 1 .. 4 : Queues(b, k) /\ Left(b, k)
    BY DEF IInv, Work
  <2>2. PICK c \in Commands : c = queue[b][1] /\ c = Head(queue[b])
    BY Tailed DEF IInv, Types
  <2>3. PICK op \in Operations : op = pending[b][1] /\ Serves(c, b, op, k) /\ LeftBy(b, op, k)
    <3>1. 1 \in 1 .. Len(pending[b]) /\ Serves(c, b, pending[b][1], k)
      BY <2>1, <2>2 DEF Queues, Queued
    <3>2. pending[b][1] \in Operations
      BY <3>1 DEF IInv, Types
    <3>3. QED BY <2>1, <3>1, <3>2 DEF Left
  <2>4. CASE k \in {1, 2}
    <3>1. open[b] = -1
      BY <2>3, <2>4 DEF LeftBy
    <3>2. c.reg.cmd \notin {"IN", "IN_PROG"}
      <4>1. k # 3 /\ k # 4
        BY <2>4
      <4>2. op.kind \in {"read", "program", "copy", "modcopy", "erase"}
        BY OpShape
      <4>3. op.kind = "copy" /\ ~Internal(op) => k \in {1, 2}
        BY <2>4
      <4>4. QED BY <2>3, <2>4, <4>2 DEF Serves, Is
    <3>3. QED BY <2>2, <3>1, <3>2
  <2>5. CASE k \in {3, 4}
    <3>1. op.kind = "modcopy"
      BY <2>3, <2>5 DEF Serves, NumSteps
    <3>2. c.reg.cmd \in {"IN", "IN_PROG"} /\ c.row = op.row
      BY <2>3, <2>5, <3>1 DEF Serves, Is
    <3>3. open[b] = op.row
      BY <2>3, <2>5 DEF LeftBy
    <3>4. QED BY <2>2, <3>2, <3>3
  <2>6. QED BY <2>4, <2>5
<1>2. QED
  BY <1>1, Invariant, PTL

-----------------------------------------------------------------------------
(* The command sequences implement the page operations. *)

LEMMA InitRefines == Init => Pages!Init
BY Areas DEF Init, Pages!Init, UserData, DataOf, DramSectors

LEMMA BeginRefines ==
  ASSUME NEW b \in Banks, NEW op \in Operations, NEW wait \in BOOLEAN, Begin(b, op, wait)
  PROVE  Pages!Call(b, op)
BY DEF Begin, chip, Pages!Call, UserData

LEMMA IssueRefines == Issue => UNCHANGED Pages!vars
BY DEF Issue, chip, Pages!vars, UserData

LEMMA ExecuteRefines ==
  ASSUME IInv, NEW b \in Banks, Execute(b)
  PROVE  Pages!Perform(b) \/ UNCHANGED Pages!vars
<1>1. PICK k \in 1 .. 4 : Queues(b, k) /\ Left(b, k)
  BY DEF IInv, Work
<1>2. PICK c : c = queue[b][1]
  OBVIOUS
<1>3. /\ c \in Commands /\ queue[b] # <<>>
      /\ c.last => pending' = [pending EXCEPT ![b] = Tail(pending[b])]
      /\ ~c.last => pending' = pending
  BY <1>2, Runs DEF IInv
<1>4. PICK op \in Operations :
        /\ op = pending[b][1] /\ op = Head(pending[b]) /\ pending[b] # <<>>
        /\ Serves(c, b, op, k) /\ LeftBy(b, op, k)
  <2>1. 1 \in 1 .. Len(pending[b]) /\ Serves(c, b, pending[b][1], k)
    BY <1>1, <1>2, <1>3 DEF Queues, Queued
  <2>2. pending[b] \in Seq(Operations) /\ pending[b] # <<>>
    BY <2>1 DEF IInv, Types
  <2>3. QED BY <1>1, <2>1, <2>2, Tailed DEF Left
<1>5. Effect(b, op, k)
  BY <1>2, <1>4, EffectOf DEF IInv
<1>6. c.last <=> k = NumSteps(op)
  BY <1>4 DEF Serves
<1>7. CASE k = NumSteps(op)
  <2>1. Takes(b, op)
    BY <1>5, <1>7 DEF Effect
  <2>2. pending' = [pending EXCEPT ![b] = Tail(pending[b])]
    BY <1>3, <1>6, <1>7, Zenon
  <2>3. QED BY <1>4, <2>1, <2>2 DEF Takes, Pages!Perform
<1>8. CASE k # NumSteps(op)
  <2>1. nand' = nand /\ UserData' = UserData
    BY <1>5, <1>8 DEF Effect
  <2>2. pending' = pending
    BY <1>3, <1>6, <1>8, Zenon
  <2>3. QED BY <2>1, <2>2 DEF Pages!vars
<1>9. QED
  BY <1>7, <1>8

LEMMA NextRefines == IInv /\ [Next]_vars => [Pages!Next]_(Pages!vars)
<1>1. SUFFICES ASSUME IInv, Next \/ UNCHANGED vars PROVE Pages!Next \/ UNCHANGED Pages!vars
  OBVIOUS
<1>2. ASSUME NEW b \in Banks, NEW op \in Operations, NEW wait \in BOOLEAN, Begin(b, op, wait)
      PROVE  Pages!Next
  BY <1>2, BeginRefines DEF Pages!Next
<1>3. ASSUME NEW b \in Banks, Execute(b) PROVE Pages!Next \/ UNCHANGED Pages!vars
  BY <1>1, <1>3, ExecuteRefines DEF Pages!Next
<1>4. UNCHANGED vars => UNCHANGED Pages!vars
  BY DEF vars, chip, Pages!vars, UserData
<1>5. QED
  BY <1>1, <1>2, <1>3, <1>4, IssueRefines DEF Next

\* The sequences of commands implement the page operations of NandPages, whatever the banks
\* and the routines have inherited in their registers, and for every size of the flash.
THEOREM SequencesImplementPages == Spec => ImplementsPages
<1>1. Init => Pages!Init
  BY InitRefines
<1>2. IInv /\ [Next]_vars => [Pages!Next]_(Pages!vars)
  BY NextRefines
<1>3. QED
  BY <1>1, <1>2, Invariant, PTL DEF Spec, ImplementsPages, Pages!Spec
=============================================================================
