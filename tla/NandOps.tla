------------------------------ MODULE NandOps -------------------------------
(***************************************************************************)
(* The page operations of flash_wrapper.c as sequences of flash commands.  *)
(* A routine writes some of the FCP registers and issues a command, then   *)
(* some others and the next one: what it does not write is what an earlier *)
(* command left there.  The banks run their commands concurrently, from    *)
(* queues as in FlashQueue, and share the DRAM.                            *)
(*                                                                         *)
(* DRAM is counted in sectors: COPY_BUF of each bank, then two buffers of  *)
(* the FTL: InBuf, which holds data it does not overwrite, and OutBuf, for *)
(* what it reads.  A modified copyback reads its buffer before it has      *)
(* finished, so it is given InBuf.  A transfer of 0 bytes moves nothing.   *)
(* A recovery (FlashPort) is left out: it loses commands.                  *)
(***************************************************************************)
EXTENDS Integers, Sequences

CONSTANTS NumBanks,     \* NUM_BANKS
          NumRows,      \* PAGES_PER_BANK
          RowsPerBlk,   \* PAGES_PER_BLK
          NumPlanes,    \* NUM_PLANES in 1-plane mode; 1 in 2-plane mode, where a row spans the planes
          SPP,          \* SECTORS_PER_PAGE
          MaxCalls      \* bound: calls of the FTL

ASSUME SizesAssumption ==
  {NumBanks, NumRows, RowsPerBlk, NumPlanes, SPP} \subseteq Nat \ {0} /\ MaxCalls \in Nat

Banks == 0 .. NumBanks - 1
Rows == 0 .. NumRows - 1
Sectors == 0 .. SPP - 1

CopyArea == NumBanks * SPP
InBuf == CopyArea
OutBuf == CopyArea + SPP
UserAddrs == CopyArea .. OutBuf + SPP - 1

\* Values tell where they come from: a cell, a word of DRAM, or nowhere.
Erased == <<>>
Cells == [b \in Banks |-> [r \in Rows |-> [s \in Sectors |-> <<b, r, s>>]]]
DataOf(A) == [a \in A |-> <<a>>]
NotLoaded == <<0, 0>>

VARIABLES
  todo,    \* what the routine in progress has still to write and issue
  call,    \* its bank, and whether it waits for the bank at the end (RETURN_WHEN_DONE)
  calls,   \* number of calls so far
  fcp,     \* the FCP registers that all banks share
  row,     \* row[b]: FCP_ROW_L(b), FCP_ROW_H(b)
  queue,   \* queue[b]: commands of bank b, the first one running
  page,    \* page[b]: page register of the chip, the sectors loaded for a program
  open,    \* open[b]: row of the write sequence begun with _ROW_IN, or -1
  nand,    \* the cells
  dram,
  pending  \* history: operations called and not yet done, per bank

firmware == <<todo, call, calls, fcp, row>>
chip == <<page, open, nand>>
vars == <<firmware, queue, chip, dram, pending>>

Init ==
  /\ todo = <<>> /\ call = [bank |-> 0, wait |-> FALSE] /\ calls = 0
  /\ fcp = [cmd |-> "WAIT", dma |-> 0, cnt |-> 0, col |-> 0, dst |-> 0]
  /\ row = [b \in Banks |-> 0]
  /\ queue = [b \in Banks |-> <<>>]
  /\ page = [b \in Banks |-> [s \in Sectors |-> NotLoaded]]
  /\ open = [b \in Banks |-> -1]
  /\ nand = Cells
  /\ dram = DataOf(0 .. OutBuf + SPP - 1)
  /\ pending = [b \in Banks |-> <<>>]

-----------------------------------------------------------------------------
(* The routines: for each command, the registers they write.               *)

Ranges == {r \in [off : Sectors, n : 1 .. SPP] : r.off + r.n <= SPP}

Operations ==
  UNION {
    {[kind |-> "read", row |-> p, off |-> r.off, n |-> r.n, buf |-> OutBuf]
       : p \in Rows, r \in Ranges},
    {[kind |-> "program", row |-> p, off |-> r.off, n |-> r.n, buf |-> a]
       : p \in Rows, r \in Ranges, a \in {InBuf, OutBuf}},
    {[kind |-> "copy", row |-> pp[1], src |-> pp[2]] : pp \in Rows \X Rows},
    {[kind |-> "modcopy", row |-> pp[1], src |-> pp[2], off |-> r.off, n |-> r.n, buf |-> InBuf]
       : pp \in {q \in Rows \X Rows : q[1] # q[2]}, r \in Ranges},
    {[kind |-> "erase", blk |-> k] : k \in 0 .. (NumRows - 1) \div RowsPerBlk} }

\* nand_page_read, nand_page_ptread and the _to_host forms
ReadOut(op) ==
  << [cmd |-> "READ_OUT", dma |-> op.buf, cnt |-> op.n, col |-> op.off, row |-> op.row] >>

\* nand_page_program, nand_page_ptprogram and the _from_host forms
InProg(op) ==
  << [cmd |-> "ROW_IN_PROG", dma |-> op.buf, cnt |-> op.n, col |-> op.off, row |-> op.row] >>

\* COPY_BUF(bank) (slip: one buffer for all).
OneCopyBuf(b) == 0
CopyBuf(b) == b * SPP

\* The chips of nand.h (two planes, one die) copy within a plane.
Plane(p) == (p \div RowsPerBlk) % NumPlanes
Internal(op) == Plane(op.src) = Plane(op.row)

Copyback(b, op) ==
  IF Internal(op)
  THEN << [cmd |-> "COPYBACK", col |-> 0, row |-> op.src, dst |-> op.row] >>
  ELSE << [cmd |-> "READ_OUT", dma |-> CopyBuf(b), cnt |-> SPP, row |-> op.src, col |-> 0],
          [cmd |-> "ROW_IN_PROG", row |-> op.row] >>

\* Slip: the write sequence begins in the row that was read.
ModifiedSameRow(b, op) ==
  << [cmd |-> "READ_OUT", dma |-> CopyBuf(b), cnt |-> SPP, row |-> op.src, col |-> 0],
     [cmd |-> "ROW_IN", cnt |-> op.off, col |-> 0],
     [cmd |-> "IN", dma |-> op.buf - op.off, cnt |-> op.n, col |-> op.off, row |-> op.row],
     [cmd |-> "IN_PROG", dma |-> CopyBuf(b), cnt |-> SPP - op.off - op.n, col |-> op.off + op.n] >>

\* Slip: the last part is as long as if the new sectors were the first ones.
ModifiedTooLong(b, op) ==
  << [cmd |-> "READ_OUT", dma |-> CopyBuf(b), cnt |-> SPP, row |-> op.src, col |-> 0],
     [cmd |-> "ROW_IN", cnt |-> op.off, row |-> op.row, col |-> 0],
     [cmd |-> "IN", dma |-> op.buf - op.off, cnt |-> op.n, col |-> op.off],
     [cmd |-> "IN_PROG", dma |-> CopyBuf(b), cnt |-> SPP - op.n, col |-> op.off + op.n] >>

\* nand_page_modified_copyback: always by way of the copy buffer, as NAND_SPEC_MODIFY_COPY
\* is defined nowhere; the sectors before the new ones, those, and the sectors after them.
ModifiedCopyback(b, op) ==
  << [cmd |-> "READ_OUT", dma |-> CopyBuf(b), cnt |-> SPP, row |-> op.src, col |-> 0],
     [cmd |-> "ROW_IN", cnt |-> op.off, row |-> op.row, col |-> 0],
     [cmd |-> "IN", dma |-> op.buf - op.off, cnt |-> op.n, col |-> op.off],
     [cmd |-> "IN_PROG", dma |-> CopyBuf(b), cnt |-> SPP - op.off - op.n, col |-> op.off + op.n] >>

BlockErase(op) == << [cmd |-> "ERASE", row |-> op.blk * RowsPerBlk] >>

Steps(b, op) ==
  CASE op.kind = "read"    -> ReadOut(op)
    [] op.kind = "program" -> InProg(op)
    [] op.kind = "copy"    -> Copyback(b, op)
    [] op.kind = "modcopy" -> ModifiedCopyback(b, op)
    [] op.kind = "erase"   -> BlockErase(op)

\* The copybacks return on issue; the others as their issue_flag or their _sync form says.
Begin(b, op, wait) ==
  /\ todo = <<>> /\ calls < MaxCalls
  /\ call.wait => queue[call.bank] = <<>>
  /\ op.kind \in {"copy", "modcopy"} => ~wait
  /\ todo' = Steps(b, op)
  /\ call' = [bank |-> b, wait |-> wait]
  /\ calls' = calls + 1
  /\ pending' = [pending EXCEPT ![b] = Append(@, op)]
  /\ UNCHANGED <<fcp, row, queue, chip, dram>>

\* The next registers, the wait for Waiting Room, FCP_ISSUE.
Issue ==
  /\ todo # <<>>
  /\ \A b \in Banks : Len(queue[b]) <= 1
  /\ LET u == Head(todo)
         set(f) == IF f \in DOMAIN u THEN u[f] ELSE fcp[f]
         b == call.bank
     IN /\ fcp' = [f \in DOMAIN fcp |-> set(f)]
        /\ row' = IF "row" \in DOMAIN u THEN [row EXCEPT ![b] = u.row] ELSE row
        /\ queue' = [queue EXCEPT ![b] =
             Append(@, [reg |-> fcp', row |-> row'[b], last |-> Tail(todo) = <<>>])]
  /\ todo' = Tail(todo)
  /\ UNCHANGED <<call, calls, chip, dram, pending>>

-----------------------------------------------------------------------------
(* The chips (external): the commands as flash.h describes them.           *)

Moved(c) == c.reg.col .. c.reg.col + c.reg.cnt - 1

\* [flash -> DRAM], to FCP_DMA_ADDR + FCP_COL * BYTES_PER_SECTOR
Out(b, c) ==
  /\ dram' = [a \in DOMAIN dram |->
                IF a - c.reg.dma \in Moved(c) THEN nand[b][c.row][a - c.reg.dma] ELSE dram[a]]
  /\ UNCHANGED chip

\* [DRAM -> flash]; _ROW_ begins a sequence with nothing loaded, _PROG ends it.
Loaded(b, c, begins) ==
  [s \in Sectors |-> IF s \in Moved(c) THEN dram[c.reg.dma + s]
                     ELSE IF begins THEN NotLoaded ELSE page[b][s]]

Merge(old, new) == [s \in Sectors |-> IF new[s] = NotLoaded THEN old[s] ELSE new[s]]

In(b, c, begins, programs) ==
  LET new == Loaded(b, c, begins) IN
  /\ page' = [page EXCEPT ![b] = IF programs THEN [s \in Sectors |-> NotLoaded] ELSE new]
  /\ open' = [open EXCEPT ![b] = IF programs THEN -1 ELSE IF begins THEN c.row ELSE @]
  /\ nand' = IF programs THEN [nand EXCEPT ![b][c.row] = Merge(@, new)] ELSE nand
  /\ UNCHANGED dram

\* Inside the chip, with a pass through the copy buffer for the ECC.
Copied(b, c) ==
  /\ nand' = [nand EXCEPT ![b][c.reg.dst] = nand[b][c.row]]
  /\ dram' = [a \in DOMAIN dram |->
                IF a - CopyBuf(b) \in Sectors THEN nand[b][c.row][a - CopyBuf(b)] ELSE dram[a]]
  /\ UNCHANGED <<page, open>>

ErasedBlock(b, c) ==
  /\ nand' = [nand EXCEPT ![b] =
       [r \in Rows |-> IF r \div RowsPerBlk = c.row \div RowsPerBlk
                       THEN [s \in Sectors |-> Erased] ELSE @[r]]]
  /\ UNCHANGED <<page, open, dram>>

Execute(b) ==
  /\ queue[b] # <<>>
  /\ LET c == Head(queue[b]) IN
       /\ \/ c.reg.cmd = "READ_OUT" /\ Out(b, c)
          \/ c.reg.cmd = "ROW_IN" /\ In(b, c, TRUE, FALSE)
          \/ c.reg.cmd = "IN" /\ In(b, c, FALSE, FALSE)
          \/ c.reg.cmd = "IN_PROG" /\ In(b, c, FALSE, TRUE)
          \/ c.reg.cmd = "ROW_IN_PROG" /\ In(b, c, TRUE, TRUE)
          \/ c.reg.cmd = "COPYBACK" /\ Copied(b, c)
          \/ c.reg.cmd = "ERASE" /\ ErasedBlock(b, c)
       /\ pending' = IF c.last THEN [pending EXCEPT ![b] = Tail(@)] ELSE pending
  /\ queue' = [queue EXCEPT ![b] = Tail(@)]
  /\ UNCHANGED firmware

-----------------------------------------------------------------------------
Next ==
  \/ \E b \in Banks, op \in Operations, wait \in BOOLEAN : Begin(b, op, wait)
  \/ Issue
  \/ \E b \in Banks : Execute(b)

Spec == Init /\ [][Next]_vars

-----------------------------------------------------------------------------
(* Properties. *)

\* Types of the registers, the queues and the chips; no transfer leaves its page.
TypeOK ==
  /\ calls \in 0 .. MaxCalls /\ call \in [bank : Banks, wait : BOOLEAN]
  /\ row \in [Banks -> Rows] /\ fcp.dst \in Rows
  /\ \A b \in Banks :
       /\ Len(queue[b]) <= 2
       /\ \A i \in DOMAIN queue[b] : Moved(queue[b][i]) \subseteq Sectors
       /\ DOMAIN page[b] = Sectors /\ open[b] \in Rows \cup {-1}
  /\ DOMAIN dram = 0 .. OutBuf + SPP - 1

\* flash.h:305-331 (rules 1 and 3): "The first command of a sequence should be
\* FC_COL_ROW_IN_PROG or FC_COL_ROW_IN", "_PROG should always be the last of the sequence",
\* and the row is the same for all its commands: on no bank does a command of another
\* kind, or of another row, come between the two.
WriteSequences ==
  \A b \in Banks : queue[b] # <<>> =>
    LET c == Head(queue[b]) IN
      IF c.reg.cmd \in {"IN", "IN_PROG"} THEN open[b] = c.row ELSE open[b] = -1

\* The buffers of the FTL.
UserData == [a \in UserAddrs |-> dram[a]]

\* The sequences do what NandPages says the routines do, with the registers they inherit,
\* the copy buffer in between, and any interleaving with the other banks.
Pages == INSTANCE NandPages WITH mem <- UserData, Addrs <- UserAddrs, HostAddrs <- {},
                                 Data <- DataOf(UserAddrs)

ImplementsPages == Pages!Spec
=============================================================================
