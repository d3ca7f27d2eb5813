----------------------------- MODULE NandPages ------------------------------
(***************************************************************************)
(* What flash_wrapper.c promises an FTL: operations on pages.  Those on    *)
(* one bank take effect one by one, in the order of the calls; those on    *)
(* different banks in any order.  Each reads its operands, in flash and in *)
(* the buffers of the FTL, when it takes effect.                           *)
(***************************************************************************)
EXTENDS Integers, Sequences

CONSTANTS Banks, Rows, Sectors,  \* a page of a bank is a row of sectors
          RowsPerBlk,            \* PAGES_PER_BLK
          Addrs, HostAddrs,      \* sectors of the FTL's buffers; those the host writes
          Operations,
          Erased, Cells, Data    \* the value of an erased sector; initial contents

VARIABLES nand,     \* nand[b][row][s]
          mem,      \* mem[a]
          pending   \* pending[b]: the operations of bank b, oldest first

vars == <<nand, mem, pending>>

Init == nand = Cells /\ mem = Data /\ pending = [b \in Banks |-> <<>>]

Call(b, op) ==
  /\ pending' = [pending EXCEPT ![b] = Append(@, op)]
  /\ UNCHANGED <<nand, mem>>

Range(op) == op.off .. op.off + op.n - 1

\* nand_page_read, nand_page_ptread: sector s of the page goes to sector s of the buffer.
Read(b, op) ==
  /\ mem' = [a \in Addrs |-> IF a - op.buf \in Range(op) THEN nand[b][op.row][a - op.buf] ELSE mem[a]]
  /\ UNCHANGED nand

Program(b, op) ==
  /\ nand' = [nand EXCEPT ![b][op.row] =
                [s \in Sectors |-> IF s \in Range(op) THEN mem[op.buf + s] ELSE @[s]]]
  /\ UNCHANGED mem

\* nand_page_copyback
Copy(b, op) ==
  /\ nand' = [nand EXCEPT ![b][op.row] = nand[b][op.src]]
  /\ UNCHANGED mem

\* nand_page_modified_copyback: the new sectors are the first ones of the buffer.
ModifiedCopy(b, op) ==
  /\ nand' = [nand EXCEPT ![b][op.row] =
                [s \in Sectors |-> IF s \in Range(op) THEN mem[op.buf + s - op.off]
                                                      ELSE nand[b][op.src][s]]]
  /\ UNCHANGED mem

Erase(b, op) ==
  /\ nand' = [nand EXCEPT ![b] =
                [r \in Rows |-> IF r \div RowsPerBlk = op.blk THEN [s \in Sectors |-> Erased] ELSE @[r]]]
  /\ UNCHANGED mem

Perform(b) ==
  /\ pending[b] # <<>>
  /\ pending' = [pending EXCEPT ![b] = Tail(@)]
  /\ LET op == Head(pending[b]) IN
       \/ op.kind = "read" /\ Read(b, op)
       \/ op.kind = "program" /\ Program(b, op)
       \/ op.kind = "copy" /\ Copy(b, op)
       \/ op.kind = "modcopy" /\ ModifiedCopy(b, op)
       \/ op.kind = "erase" /\ Erase(b, op)

\* Data of the host arrives in a write buffer.
HostWrites ==
  /\ \A a \in Addrs \ HostAddrs : mem'[a] = mem[a]
  /\ UNCHANGED <<nand, pending>>

Next ==
  \/ HostWrites
  \/ \E b \in Banks : Perform(b) \/ \E op \in Operations : Call(b, op)

Spec == Init /\ [][Next]_vars
=============================================================================
