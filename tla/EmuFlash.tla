------------------------------ MODULE EmuFlash ------------------------------
(***************************************************************************)
(* The emulator (mock.c): the flash is a file, the DRAM an array, and the  *)
(* page operations are reads and writes of the file that return when they  *)
(* are done.  A single thread runs the format of ftl.c and then an FTL     *)
(* between writeToOpenSSD and readFromOpenSSD.  The FTL of this tree is a  *)
(* template: here it calls what it likes on the blocks the format gave it, *)
(* and serves a request of the host with one _from_host or _to_host        *)
(* operation, as the comments of ftl_read and ftl_write show.              *)
(*                                                                         *)
(* File and DRAM are counted in sectors; getPositionInFile multiplies in   *)
(* 32 bits, so that a position is taken modulo PosSectors = 2^32 / 512.    *)
(* The copybacks only print here: an FTL under test must not call them.    *)
(***************************************************************************)
EXTENDS Integers, Sequences

CONSTANTS NumBanks,        \* NUM_BANKS
          LogBlks,         \* LOG_BLK_PER_BANK
          PPB,             \* PAGES_PER_BLK
          SPP,             \* SECTORS_PER_PAGE
          NumRd, NumWr,    \* NUM_RD_BUFFERS, NUM_WR_BUFFERS
          PosSectors,      \* sectors a position can tell apart
          MaxCalls         \* bound: operations of the FTL after the format

\* The settings of jasmine.h from NUM_PSECTORS / 64 downwards: the banks fit a 32-bit position.
\* The sizes of a page and a block in nand.h are powers of two, as the number of positions is.
ASSUME EmuAssumption ==
  /\ {NumBanks, LogBlks, PPB, SPP, NumRd, NumWr, PosSectors} \subseteq Nat \ {0}
  /\ MaxCalls \in Nat
  /\ NumBanks * (LogBlks * (PPB * SPP)) <= PosSectors
  /\ PosSectors % (PPB * SPP) = 0

Banks == 0 .. NumBanks - 1
Sectors == 0 .. SPP - 1
FtlBlks == 1 .. LogBlks          \* the blocks the format leaves to the FTL
Rows == 0 .. LogBlks * PPB - 1   \* their pages

\* Slip: banks laid out one block too close together.
PositionTight(b, v, p, s) ==
  (((b * (LogBlks - 1) + v) * PPB + p) * SPP + s) % PosSectors
getPositionInFile(b, v, p, s) ==
  ((((b * LogBlks + v) * PPB + p) * SPP) + s) % PosSectors

Position(b, row, s) == getPositionInFile(b, 1 + row \div PPB, row % PPB, s)

FileSectors == 0 .. PosSectors + PPB * SPP - 1

RD_BUF_PTR(id) == id * SPP
WR_BUF_PTR(id) == (NumRd + id) * SPP
FtlBuf == (NumRd + NumWr) * SPP
DramSectors == 0 .. FtlBuf + SPP - 1
WrSectors == NumRd * SPP .. FtlBuf - 1

Erased == <<>>
Old == <<"old">>                \* what the file held, and what is past its end
HostData(k, s) == <<"host", k, s>>

VARIABLES
  file, eof,   \* the flash file and its length
  dram,
  rd, wr,      \* g_ftl_read_buf_id, g_ftl_write_buf_id
  fmt,         \* next bank and block to erase, or Formatted
  pend,        \* page operation in progress, or NoCall
  host,        \* request of the host
  calls

vars == <<file, eof, dram, rd, wr, fmt, pend, host, calls>>

Formatted == [bank |-> NumBanks, blk |-> 0]
NoCall == [kind |-> "none"]
NoHost == [kind |-> "none"]

\* initFlash opens an image with O_CREAT: it may be new.
Init ==
  /\ file = [p \in FileSectors |-> Old] /\ eof \in {0, PosSectors}
  /\ dram = [a \in DramSectors |-> <<a>>]
  /\ rd = 0 /\ wr = 0 /\ calls = 0
  /\ fmt = [bank |-> 0, blk |-> 0]
  /\ pend = NoCall /\ host = NoHost

-----------------------------------------------------------------------------
(* Calls. *)

\* format: blocks 0 to LOG_BLK_PER_BANK of each bank; no interrupt ever marks one bad here.
\* The FTL's block 1 is block 0 of its own count.
Format ==
  /\ fmt # Formatted /\ pend = NoCall
  /\ pend' = [kind |-> "erase", bank |-> fmt.bank, blk |-> fmt.blk - 1]
  /\ fmt' = IF fmt.blk < LogBlks THEN [fmt EXCEPT !.blk = @ + 1]
                                 ELSE [bank |-> fmt.bank + 1, blk |-> 0]
  /\ UNCHANGED <<file, eof, dram, rd, wr, host, calls>>

Ranges == {r \in [off : Sectors, n : 1 .. SPP] : r.off + r.n <= SPP}

\* nand_page_read, nand_page_program and their partial forms; nand_block_erase(_sync)
Transfers(kind, bufs) ==
  {[kind |-> kind, row |-> p, off |-> r.off, n |-> r.n, buf |-> a] :
     p \in Rows, r \in Ranges, a \in bufs}
Operations ==
  Transfers("read", {FtlBuf} \cup {RD_BUF_PTR(i) : i \in 0 .. NumRd - 1})
    \cup Transfers("program", {FtlBuf} \cup {WR_BUF_PTR(i) : i \in 0 .. NumWr - 1})
    \cup [kind : {"erase"}, blk : 0 .. LogBlks - 1]

\* An operation the FTL calls for itself: not on the host's ring.
Call(b, op) ==
  /\ fmt = Formatted /\ pend = NoCall /\ calls < MaxCalls
  /\ op.kind \in {"read", "program"} => op.buf = FtlBuf
  /\ calls' = calls + 1
  /\ pend' = [f \in DOMAIN op \cup {"bank"} |-> IF f = "bank" THEN b ELSE op[f]]
  /\ host' = IF host.kind = "done" THEN NoHost ELSE host
  /\ UNCHANGED <<file, eof, dram, rd, wr, fmt>>

\* writeToOpenSSD, up to ftl_write: the data goes to the current write buffer.
writeToOpenSSD(b, row, r) ==
  /\ fmt = Formatted /\ pend = NoCall /\ host.kind \notin {"write", "read"} /\ calls < MaxCalls
  /\ calls' = calls + 1
  /\ LET sent == [s \in r.off .. r.off + r.n - 1 |-> HostData(calls, s)] IN
       /\ dram' = [a \in DramSectors |->
                     LET s == a - WR_BUF_PTR(wr) IN IF s \in DOMAIN sent THEN sent[s] ELSE dram[a]]
       /\ host' = [kind |-> "write", bank |-> b, row |-> row, off |-> r.off, n |-> r.n,
                   data |-> sent]
  /\ UNCHANGED <<file, eof, rd, wr, fmt, pend>>

\* readFromOpenSSD, up to ftl_read: it notes the buffer that is next.
readFromOpenSSD(b, row, r) ==
  /\ fmt = Formatted /\ pend = NoCall /\ host.kind \notin {"write", "read"} /\ calls < MaxCalls
  /\ calls' = calls + 1
  /\ host' = [kind |-> "read", bank |-> b, row |-> row, off |-> r.off, n |-> r.n,
              addr |-> RD_BUF_PTR(rd)]
  /\ UNCHANGED <<file, eof, dram, rd, wr, fmt, pend>>

\* nand_page_(pt)program_from_host, nand_page_(pt)read_to_host: the operation on the current
\* buffer, up to its call.
ToHost ==
  /\ host.kind = "read" /\ pend = NoCall
  /\ pend' = [kind |-> "read", bank |-> host.bank, row |-> host.row,
              off |-> host.off, n |-> host.n, buf |-> RD_BUF_PTR(rd), ring |-> TRUE]
  /\ UNCHANGED <<file, eof, dram, rd, wr, fmt, host, calls>>

FromHost ==
  /\ host.kind = "write" /\ pend = NoCall
  /\ pend' = [kind |-> "program", bank |-> host.bank, row |-> host.row,
              off |-> host.off, n |-> host.n, buf |-> WR_BUF_PTR(wr), ring |-> TRUE]
  /\ UNCHANGED <<file, eof, dram, rd, wr, fmt, host, calls>>

-----------------------------------------------------------------------------
(* Their effect. *)

Start == Position(pend.bank, pend.row, pend.off)
Moved == pend.off .. pend.off + pend.n - 1
OnRing == "ring" \in DOMAIN pend

\* Slip: the buffer is looked up when the FTL has returned.
ReturnedLate(mem) ==
  [kind |-> "done", bank |-> host.bank, row |-> host.row,
   data |-> IF host.kind = "write" THEN host.data
            ELSE [s \in Moved |-> mem[RD_BUF_PTR((rd + 1) % NumRd) + s]]]

\* The FTL returns and the request with it; a read is copied out from the address it noted.
Returned(mem) ==
  [kind |-> "done", bank |-> host.bank, row |-> host.row,
   data |-> IF host.kind = "write" THEN host.data
            ELSE [s \in Moved |-> mem[host.addr + s]]]

\* pread to the buffer at the same offset
Read ==
  /\ pend.kind = "read"
  /\ dram' = [a \in DramSectors |->
                IF a - pend.buf \in Moved THEN file[Start + (a - pend.buf) - pend.off] ELSE dram[a]]
  /\ rd' = IF OnRing THEN (rd + 1) % NumRd ELSE rd
  /\ host' = IF OnRing THEN Returned(dram') ELSE host
  /\ UNCHANGED <<file, eof, wr>>

\* pwrite from the buffer
Program ==
  /\ pend.kind = "program"
  /\ file' = [p \in FileSectors |->
                IF p - Start \in 0 .. pend.n - 1 THEN dram[pend.buf + pend.off + p - Start] ELSE file[p]]
  /\ eof' = IF Start + pend.n > eof THEN Start + pend.n ELSE eof
  /\ wr' = IF OnRing THEN (wr + 1) % NumWr ELSE wr
  /\ host' = IF OnRing THEN Returned(dram) ELSE host
  /\ UNCHANGED <<dram, rd>>

\* Slip: the erase only prints, like the copybacks.
EraseStub == pend.kind = "erase" /\ UNCHANGED <<file, eof, dram, rd, wr, host>>

\* nand_block_erase: a block of ones
Erase ==
  /\ pend.kind = "erase"
  /\ LET start == getPositionInFile(pend.bank, pend.blk + 1, 0, 0)
         last == start + PPB * SPP - 1
     IN /\ file' = [p \in FileSectors |-> IF p \in start .. last THEN Erased ELSE file[p]]
        /\ eof' = IF last + 1 > eof THEN last + 1 ELSE eof
  /\ UNCHANGED <<dram, rd, wr, host>>

Perform ==
  /\ Read \/ Program \/ Erase
  /\ pend' = NoCall
  /\ UNCHANGED <<fmt, calls>>

Next ==
  \/ Format
  \/ \E b \in Banks, op \in Operations : Call(b, op)
  \/ \E b \in Banks, row \in Rows, r \in Ranges : writeToOpenSSD(b, row, r)
  \/ \E b \in Banks, row \in Rows, r \in Ranges : readFromOpenSSD(b, row, r)
  \/ ToHost
  \/ FromHost
  \/ Perform

Spec == Init /\ [][Next]_vars

-----------------------------------------------------------------------------
(* Properties. *)

nand == [b \in Banks |-> [r \in Rows |-> [s \in Sectors |-> file[Position(b, r, s)]]]]

\* mock.c:237 "assert(bytesRead == numBytes)": a page the FTL may read lies within the file,
\* also when the image is new and only the format has written to it.
NoShortRead == pend.kind = "read" => Start + pend.n <= eof

\* When a request of the host returns, the flash holds in its sectors what the host sent, or
\* the host was given what the flash holds, though the FTL has moved on to the next buffer.
HostTransfers ==
  host.kind = "done" =>
    \A s \in DOMAIN host.data : host.data[s] = nand[host.bank][host.row][s]

\* An FTL developed on the emulator sees the pages NandPages promises it, which are those of
\* flash_wrapper.c, all erased when the format has ended: no two of its pages share a place in
\* the file, although block LOG_BLK_PER_BANK of a bank is at the place of block 0 of the next.
Ready == fmt = Formatted /\ (pend = NoCall \/ calls > 0)

ErasedCells == [b \in Banks |-> [r \in Rows |-> [s \in Sectors |-> Erased]]]

ReadyCells == IF Ready THEN nand ELSE ErasedCells

\* The operation in progress as the FTL called it.
Operation == [f \in DOMAIN pend \ {"bank", "ring"} |-> pend[f]]
ReadyCalls == [b \in Banks |-> IF Ready /\ pend # NoCall /\ pend.bank = b THEN <<Operation>> ELSE <<>>]

Pages == INSTANCE NandPages WITH
  nand <- ReadyCells, mem <- dram, pending <- ReadyCalls,
  Addrs <- DramSectors, HostAddrs <- WrSectors, RowsPerBlk <- PPB,
  Cells <- ErasedCells, Data <- [a \in DramSectors |-> <<a>>]

ImplementsPages == Pages!Spec
=============================================================================
