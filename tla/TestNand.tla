------------------------------ MODULE TestNand ------------------------------
(***************************************************************************)
(* test_nand_blocks: erase, fill, read and erase every block, on all banks *)
(* at once, and leave data in the bad ones.  It works without interrupts   *)
(* and with FCONF_PAUSE off: the flags a failed command raises stay up     *)
(* until steps 4 and 6 look at them, and stop nothing.                     *)
(***************************************************************************)
EXTENDS Naturals, FiniteSets

CONSTANTS NumBanks, VBlks,     \* blocks 1 .. VBlks - 1 are tested
          Pages,               \* PAGES_PER_VBLK
          MaxFaults            \* bound: commands that fail

ASSUME SizesAssumption ==
  NumBanks \in Nat \ {0} /\ VBlks \in Nat \ {0, 1} /\ Pages \in Nat \ {0} /\ MaxFaults \in Nat

Banks == 0..NumBanks - 1
Flag(fc) == IF fc = "read" THEN "CORRUPT" ELSE "BADBLK"

VARIABLES
  step, vblk, page, bank,   \* where the program is: its step and loop variables
  bad,                      \* the banks whose block it holds for bad
  erase_prog_fail, read_fail,   \* g_test_result
  wr, busy,                 \* Waiting Room, and the command each bank runs: <<>> or <<..>>
  flags,                    \* BSP_INTR
  data,                     \* blocks with something other than 0xFF in them
  failed                    \* history: failures, and whether their check was over

loop == <<step, vblk, page, bank>>
hw   == <<busy, flags, data, failed>>
vars == <<loop, bad, erase_prog_fail, read_fail, wr, hw>>

\* flash_clear_irq and FCONF_PAUSE = 0; what was in the blocks does not matter.
Init ==
  /\ step = "erase" /\ vblk = 1 /\ page = 0 /\ bank = 0
  /\ bad = {} /\ erase_prog_fail = [b \in Banks |-> 0] /\ read_fail = [b \in Banks |-> 0]
  /\ wr = <<>> /\ busy = [b \in Banks |-> <<>>] /\ flags = [b \in Banks |-> {}]
  /\ data = {} /\ failed = {}

----------------------------------------------------------------------------
(* The controller. *)

Accept ==
  /\ wr # <<>> /\ busy[wr[1].bank] = <<>>
  /\ busy' = [busy EXCEPT ![wr[1].bank] = wr]
  /\ wr' = <<>>
  /\ UNCHANGED <<loop, bad, erase_prog_fail, read_fail, flags, data, failed>>

\* The check of a command has not looked at its bank yet.
Before(b, at) == step = at => bank <= b
InTime(c) ==
  /\ c.blk = vblk
  /\ IF c.fc = "read" THEN step \in {"read", "wait6", "check6"} /\ Before(c.bank, "check6")
                      ELSE step \in {"erase", "program", "wait4", "check4"} /\ Before(c.bank, "check4")

Complete(b) ==
  /\ busy[b] # <<>>
  /\ busy' = [busy EXCEPT ![b] = <<>>]
  /\ LET c == busy[b][1]
         fails == Cardinality(failed) < MaxFaults
     IN  \/ /\ data' = CASE c.fc = "erase" -> data \ {<<b, c.blk>>}
                         [] c.fc = "program" -> data \cup {<<b, c.blk>>}
                         [] OTHER -> data
            /\ UNCHANGED <<flags, failed>>
         \/ /\ fails
            /\ flags' = [flags EXCEPT ![b] = @ \cup {Flag(c.fc)}]
            /\ failed' = failed \cup {[fc |-> c.fc, bank |-> b, blk |-> c.blk,
                                       late |-> ~InTime(c), number |-> Cardinality(failed)]}
            /\ data' = IF c.fc = "program" THEN data \cup {<<b, c.blk>>} ELSE data
  /\ UNCHANGED <<loop, bad, erase_prog_fail, read_fail, wr>>

----------------------------------------------------------------------------
(* test_nand_blocks. *)

Issue(fc) == wr = <<>> /\ wr' = <<[fc |-> fc, bank |-> bank, blk |-> vblk]>>
\* MON_CHABANKIDLE is zero: then "Waiting Room is empty and all the banks are idle"
\* (flash_finish).
Idle == wr = <<>> /\ \A b \in Banks : busy[b] = <<>>

\* One turn of a loop over the banks, then next.
NextBank(next) == IF bank + 1 < NumBanks THEN bank' = bank + 1 /\ step' = step
                                         ELSE bank' = 0 /\ step' = next
\* Pages outside, banks inside.
NextPage(next) ==
  /\ NextBank(IF page + 1 < Pages THEN step ELSE next)
  /\ page' = IF bank + 1 < NumBanks THEN page ELSE (page + 1) % Pages

\* Step 2
EraseBlock ==
  /\ step = "erase" /\ Issue("erase")
  /\ NextBank("program")
  /\ UNCHANGED <<vblk, page, bad, erase_prog_fail, read_fail, hw>>

\* Step 3
WritePage ==
  /\ step = "program" /\ Issue("program")
  /\ NextPage("wait4")
  /\ UNCHANGED <<vblk, bad, erase_prog_fail, read_fail, hw>>

\* The wait at the start of steps 4 and 6.
WaitForBanks ==
  /\ step \in {"wait4", "wait6"} /\ Idle
  /\ step' = IF step = "wait4" THEN "check4" ELSE "check6"
  /\ bad' = IF step = "wait4" THEN {} ELSE bad
  /\ UNCHANGED <<vblk, page, bank, erase_prog_fail, read_fail, wr, hw>>

\* Slip: the flag that was found stays up.
Kept == flags
Cleared == [flags EXCEPT ![bank] = {}]              \* CLR_BSP_INTR(bank, 0xFF)

Check(flag, results) ==
  IF flag \in flags[bank]
  THEN /\ bad' = bad \cup {bank}
       /\ flags' = Cleared
       /\ results' = [results EXCEPT ![bank] = @ + 1]
  ELSE UNCHANGED <<bad, flags, results>>

\* Step 4
CheckEraseProgram ==
  /\ step = "check4"
  /\ Check("BADBLK", erase_prog_fail)
  /\ NextBank("read")
  /\ UNCHANGED <<vblk, page, read_fail, wr, busy, data, failed>>

\* Step 5
ReadPage ==
  /\ step = "read"
  /\ IF bank \in bad THEN UNCHANGED wr ELSE Issue("read")
  /\ NextPage("wait6")
  /\ UNCHANGED <<vblk, bad, erase_prog_fail, read_fail, hw>>

\* Step 6
CheckRead ==
  /\ step = "check6"
  /\ Check("CORRUPT", read_fail)
  /\ NextBank("clean")
  /\ UNCHANGED <<vblk, page, erase_prog_fail, wr, busy, data, failed>>

\* Step 7, whose failures nobody looks for.
EraseGood ==
  /\ step = "clean"
  /\ IF bank \in bad THEN UNCHANGED wr ELSE Issue("erase")
  /\ NextBank(IF vblk + 1 < VBlks THEN "erase" ELSE "done")
  /\ vblk' = IF bank + 1 = NumBanks THEN vblk + 1 ELSE vblk
  /\ UNCHANGED <<page, bad, erase_prog_fail, read_fail, hw>>

test_nand_blocks == EraseBlock \/ WritePage \/ WaitForBanks \/ CheckEraseProgram \/ ReadPage
                    \/ CheckRead \/ EraseGood
Next == Accept \/ (\E b \in Banks : Complete(b)) \/ test_nand_blocks

Spec == Init /\ [][Next]_vars

----------------------------------------------------------------------------
\* A block is charged with a failure of its own that came before the check, or with
\* that of an erase of step 7, which is not checked, of the block before it: only
\* these erases can fail unseen.  Every failure that came in time is charged; none
\* twice; and a block that is done with and holds data is one that was charged or
\* whose erase failed.
Failures(b, blk, late) == {f \in failed : f.bank = b /\ f.blk = blk /\ f.late = late}
Charged ==
  /\ \A b \in Banks :
       /\ step = "clean" =>
            /\ b \in bad => Failures(b, vblk, FALSE) # {} \/ Failures(b, vblk - 1, TRUE) # {}
            /\ Failures(b, vblk, FALSE) # {} => b \in bad
       /\ erase_prog_fail[b] + read_fail[b] <= Cardinality({f \in failed : f.bank = b})
  /\ \A f \in failed : f.late => f.fc = "erase"
  /\ step = "done" /\ Idle =>
       \A b \in Banks, k \in 1..VBlks - 1 :
         <<b, k>> \in data => \E f \in failed : f.bank = b /\ (f.blk = k \/ (f.blk = k - 1 /\ f.late))
=============================================================================
