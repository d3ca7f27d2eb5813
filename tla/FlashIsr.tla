------------------------------ MODULE FlashIsr ------------------------------
(***************************************************************************)
(* Bank interrupts: the banks raise sticky flags when a command fails, the *)
(* interrupt controller latches INTR_FLASH, irq_handler calls ftl_isr, and *)
(* ftl_isr tells the main program through g_bsp_isr_flag.  The main        *)
(* program is ftl_open: format erases the blocks it will use one by one    *)
(* and skips those ftl_isr reports; after it, the FTL issues commands that *)
(* it does not wait for.                                                   *)
(*                                                                         *)
(* Assumption on the hardware: a bank that fails goes idle and raises its  *)
(* interrupt in one step, and the processor takes a pending interrupt      *)
(* before its next instruction (the main program's actions ask for ~irq).  *)
(***************************************************************************)
EXTENDS Integers, Sequences, FiniteSets

CONSTANTS NumBanks,  \* NUM_BANKS
          VBlks,     \* VBLKS_PER_BANK
          LogBlks,   \* LOG_BLK_PER_BANK
          MaxServed  \* bound: commands issued after format

ASSUME SizesAssumption == /\ NumBanks \in Nat \ {0}
                          /\ VBlks \in Nat \ {0} /\ LogBlks \in Nat \ {0}
                          /\ MaxServed \in Nat

Banks == 0 .. NumBanks - 1
Blocks == 0 .. VBlks - 1
INVALID == VBlks                     \* INVALID: no block has this number
Flags == {"BADBLK", "CORRUPT"}       \* FIRQ_BADBLK_L/H and FIRQ_DATA_CORRUPT
Commands == [fc : {"ERASE", "PROG", "READ"}, blk : Blocks]
NoCommand == [fc |-> "NONE", blk |-> 0]

VARIABLES
  bad,     \* the blocks whose erase fails (never changes)
  wr,      \* Waiting Room: <<>> or <<bank, command>>
  busy,    \* busy[b]: BSP_FSM(b) is not BANK_IDLE
  bsp,     \* bsp[b]: BSP_CMD(b) and the block of BSP_ROW_H(b), the last command b took
  flags,   \* flags[b]: BSP_INTR(b)
  failed,  \* failed[b]: the block of the last command of b that failed (history)
  irq,     \* APB_INT_STS has INTR_FLASH
  isr,     \* where ftl_isr is: its step, loop variable, and the flags and code it has read
  isrFlag, \* g_bsp_isr_flag
  pc, bank, vblock, lbn, \* the main program: its step and format's variables
  used,    \* used[b]: the blocks format decided to use, in order
  served,  \* number of commands issued after format
  stuck,   \* the banks stuck in BANK_TAKE
  pause    \* FCONF_PAUSE is set

hw == <<wr, busy, bsp, flags, failed>>
main == <<pc, bank, vblock, lbn, used, served>>
still == <<bad, stuck, pause>>
vars == <<still, hw, irq, isr, isrFlag, main>>

\* ftl_open up to format: flash_clear_irq, FCONF_PAUSE and INTR_MASK set, interrupts enabled.
Init == /\ bad \in SUBSET (Banks \X Blocks)
        /\ wr = <<>>
        /\ busy = [b \in Banks |-> FALSE]
        /\ bsp = [b \in Banks |-> NoCommand]
        /\ flags = [b \in Banks |-> {}]
        /\ failed = [b \in Banks |-> INVALID]
        /\ irq = FALSE
        /\ isr = [at |-> "out", bank |-> 0, seen |-> {}, fc |-> "NONE"]
        /\ isrFlag = [b \in Banks |-> 0]
        /\ pc = "erase0" /\ bank = 0 /\ vblock = 0 /\ lbn = 0
        /\ used = [b \in Banks |-> <<>>]
        /\ served = 0
        /\ stuck = {} /\ pause = TRUE

-----------------------------------------------------------------------------
(* The controller. *)

\* A bank with a flag of FCONF_PAUSE up takes no new command.
Accept ==
  /\ wr # <<>>
  /\ LET b == wr[1] IN
       /\ ~busy[b] /\ (pause => flags[b] = {})
       /\ busy' = [busy EXCEPT ![b] = TRUE]
       /\ bsp' = [bsp EXCEPT ![b] = wr[2]]
  /\ wr' = <<>>
  /\ UNCHANGED <<still, flags, failed, irq, isr, isrFlag, main>>

\* What a command may end with: the erase of a bad block fails, a program may find a
\* run-time bad block, a read may find data it cannot correct.
Outcomes(b) ==
  CASE bsp[b].fc = "ERASE" -> IF <<b, bsp[b].blk>> \in bad THEN {{"BADBLK"}} ELSE {{}}
    [] bsp[b].fc = "PROG"  -> {{}, {"BADBLK"}}
    [] OTHER               -> {{}, {"CORRUPT"}}

Complete(b) ==
  /\ busy[b] /\ b \notin stuck
  /\ busy' = [busy EXCEPT ![b] = FALSE]
  /\ \E f \in Outcomes(b) :
       /\ flags' = [flags EXCEPT ![b] = @ \cup f]
       /\ irq' = (irq \/ f # {})
       /\ failed' = IF f = {} THEN failed ELSE [failed EXCEPT ![b] = bsp[b].blk]
  /\ UNCHANGED <<still, wr, bsp, isr, isrFlag, main>>

\* A bank may get stuck (in these runs: one at a time, and after format).
Stick(b) ==
  /\ pc = "serve" /\ stuck = {} /\ busy[b]
  /\ stuck' = {b}
  /\ UNCHANGED <<bad, pause, hw, irq, isr, isrFlag, main>>

-----------------------------------------------------------------------------
(* ftl_isr, called by irq_handler. *)

IsrEnter ==
  /\ irq /\ isr.at = "out"
  /\ irq' = FALSE                                     \* APB_INT_STS is cleared first
  /\ isr' = [isr EXCEPT !.at = "scan", !.bank = 0]
  /\ UNCHANGED <<still, hw, isrFlag, main>>

\* Slip: the handler waits like flash_finish, for Waiting Room too.
IsrScanFinish ==
  /\ isr.at = "scan" /\ isr.bank < NumBanks
  /\ ~busy[isr.bank] /\ wr = <<>>
  /\ isr' = IF flags[isr.bank] = {}
            THEN [isr EXCEPT !.bank = @ + 1]
            ELSE [isr EXCEPT !.at = "clear", !.seen = flags[isr.bank], !.fc = bsp[isr.bank].fc]
  /\ UNCHANGED <<still, hw, irq, isrFlag, main>>

\* Wait for the bank, then read its flags and the code of its command.
IsrScan ==
  /\ isr.at = "scan" /\ isr.bank < NumBanks
  /\ ~busy[isr.bank]
  /\ isr' = IF flags[isr.bank] = {}
            THEN [isr EXCEPT !.bank = @ + 1]
            ELSE [isr EXCEPT !.at = "clear", !.seen = flags[isr.bank], !.fc = bsp[isr.bank].fc]
  /\ UNCHANGED <<still, hw, irq, isrFlag, main>>

\* CLR_BSP_INTR (slip: the flags are acknowledged at the interrupt controller only).
FlagsKept(b) == flags[b]
FlagsCleared(b) == flags[b] \ isr.seen

IsrClear ==
  /\ isr.at = "clear"
  /\ flags' = [flags EXCEPT ![isr.bank] = FlagsCleared(isr.bank)]
  /\ isr' = [isr EXCEPT !.at = "report"]
  /\ UNCHANGED <<still, wr, busy, bsp, failed, irq, isrFlag, main>>

\* The block comes from BSP_ROW_H, which is read after the flags were cleared.
IsrReport ==
  /\ isr.at = "report"
  /\ LET b == isr.bank
         afterRead == IF "CORRUPT" \in isr.seen THEN INVALID ELSE isrFlag[b]
     IN isrFlag' = [isrFlag EXCEPT ![b] =
                      IF "BADBLK" \in isr.seen /\ isr.fc = "ERASE" THEN bsp[b].blk ELSE afterRead]
  /\ isr' = [isr EXCEPT !.at = "scan", !.bank = @ + 1]
  /\ UNCHANGED <<still, hw, irq, main>>

\* Slip: the interrupt controller is cleared once more on the way out.
IsrLeaveClearing ==
  /\ isr.at = "scan" /\ isr.bank = NumBanks
  /\ isr' = [isr EXCEPT !.at = "out"]
  /\ irq' = FALSE
  /\ UNCHANGED <<still, hw, isrFlag, main>>

IsrLeave ==
  /\ isr.at = "scan" /\ isr.bank = NumBanks
  /\ isr' = [isr EXCEPT !.at = "out"]
  /\ UNCHANGED <<still, hw, irq, isrFlag, main>>

-----------------------------------------------------------------------------
(* format, and the FTL after it. *)

MainRuns == ~irq /\ isr.at = "out"

\* flash_issue_cmd up to FCP_ISSUE.
Issue(b, c) == wr = <<>> /\ wr' = <<b, c>>

Erase(blk) == [fc |-> "ERASE", blk |-> blk]

\* The end of nand_block_erase_sync (RETURN_WHEN_DONE).
EraseDone == wr = <<>> /\ ~busy[bank]

FormatErase0 ==
  /\ MainRuns /\ pc = "erase0"
  /\ Issue(bank, Erase(0))
  /\ pc' = "wait0"
  /\ UNCHANGED <<still, busy, bsp, flags, failed, irq, isr, isrFlag, bank, vblock, lbn, used, served>>

FormatStart ==
  /\ MainRuns /\ pc = "wait0" /\ EraseDone
  /\ isrFlag' = [isrFlag EXCEPT ![bank] = INVALID]
  /\ vblock' = 0 /\ lbn' = 0
  /\ pc' = "loop"
  /\ UNCHANGED <<still, hw, irq, isr, bank, used, served>>

\* One more block, if one is wanted and one is left (slips: the last block is not tried, or
\* one after the last is).
OneLeft == vblock + 2 < VBlks
OneTooMany == vblock + 1 <= VBlks
BlockLeft == vblock + 1 < VBlks

FormatErase ==
  /\ MainRuns /\ pc = "loop" /\ lbn < LogBlks
  /\ vblock' = vblock + 1
  /\ IF BlockLeft
     THEN Issue(bank, Erase(vblock + 1)) /\ pc' = "wait"
     ELSE UNCHANGED wr /\ pc' = "verdict"
  /\ UNCHANGED <<still, busy, bsp, flags, failed, irq, isr, isrFlag, bank, lbn, used, served>>

\* The flag of a skipped block (slip: it stays for the next block).
StaleFlag == isrFlag[bank]
ResetFlag == INVALID

FormatCheck ==
  /\ MainRuns /\ pc = "wait" /\ EraseDone
  /\ IF isrFlag[bank] # INVALID
     THEN /\ isrFlag' = [isrFlag EXCEPT ![bank] = ResetFlag]
          /\ UNCHANGED <<lbn, used>>
     ELSE /\ used' = [used EXCEPT ![bank] = Append(@, vblock)]
          /\ lbn' = lbn + 1
          /\ UNCHANGED isrFlag
  /\ pc' = "loop"
  /\ UNCHANGED <<still, hw, irq, isr, bank, vblock, served>>

\* The end of a bank: too few blocks stop the drive, else the next bank or the end.
FormatVerdict ==
  /\ MainRuns
  /\ pc = "verdict" \/ (pc = "loop" /\ lbn >= LogBlks)
  /\ IF lbn < LogBlks THEN pc' = "error" /\ UNCHANGED bank
     ELSE IF bank + 1 < NumBanks THEN pc' = "erase0" /\ bank' = bank + 1
     ELSE pc' = "serve" /\ UNCHANGED bank
  /\ UNCHANGED <<still, hw, irq, isr, isrFlag, vblock, lbn, used, served>>

\* After ftl_open the FTL issues commands with RETURN_ON_ISSUE.
Serve(b, c) ==
  /\ MainRuns /\ pc = "serve" /\ served < MaxServed
  /\ Issue(b, c)
  /\ served' = served + 1
  /\ UNCHANGED <<still, busy, bsp, flags, failed, irq, isr, isrFlag, pc, bank, vblock, lbn, used>>

\* The call finds Waiting Room or its bank busy for too long and a bank in BANK_TAKE:
\* flash_reset_one_bank.  The controller's reset ends every command (FlashPort has the
\* steps), and its last act clears all flags.  Whether the reset also clears
\* FCONF_PAUSE, which nobody sets again, the repository does not say.
Recover(b) ==
  /\ MainRuns /\ pc = "serve" /\ served < MaxServed
  /\ stuck # {} /\ (wr # <<>> \/ b \in stuck)
  /\ served' = served + 1
  /\ stuck' = {} /\ wr' = <<>>
  /\ busy' = [c \in Banks |-> FALSE]
  /\ flags' = [c \in Banks |-> {}]
  /\ irq' = FALSE
  /\ pause' \in {pause, FALSE}
  /\ UNCHANGED <<bad, bsp, failed, isr, isrFlag, pc, bank, vblock, lbn, used>>

-----------------------------------------------------------------------------
Isr == IsrEnter \/ IsrScan \/ IsrClear \/ IsrReport \/ IsrLeave
Format == FormatErase0 \/ FormatStart \/ FormatErase \/ FormatCheck \/ FormatVerdict

Next == \/ Accept
        \/ \E b \in Banks : Complete(b) \/ Stick(b) \/ Recover(b)
        \/ Isr
        \/ Format
        \/ \E b \in Banks, c \in Commands : Serve(b, c)

\* The banks work, the processor runs the interrupt handler and format.
Fairness == /\ WF_vars(Accept) /\ \A b \in Banks : WF_vars(Complete(b))
            /\ WF_vars(Isr) /\ WF_vars(Format)

Spec == Init /\ [][Next]_vars
FairSpec == Spec /\ Fairness

-----------------------------------------------------------------------------
(* Properties. *)

\* Types of the hardware registers, the handler and format's variables.
TypeOK ==
  /\ bad \subseteq Banks \X Blocks
  /\ wr = <<>> \/ wr \in Banks \X Commands
  /\ busy \in [Banks -> BOOLEAN]
  /\ bsp \in [Banks -> Commands \cup {NoCommand}]
  /\ flags \in [Banks -> SUBSET Flags]
  /\ failed \in [Banks -> Blocks \cup {INVALID}]
  /\ irq \in BOOLEAN
  /\ isr \in [at : {"out", "scan", "clear", "report"}, bank : 0 .. NumBanks,
              seen : SUBSET Flags, fc : {"NONE", "ERASE", "PROG", "READ"}]
  /\ isrFlag \in [Banks -> Blocks \cup {INVALID}]
  /\ pc \in {"erase0", "wait0", "loop", "wait", "verdict", "error", "serve"}
  /\ bank \in Banks /\ vblock \in 0 .. VBlks /\ lbn \in 0 .. LogBlks
  /\ used \in [Banks -> Seq(Blocks)]
  /\ served \in 0 .. MaxServed
  /\ stuck \subseteq Banks /\ pause \in BOOLEAN

Good(b) == {k \in Blocks \ {0} : <<b, k>> \notin bad}
UsedSet(b) == {used[b][i] : i \in 1 .. Len(used[b])}
Finished(b) == bank > b \/ pc = "serve"

\* format uses the first LOG_BLK_PER_BANK blocks after block 0 whose erase succeeded, one
\* failed erase costing exactly its own block, and stops the drive only when a bank does
\* not have that many.
FormatExact ==
  /\ \A b \in Banks :
       /\ UsedSet(b) \subseteq Good(b)
       /\ \A k \in UsedSet(b), j \in Good(b) : j < k => j \in UsedSet(b)
       /\ Cardinality(UsedSet(b)) = Len(used[b])
       /\ Finished(b) => Len(used[b]) = LogBlks
  /\ pc = "error" => Cardinality(Good(bank)) < LogBlks

\* Outside ftl_isr a bank with a flag up has its interrupt pending.  A flag raised while
\* the handler runs, on a bank it has passed, brings it back: nothing is lost.  So a
\* recovery, which wipes all flags and starts with no interrupt pending, wipes none.
NoInterruptLost == isr.at = "out" /\ ~irq => \A b \in Banks : flags[b] = {}

\* While format runs, what ftl_isr reports is the block whose erase failed.
FormatBlame == \A b \in Banks : pc \in {"loop", "wait"} /\ b = bank /\ isrFlag[b] # INVALID =>
                                   isrFlag[b] = failed[b] /\ <<b, isrFlag[b]>> \in bad

\* format ends, with every bank formatted or in its error loop: the handler releases
\* every paused bank, so no erase waits for ever.
FormatEnds == <>(pc \in {"serve", "error"})

\* ftl_isr, which waits for each bank with interrupts off, comes to its end unless a
\* bank is stuck (the program that would recover it does not run): also when a command
\* waits in Waiting Room for a bank that pauses until the handler clears its flags.
IsrReturns == isr.at # "out" ~> (isr.at = "out" \/ stuck # {})

\* The message of ftl.c:174-177 names the block "find runtime bad block when block
\* erase": the block in g_bsp_isr_flag is one whose erase failed.
BlameIsBad == \A b \in Banks : pc = "serve" /\ isrFlag[b] # INVALID => <<b, isrFlag[b]>> \in bad
=============================================================================
