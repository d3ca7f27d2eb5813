----------------------------- MODULE FlashPort ------------------------------
(***************************************************************************)
(* The command port of the flash controller: the FCP registers, the single *)
(* slot called Waiting Room (WR), the bank state machines, and the         *)
(* firmware routines of target_spw/flash.c that drive them by polling      *)
(* (flash_issue_cmd, flash_copy / flash_modify_copy / flash_erase,         *)
(* flash_finish, waitBusyBank) with the time-out recovery that resets a    *)
(* bank stuck in BANK_TAKE (flash_reset_one_bank).                         *)
(*                                                                         *)
(* One polling loop is one pc value: a spin that changes nothing is a      *)
(* stutter, leaving the loop is an action, and the 1 000 000th spin is a   *)
(* Timeout action, taken at any moment at which the code would reset.      *)
(* Only the main program issues flash commands (no interrupt handler       *)
(* does), so the firmware is a single thread that interleaves with the     *)
(* hardware actions Accept, Shift, Stick and Complete.                     *)
(***************************************************************************)
EXTENDS Integers, Sequences

CONSTANTS NumBanks,   \* NUM_BANKS
          MaxRequests \* bound: how many commands the caller asks for

ASSUME NumBanksAssumption == NumBanks \in Nat \ {0}
ASSUME MaxRequestsAssumption == MaxRequests \in Nat

Banks == 0 .. NumBanks - 1
Ids == 0 .. MaxRequests          \* 0 is the id of the recovery's own commands
Ops == {"NONE", "IO", "GENERIC", "WAIT"}
Commands == [op : Ops, id : Ids, bank : Banks]
NoCommand == [op |-> "NONE", id |-> 0, bank |-> 0]

\* RETURN_ON_ISSUE, RETURN_ON_ACCEPT, RETURN_WHEN_DONE; DIRECT for the routines that
\* poll and issue by themselves, DRAIN for flash_finish, BUSY for waitBusyBank.
Syncs == {"ISSUE", "ACCEPT", "DONE"}
Calls == [id : Ids, bank : Banks, sync : Syncs \cup {"DIRECT", "DRAIN", "BUSY"}, hit : BOOLEAN]

VARIABLES
  fcp,      \* the FCP registers, as the command they describe
  wr,       \* the command in Waiting Room, or NoCommand (WR_STAT bit 0 clear)
  fsm,      \* fsm[b]: _BSP_FSM(b), BANK_IDLE, BANK_TAKE or any other busy state
  run,      \* run[b]: the command bank b is executing, or NoCommand
  stuck,    \* banks that will never leave BANK_TAKE by themselves
  pc,       \* the polling loop the main program is in, "ready" between calls
  call,     \* the last call: its request, bank, sync and whether a reset hit it
  rst,      \* flash_reset_one_bank's bank and the loop it returns to
  requests, \* number of commands asked for so far
  issued,   \* ids that reached Waiting Room (history)
  done,     \* ids whose bank finished them (history)
  lost      \* ids dropped by a reset (history)

hw == <<wr, fsm, run, stuck>>
sw == <<fcp, pc, call, rst, requests>>
history == <<issued, done, lost>>
vars == <<fcp, wr, fsm, run, stuck, pc, call, rst, requests, issued, done, lost>>

InFlight == {wr.id} \cup {run[b].id : b \in Banks}

\* The poll of WR_STAT bit 0 (slip: the poll is left out).
NoPoll == TRUE
RoomEmpty == wr = NoCommand

\* MON_CHABANKIDLE = 0, when WR is empty (slip: only the bank of the call is looked at).
OwnBankIdle == fsm[call.bank] = "IDLE"
AllIdle == \A b \in Banks : fsm[b] = "IDLE"

\* The banks a recovery may choose from (slip: only the bank of the call).
OwnTakeBank == {b \in Banks : b = call.bank /\ fsm[b] = "TAKE"}
TakeBanks == {b \in Banks : fsm[b] = "TAKE"}

\* The first bank of a scan from 0 up (slip: the loop index read after its increment).
AfterFirstOf(S) == 1 + CHOOSE i \in S : \A j \in S : i <= j
FirstOf(S) == CHOOSE i \in S : \A j \in S : i <= j

\* The banks the PMU reset makes idle (slip: BANK_RESET of the one bank).
OneBank(i) == {i}
ResetBanks(i) == Banks

\* Waiting Room once WR_STAT has been written with ones (slip: the write is left out).
RoomKept == wr
RoomCleared == NoCommand

\* The state flash_reset leaves at boot: Waiting Room empty, every bank idle.
Init == /\ fcp = [op |-> "WAIT", id |-> 0, bank |-> NumBanks - 1]
        /\ wr = NoCommand
        /\ fsm = [b \in Banks |-> "IDLE"]
        /\ run = [b \in Banks |-> NoCommand]
        /\ stuck = {}
        /\ pc = "ready"
        /\ call = [id |-> 0, bank |-> 0, sync |-> "DRAIN", hit |-> FALSE]
        /\ rst = [bank |-> 0, back |-> "ready"]
        /\ requests = 0
        /\ issued = {} /\ done = {} /\ lost = {}

-----------------------------------------------------------------------------
(* The firmware's calls. *)

\* The caller has filled the FCP registers; the entry of the routine sets FCP_BANK.
Begin(b, sync, loop) ==
  /\ pc = "ready"
  /\ requests < MaxRequests
  /\ requests' = requests + 1
  /\ fcp' = [op |-> "IO", id |-> requests + 1, bank |-> b]
  /\ call' = [id |-> requests + 1, bank |-> b, sync |-> sync, hit |-> FALSE]
  /\ pc' = loop
  /\ UNCHANGED <<hw, rst, history>>

\* flash_issue_cmd(bank, sync)
IssueCmd(b, sync) == Begin(b, sync, "room")

\* flash_copy, flash_modify_copy, flash_erase: poll without recovery, issue, return.
DirectCmd(b) == Begin(b, "DIRECT", "direct")

\* flash_finish and waitBusyBank issue nothing.
Await(b, sync, loop) ==
  /\ pc = "ready"
  /\ call' = [id |-> 0, bank |-> b, sync |-> sync, hit |-> FALSE]
  /\ pc' = loop
  /\ UNCHANGED <<hw, fcp, rst, requests, history>>

FlashFinish == Await(0, "DRAIN", "drain")
WaitBusyBank(b) == Await(b, "BUSY", "busy_room")

\* SETREG(FCP_ISSUE): the FCP registers, whatever they hold by now, go to Waiting Room.
\* A request whose registers a reset has overwritten is never issued.
Latch == /\ wr' = fcp
         /\ issued' = issued \cup ({fcp.id} \ {0})
         /\ lost' = IF fcp.id = call.id THEN lost ELSE lost \cup {call.id}

LeaveRoom ==
  /\ pc \in {"room", "direct"}
  /\ RoomEmpty
  /\ Latch
  /\ pc' = IF call.sync \in {"ISSUE", "DIRECT"} THEN "ready" ELSE "accept"
  /\ UNCHANGED <<fcp, fsm, run, stuck, call, rst, requests, done>>

LeaveAccept ==
  /\ pc = "accept"
  /\ RoomEmpty
  /\ pc' = IF call.sync = "ACCEPT" THEN "ready" ELSE "idle"
  /\ UNCHANGED <<hw, fcp, call, rst, requests, history>>

\* The last loop of RETURN_WHEN_DONE, and of waitBusyBank.
LeaveIdle ==
  /\ pc \in {"idle", "busy_bank"}
  /\ fsm[call.bank] = "IDLE"
  /\ pc' = "ready"
  /\ UNCHANGED <<hw, fcp, call, rst, requests, history>>

LeaveBusyRoom ==
  /\ pc = "busy_room"
  /\ RoomEmpty
  /\ pc' = "busy_bank"
  /\ UNCHANGED <<hw, fcp, call, rst, requests, history>>

LeaveDrain ==
  /\ pc = "drain"
  /\ RoomEmpty /\ AllIdle
  /\ pc' = "ready"
  /\ UNCHANGED <<hw, fcp, call, rst, requests, history>>

-----------------------------------------------------------------------------
(* Recovery: flash_reset_one_bank, called from the loops of flash_issue_cmd. *)

\* PMU reset of the whole controller, WR_STAT cleared, and the FCP registers loaded
\* with the NAND reset for bank i.
StartReset(i) ==
  /\ wr' = RoomCleared
  /\ fsm' = [b \in Banks |-> IF b \in ResetBanks(i) THEN "IDLE" ELSE fsm[b]]
  /\ run' = [b \in Banks |-> IF b \in ResetBanks(i) THEN NoCommand ELSE run[b]]
  /\ stuck' = stuck \ ResetBanks(i)
  /\ lost' = lost \cup (InFlight \ {0})
  /\ fcp' = [op |-> "GENERIC", id |-> 0, bank |-> i]
  /\ rst' = [bank |-> i, back |-> pc]
  /\ call' = [call EXCEPT !.hit = TRUE]
  /\ pc' = "rst_generic"
  /\ UNCHANGED <<requests, issued, done>>

\* Waiting Room stays full for 1 000 000 polls: reset the first bank in BANK_TAKE, if any.
TimeoutRoom ==
  /\ pc \in {"room", "accept"}
  /\ ~RoomEmpty
  /\ TakeBanks # {}
  /\ StartReset(FirstOf(TakeBanks))

\* The target bank stays in BANK_TAKE for 1 000 000 polls: reset it.
TimeoutIdle ==
  /\ pc = "idle"
  /\ fsm[call.bank] = "TAKE"
  /\ StartReset(call.bank)

\* flash_issue_cmd(bank, RETURN_ON_ISSUE) of FC_GENERIC 0xFF, then FCP_CMD = FC_WAIT.
ResetGeneric ==
  /\ pc = "rst_generic"
  /\ RoomEmpty
  /\ wr' = fcp
  /\ fcp' = [fcp EXCEPT !.op = "WAIT"]
  /\ pc' = "rst_wait"
  /\ UNCHANGED <<fsm, run, stuck, call, rst, requests, history>>

ResetWait ==
  /\ pc = "rst_wait"
  /\ RoomEmpty
  /\ wr' = fcp
  /\ pc' = "rst_finish"
  /\ UNCHANGED <<fcp, fsm, run, stuck, call, rst, requests, history>>

\* flash_finish, flash_clear_irq, back to the loop that timed out.
ResetFinish ==
  /\ pc = "rst_finish"
  /\ RoomEmpty /\ AllIdle
  /\ pc' = rst.back
  /\ UNCHANGED <<hw, fcp, call, rst, requests, history>>

-----------------------------------------------------------------------------
(* The controller. *)

\* The target bank takes the command out of Waiting Room.
Accept ==
  /\ wr # NoCommand
  /\ fsm[wr.bank] = "IDLE"
  /\ run' = [run EXCEPT ![wr.bank] = wr]
  /\ \E s \in {"TAKE", "BUSY"} : fsm' = [fsm EXCEPT ![wr.bank] = s]
  /\ wr' = NoCommand
  /\ UNCHANGED <<sw, stuck, history>>

\* The bank moves between BANK_TAKE and its other busy states.
Shift(b) ==
  /\ fsm[b] # "IDLE" /\ b \notin stuck
  /\ fsm' = [fsm EXCEPT ![b] = IF @ = "TAKE" THEN "BUSY" ELSE "TAKE"]
  /\ UNCHANGED <<sw, wr, run, stuck, history>>

\* The fault the recovery exists for; the NAND reset command itself does not meet it.
Stick(b) ==
  /\ fsm[b] = "TAKE" /\ b \notin stuck /\ run[b].op = "IO"
  /\ stuck' = stuck \cup {b}
  /\ UNCHANGED <<sw, wr, fsm, run, history>>

Complete(b) ==
  /\ fsm[b] # "IDLE" /\ b \notin stuck
  /\ fsm' = [fsm EXCEPT ![b] = "IDLE"]
  /\ run' = [run EXCEPT ![b] = NoCommand]
  /\ done' = done \cup ({run[b].id} \ {0})
  /\ UNCHANGED <<sw, wr, stuck, issued, lost>>

-----------------------------------------------------------------------------
Polling == \/ LeaveRoom \/ LeaveAccept \/ LeaveIdle \/ LeaveBusyRoom \/ LeaveDrain
           \/ TimeoutRoom \/ TimeoutIdle
           \/ ResetGeneric \/ ResetWait \/ ResetFinish

Next == \/ \E b \in Banks, sync \in Syncs : IssueCmd(b, sync)
        \/ \E b \in Banks : DirectCmd(b)
        \/ FlashFinish
        \/ \E b \in Banks : WaitBusyBank(b)
        \/ Polling
        \/ Accept
        \/ \E b \in Banks : Shift(b)
        \/ \E b \in Banks : Stick(b)
        \/ \E b \in Banks : Complete(b)

\* The main program keeps polling, Waiting Room feeds an idle bank, and a bank that is
\* not stuck finishes.  Nothing forces the caller to make another call.
Fairness == /\ WF_vars(Polling)
            /\ WF_vars(Accept)
            /\ \A b \in Banks : WF_vars(Complete(b))

Spec == Init /\ [][Next]_vars
FairSpec == Spec /\ Fairness

-----------------------------------------------------------------------------
(* Properties. *)

\* Types of the registers, the loops and the history.
TypeOK ==
  /\ fcp \in Commands
  /\ wr \in Commands
  /\ fsm \in [Banks -> {"IDLE", "TAKE", "BUSY"}]
  /\ run \in [Banks -> Commands]
  /\ stuck \subseteq Banks
  /\ pc \in {"ready", "room", "direct", "accept", "idle", "drain", "busy_room", "busy_bank",
             "rst_generic", "rst_wait", "rst_finish"}
  /\ call \in Calls
  /\ rst \in [bank : Banks, back : {"ready", "room", "accept", "idle"}]
  /\ requests \in Ids
  /\ issued \subseteq Ids /\ done \subseteq Ids /\ lost \subseteq Ids

\* flash.c:95 "You should not issue a new command when Waiting Room is not empty": no
\* step of any routine, recovery included, overwrites a command that is still waiting.
RoomNeverOverwritten == [][wr # NoCommand => wr' \in {wr, NoCommand}]_vars

\* What a call has established when it returns, whatever happened before or beside it:
\* RETURN_WHEN_DONE means the bank ran the command and RETURN_ON_ACCEPT that it left
\* Waiting Room (unless a reset hit the call, when the command may be lost instead),
\* flash_finish means every command ever issued is finished or was lost to a reset, and
\* waitBusyBank that its bank has nothing left.
SyncContract ==
  pc = "ready" =>
    CASE call.sync = "DONE"   -> call.id \in done \/ (call.hit /\ call.id \in lost)
      [] call.sync = "ACCEPT" -> wr = NoCommand
      [] call.sync = "DRAIN"  -> issued \subseteq done \cup lost
      [] call.sync = "BUSY"   -> run[call.bank] = NoCommand /\ wr = NoCommand
      [] OTHER                -> TRUE

\* flash_reset_one_bank calls flash_issue_cmd, whose loops may call it again: they never
\* do, because no bank is in BANK_TAKE while a loop of the reset finds Waiting Room full.
\* The recursion is one level deep and the stack is bounded.
RecoveryNeverNests ==
  pc \in {"rst_generic", "rst_wait"} /\ wr # NoCommand => TakeBanks = {}

\* The controller is a FIFO per bank with one shared waiting place: FlashQueue.
Queue(b) == (IF run[b] = NoCommand THEN <<>> ELSE <<run[b].id>>)
            \o (IF wr # NoCommand /\ wr.bank = b THEN <<wr.id>> ELSE <<>>)

Abstract == INSTANCE FlashQueue WITH queue <- [b \in Banks |-> Queue(b)], finished <- done

ImplementsQueue == Abstract!Spec

\* Every flash_issue_cmd returns, stuck banks included: the recovery gives it a way out
\* of each of its loops.
IssueCmdReturns == pc \in {"room", "accept", "idle"} ~> pc = "ready"

\* flash.c:189 "wait until the target bank finishes the command": a call with
\* RETURN_WHEN_DONE returns only when the bank has run the caller's command.
DoneMeansDone == pc = "ready" /\ call.sync = "DONE" => call.id \in done
=============================================================================
