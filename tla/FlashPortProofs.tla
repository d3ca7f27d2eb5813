-------------------------- MODULE FlashPortProofs ---------------------------
(***************************************************************************)
(* Proofs about FlashPort, for any number of banks and of requests: the    *)
(* type invariant, that Waiting Room is never overwritten, what a call has *)
(* established when it returns, and that the recovery never nests.         *)
(*                                                                         *)
(* The contract of a call is about the state in which it returns, so it is *)
(* not inductive.  CallInv says where the command of the call is while the *)
(* call is still in one of its loops, and FlowInv which calls can be in    *)
(* which loop.                                                             *)
(***************************************************************************)
EXTENDS FlashPort, WellFoundedInduction, TLAPS

Resetting == pc \in {"rst_generic", "rst_wait", "rst_finish"}

\* The loop of the call, seen through a reset that interrupted it.
Loop == IF Resetting THEN rst.back ELSE pc

\* An issued command is finished, lost, waiting or running.
Accounted(x) == /\ x # 0
                /\ \/ x \in done \cup lost
                   \/ wr.id = x
                   \/ \E b \in Banks : run[b].id = x

\* A bank is idle exactly when it runs nothing, and what it runs was sent to it.
HwInv == /\ \A b \in Banks : fsm[b] = "IDLE" <=> run[b] = NoCommand
         /\ \A b \in Banks : run[b] # NoCommand => run[b].bank = b
         /\ fcp.op # "NONE"
         /\ \A x \in issued : Accounted(x)

\* Which calls are in which loop, and what the FCP registers hold there.
FlowInv ==
  /\ Loop \in {"room", "direct", "accept", "idle"} => call.id # 0
  /\ Loop = "room" => call.sync \in Syncs
  /\ Loop = "direct" => call.sync = "DIRECT"
  /\ Loop = "accept" => call.sync \in {"ACCEPT", "DONE"}
  /\ Loop = "idle" => call.sync = "DONE"
  /\ Loop = "drain" => call.sync = "DRAIN"
  /\ Loop \in {"busy_room", "busy_bank"} => call.sync = "BUSY"
  /\ pc = "busy_bank" => wr = NoCommand
  /\ pc \in {"room", "direct"} /\ ~call.hit =>
       fcp = [op |-> "IO", id |-> call.id, bank |-> call.bank]
  /\ pc = "room" /\ call.hit => fcp.id = 0
  /\ pc = "direct" => ~call.hit
  /\ Resetting => /\ call.hit /\ fcp.id = 0
                  /\ rst.back \in {"room", "accept", "idle"}

\* The command of a call that went past its issue.
Settled == call.id \in done \/ (call.hit /\ call.id \in lost)
Traced == Settled \/ run[call.bank].id = call.id
CallInv ==
  /\ pc = "accept" => Traced \/ (wr.id = call.id /\ wr.bank = call.bank)
  /\ pc = "idle" => Traced
  /\ Resetting /\ rst.back \in {"accept", "idle"} => Settled

\* What the reset has done so far.
ResetInv == /\ pc = "rst_generic" => wr = NoCommand /\ AllIdle
            /\ pc = "rst_wait" /\ wr # NoCommand => AllIdle

IInv == TypeOK /\ HwInv /\ FlowInv /\ CallInv /\ ResetInv /\ SyncContract


-----------------------------------------------------------------------------
\* The scan of the recovery finds a bank: a non-empty set of bank numbers has a first.
LEMMA FirstOfTakeBanks ==
  ASSUME TypeOK, TakeBanks # {}
  PROVE  FirstOf(TakeBanks) \in TakeBanks
<1> DEFINE R == OpToRel(<, Nat)
<1>1. TakeBanks \subseteq Nat
  BY NumBanksAssumption DEF TakeBanks, Banks
<1>2. IsWellFoundedOn(R, Nat)
  BY NatLessThanWellFounded, Zenon
<1>3. PICK x \in TakeBanks : \A y \in TakeBanks : ~ (<<y, x>> \in R)
  <2> HIDE DEF R
  <2> QED BY <1>1, <1>2, WFMin, Zenon
<1>4. \A y \in TakeBanks : ~ (y < x)
  BY <1>1, <1>3 DEF OpToRel
<1>5. \A y \in TakeBanks : x <= y
  BY <1>1, <1>4
<1>6. QED
  BY <1>5 DEF FirstOf

LEMMA ConstantFacts == /\ 0 \in Banks /\ NumBanks - 1 \in Banks /\ 0 \in Ids
                       /\ NoCommand \in Commands
                       /\ Banks \subseteq Nat
BY NumBanksAssumption, MaxRequestsAssumption DEF Banks, Ids, NoCommand, Commands, Ops

-----------------------------------------------------------------------------
\* Every step keeps the types.
LEMMA TypeInit == Init => TypeOK
BY ConstantFacts DEF Init, TypeOK, Commands, Ops, Calls

LEMMA ResetKeepsTypes ==
  ASSUME TypeOK, NEW i \in Banks, pc \in {"room", "accept", "idle"}, StartReset(i)
  PROVE  TypeOK'
<1>1. InFlight \subseteq Ids
  BY DEF TypeOK, InFlight, Commands
<1>2. fcp' \in Commands /\ call' \in Calls
  BY ConstantFacts DEF TypeOK, StartReset, Commands, Ops, Calls
<1>3. fsm' \in [Banks -> {"IDLE", "TAKE", "BUSY"}] /\ run' \in [Banks -> Commands]
  BY ConstantFacts DEF TypeOK, StartReset, ResetBanks
<1>4. QED
  BY <1>1, <1>2, <1>3, ConstantFacts DEF TypeOK, StartReset, ResetBanks, RoomCleared

LEMMA TypeStep == TypeOK /\ [Next]_vars => TypeOK'
<1> SUFFICES ASSUME TypeOK, [Next]_vars PROVE TypeOK'
  OBVIOUS
<1> USE ConstantFacts
<1>1. ASSUME NEW b \in Banks, NEW sync \in Syncs, IssueCmd(b, sync) PROVE TypeOK'
  BY <1>1, MaxRequestsAssumption
     DEF TypeOK, IssueCmd, Begin, hw, history, Commands, Ops, Calls, Syncs, Ids
<1>2. ASSUME NEW b \in Banks, DirectCmd(b) PROVE TypeOK'
  BY <1>2, MaxRequestsAssumption
     DEF TypeOK, DirectCmd, Begin, hw, history, Commands, Ops, Calls, Ids
<1>3. CASE FlashFinish
  BY <1>3 DEF TypeOK, FlashFinish, Await, hw, history, Calls
<1>4. ASSUME NEW b \in Banks, WaitBusyBank(b) PROVE TypeOK'
  BY <1>4 DEF TypeOK, WaitBusyBank, Await, hw, history, Calls
<1>5. CASE LeaveRoom
  BY <1>5 DEF TypeOK, LeaveRoom, Latch, Commands, Calls
<1>6. CASE LeaveAccept \/ LeaveIdle \/ LeaveBusyRoom \/ LeaveDrain \/ ResetFinish
  BY <1>6 DEF TypeOK, LeaveAccept, LeaveIdle, LeaveBusyRoom, LeaveDrain, ResetFinish, hw, history
<1>7. CASE TimeoutRoom
  BY <1>7, FirstOfTakeBanks, ResetKeepsTypes DEF TimeoutRoom, TakeBanks
<1>8. CASE TimeoutIdle
  BY <1>8, ResetKeepsTypes DEF TimeoutIdle, TypeOK, Calls
<1>9. CASE ResetGeneric \/ ResetWait
  BY <1>9 DEF TypeOK, ResetGeneric, ResetWait, Commands, Ops, history
<1>10. CASE Accept
  BY <1>10 DEF TypeOK, Accept, sw, history
<1>11. ASSUME NEW b \in Banks, Shift(b) \/ Stick(b) PROVE TypeOK'
  BY <1>11 DEF TypeOK, Shift, Stick, sw, history
<1>12. ASSUME NEW b \in Banks, Complete(b) PROVE TypeOK'
  BY <1>12 DEF TypeOK, Complete, sw, Commands
<1>13. CASE UNCHANGED vars
  BY <1>13 DEF TypeOK, vars
<1>14. QED
  BY <1>1, <1>2, <1>3, <1>4, <1>5, <1>6, <1>7, <1>8, <1>9, <1>10, <1>11, <1>12, <1>13
     DEF Next, Polling

\* FlashPort's registers, loops and history keep their types.
THEOREM TypeCorrect == Spec => []TypeOK
<1>1. QED BY TypeInit, TypeStep, PTL DEF Spec

-----------------------------------------------------------------------------
\* No routine, recovery included, overwrites a command that waits (flash.c:95).
THEOREM RoomSafe == Spec => RoomNeverOverwritten
<1>1. [Next]_vars => [wr # NoCommand => wr' \in {wr, NoCommand}]_vars
  BY DEF Next, vars, IssueCmd, DirectCmd, Begin, FlashFinish, WaitBusyBank, Await, Polling,
         LeaveRoom, LeaveAccept, LeaveIdle, LeaveBusyRoom, LeaveDrain, TimeoutRoom, TimeoutIdle,
         StartReset, RoomCleared, ResetGeneric, ResetWait, ResetFinish, Accept, Shift, Stick,
         Complete, RoomEmpty, hw, sw, history
<1>2. QED BY <1>1, PTL DEF Spec, RoomNeverOverwritten

-----------------------------------------------------------------------------
\* The inductive invariant holds initially.
LEMMA InvInit == Init => IInv
<1> SUFFICES ASSUME Init PROVE IInv
  OBVIOUS
<1> USE ConstantFacts DEF Init
<1>1. TypeOK
  BY TypeInit
<1>2. HwInv
  BY DEF HwInv, Accounted
<1>3. FlowInv /\ CallInv /\ ResetInv
  BY DEF FlowInv, CallInv, ResetInv, Loop, Resetting
<1>4. SyncContract
  BY DEF SyncContract
<1>5. QED
  BY <1>1, <1>2, <1>3, <1>4 DEF IInv

\* A call that issues a command starts.
LEMMA BeginInv ==
  ASSUME IInv, NEW b \in Banks, NEW sync \in Syncs \cup {"DIRECT"},
         NEW loop \in {"room", "direct"}, (loop = "direct") <=> (sync = "DIRECT"),
         Begin(b, sync, loop)
  PROVE  HwInv' /\ FlowInv' /\ CallInv' /\ ResetInv' /\ SyncContract'
<1> USE ConstantFacts DEF IInv, Begin, Syncs, RoomEmpty, hw, sw, history
<1>1. HwInv'
  BY DEF HwInv, Accounted
<1>2. FlowInv'
  BY MaxRequestsAssumption DEF Ids, TypeOK, FlowInv, Loop, Resetting
<1>3. CallInv'
  BY DEF CallInv, Resetting
<1>4. ResetInv'
  BY DEF ResetInv
<1>5. SyncContract'
  BY DEF SyncContract
<1>6. QED BY <1>1, <1>2, <1>3, <1>4, <1>5

\* A call that only waits starts.
LEMMA AwaitInv ==
  ASSUME IInv, NEW b \in Banks, NEW sync, NEW loop,
         <<sync, loop>> \in {<<"DRAIN", "drain">>, <<"BUSY", "busy_room">>},
         Await(b, sync, loop)
  PROVE  HwInv' /\ FlowInv' /\ CallInv' /\ ResetInv' /\ SyncContract'
<1> USE ConstantFacts DEF IInv, Await, RoomEmpty, hw, sw, history
<1>1. HwInv'
  BY DEF HwInv, Accounted
<1>2. FlowInv'
  BY DEF FlowInv, Loop, Resetting
<1>3. CallInv'
  BY DEF CallInv, Resetting
<1>4. ResetInv'
  BY DEF ResetInv
<1>5. SyncContract'
  BY DEF SyncContract
<1>6. QED BY <1>1, <1>2, <1>3, <1>4, <1>5

\* FCP_ISSUE.
LEMMA LeaveRoomInv ==
  ASSUME IInv, LeaveRoom
  PROVE  HwInv' /\ FlowInv' /\ CallInv' /\ ResetInv' /\ SyncContract'
<1> USE ConstantFacts DEF IInv, LeaveRoom, Latch, Syncs, RoomEmpty, hw, sw, history
<1>1. HwInv'
  <2>1. (\A b \in Banks : (fsm[b] = "IDLE" <=> run[b] = NoCommand)
                         /\ (run[b] # NoCommand => run[b].bank = b))'
    BY DEF HwInv
  <2>2. wr.id = 0 /\ wr' = fcp /\ fcp' = fcp /\ run' = run
    BY DEF NoCommand
  <2>3. ASSUME NEW x \in issued'
        PROVE  Accounted(x)'
    <3>1. CASE x \in issued
      <4>1. Accounted(x)
        BY <3>1, Zenon DEF HwInv
      <4>2. lost \subseteq lost' /\ done' = done
        OBVIOUS
      <4>3. QED BY <2>2, <4>1, <4>2, Zenon DEF Accounted
    <3>2. CASE x \notin issued
      BY <2>2, <2>3, <3>2 DEF Accounted
    <3>3. QED BY <3>1, <3>2
  <2>4. QED BY <2>1, <2>2, <2>3 DEF HwInv, Accounted
<1>2. FlowInv'
  BY DEF FlowInv, Loop, Resetting
<1>3. CallInv'
  BY DEF FlowInv, CallInv, Loop, Resetting, Traced, Settled
<1>4. ResetInv'
  BY DEF ResetInv
<1>5. SyncContract'
  BY DEF SyncContract
<1>6. QED BY <1>1, <1>2, <1>3, <1>4, <1>5

\* A loop of a call ends.
LEMMA LeaveLoopInv ==
  ASSUME IInv, LeaveAccept \/ LeaveIdle \/ LeaveBusyRoom \/ LeaveDrain
  PROVE  HwInv' /\ FlowInv' /\ CallInv' /\ ResetInv' /\ SyncContract'
<1> USE ConstantFacts DEF IInv, LeaveAccept, LeaveIdle, LeaveBusyRoom, LeaveDrain, Syncs, RoomEmpty, hw, sw, history
<1>1. HwInv'
  BY DEF HwInv, Accounted
<1>2. FlowInv'
  BY DEF FlowInv, Loop, Resetting
<1>3. CallInv'
  BY DEF FlowInv, CallInv, Loop, Resetting, Traced, Settled, NoCommand
<1>4. ResetInv'
  BY DEF ResetInv
<1>5. SyncContract'
  <2>1. CASE LeaveAccept
    BY <2>1 DEF TypeOK, FlowInv, Loop, Resetting, SyncContract, Calls, NoCommand
  <2>2. CASE LeaveIdle
    <3>1. run[call.bank] = NoCommand /\ call.bank \in Banks
      BY <2>2 DEF HwInv, TypeOK, Calls
    <3>2. CASE pc = "idle"
      BY <2>2, <3>1, <3>2 DEF FlowInv, CallInv, Traced, Settled, Loop, Resetting, SyncContract, NoCommand
    <3>3. CASE pc = "busy_bank"
      BY <2>2, <3>1, <3>3 DEF FlowInv, Loop, Resetting, SyncContract
    <3>4. QED BY <2>2, <3>2, <3>3
  <2>3. CASE LeaveBusyRoom
    BY <2>3 DEF SyncContract
  <2>4. CASE LeaveDrain
    <3>1. wr.id = 0 /\ \A b \in Banks : run[b].id = 0
      BY <2>4 DEF HwInv, AllIdle, NoCommand
    <3>2. ASSUME NEW x \in issued PROVE x \in done \cup lost
      <4>1. Accounted(x)
        BY Zenon DEF HwInv
      <4>2. QED BY <3>1, <4>1, Zenon DEF Accounted
    <3>3. QED
      BY <2>4, <3>2 DEF FlowInv, Loop, Resetting, SyncContract
  <2>5. QED BY <2>1, <2>2, <2>3, <2>4
<1>6. QED BY <1>1, <1>2, <1>3, <1>4, <1>5

\* A loop times out and the controller is reset.
LEMMA StartResetInv ==
  ASSUME IInv, NEW i \in Banks, pc \in {"room", "accept", "idle"}, StartReset(i)
  PROVE  HwInv' /\ FlowInv' /\ CallInv' /\ ResetInv' /\ SyncContract'
<1> USE ConstantFacts DEF IInv, StartReset, ResetBanks, RoomCleared, RoomEmpty, hw, sw, history
<1>1. HwInv'
  <2>1. (\A b \in Banks : (fsm[b] = "IDLE" <=> run[b] = NoCommand)
                         /\ (run[b] # NoCommand => run[b].bank = b))'
    OBVIOUS
  <2>2. ASSUME NEW x \in issued PROVE x # 0 /\ x \in done \cup lost'
    <3>1. Accounted(x)
      BY Zenon DEF HwInv
    <3>2. lost' = lost \cup (InFlight \ {0})
      OBVIOUS
    <3>3. QED BY <3>1, <3>2, Zenon DEF InFlight, Accounted
  <2>3. fcp'.op # "NONE"
    OBVIOUS
  <2>4. QED BY <2>1, <2>2, <2>3 DEF HwInv, Accounted
<1>2. FlowInv'
  BY DEF FlowInv, Loop, Resetting
<1>3. CallInv'
  <2>1. call'.id = call.id /\ call'.hit /\ call.bank \in Banks /\ call.id # 0
    BY DEF TypeOK, Calls, FlowInv, Loop, Resetting
  <2>2. CASE pc \in {"accept", "idle"}
    <3>1. call.id \in done \/ call.id \in lost'
      BY <2>1, <2>2 DEF CallInv, Traced, Settled, InFlight
    <3>2. QED BY <2>1, <2>2, <3>1 DEF CallInv, Settled, Resetting
  <2>3. CASE pc = "room"
    BY <2>3 DEF CallInv, Resetting
  <2>4. QED BY <2>2, <2>3
<1>4. ResetInv'
  BY DEF ResetInv, AllIdle
<1>5. SyncContract'
  BY DEF SyncContract
<1>6. QED BY <1>1, <1>2, <1>3, <1>4, <1>5

\* The reset goes on and returns to the loop.
LEMMA ResetStepInv ==
  ASSUME IInv, ResetGeneric \/ ResetWait \/ ResetFinish
  PROVE  HwInv' /\ FlowInv' /\ CallInv' /\ ResetInv' /\ SyncContract'
<1> USE ConstantFacts DEF IInv, ResetGeneric, ResetWait, ResetFinish, RoomEmpty, hw, sw, history
<1>1. HwInv'
  BY DEF TypeOK, HwInv, Accounted, Commands, NoCommand
<1>2. FlowInv'
  BY DEF TypeOK, FlowInv, Loop, Resetting, Commands
<1>3. CallInv'
  BY DEF CallInv, Resetting, Traced, Settled
<1>4. ResetInv'
  BY DEF ResetInv, AllIdle
<1>5. SyncContract'
  BY DEF FlowInv, SyncContract, Resetting
<1>6. QED BY <1>1, <1>2, <1>3, <1>4, <1>5

\* A bank takes the waiting command.
LEMMA AcceptInv ==
  ASSUME IInv, Accept
  PROVE  HwInv' /\ FlowInv' /\ CallInv' /\ ResetInv' /\ SyncContract'
<1> USE ConstantFacts DEF IInv, Accept, RoomEmpty, hw, sw, history
<1>1. HwInv'
  BY DEF TypeOK, HwInv, Accounted, SyncContract, Commands
<1>2. FlowInv'
  BY DEF FlowInv, Loop, Resetting
<1>3. CallInv'
  BY DEF TypeOK, HwInv, FlowInv, CallInv, SyncContract, Loop, Resetting, Traced, Settled, Commands, NoCommand
<1>4. ResetInv'
  BY DEF ResetInv
<1>5. SyncContract'
  BY DEF SyncContract
<1>6. QED BY <1>1, <1>2, <1>3, <1>4, <1>5

\* A bank goes on with its command, gets stuck, or finishes.
LEMMA BankInv ==
  ASSUME IInv, NEW b \in Banks, Shift(b) \/ Stick(b) \/ Complete(b)
  PROVE  HwInv' /\ FlowInv' /\ CallInv' /\ ResetInv' /\ SyncContract'
<1> USE ConstantFacts DEF IInv, Shift, Stick, Complete, RoomEmpty, hw, sw, history
<1>1. HwInv'
  BY DEF TypeOK, HwInv, Accounted
<1>2. FlowInv'
  BY DEF FlowInv, Loop, Resetting
<1>3. CallInv'
  BY DEF TypeOK, CallInv, SyncContract, Resetting, Traced, Settled, Calls, NoCommand
<1>4. ResetInv'
  BY DEF ResetInv, AllIdle
<1>5. SyncContract'
  BY DEF TypeOK, SyncContract, Calls
<1>6. QED BY <1>1, <1>2, <1>3, <1>4, <1>5

-----------------------------------------------------------------------------
LEMMA InvStep == IInv /\ [Next]_vars => IInv'
<1> SUFFICES ASSUME IInv, [Next]_vars PROVE IInv'
  OBVIOUS
<1>1. TypeOK'
  BY TypeStep DEF IInv
<1> DEFINE Rest == HwInv /\ FlowInv /\ CallInv /\ ResetInv /\ SyncContract
<1>2. ASSUME NEW b \in Banks, NEW sync \in Syncs, IssueCmd(b, sync) PROVE Rest'
  BY <1>2, BeginInv DEF IssueCmd, Syncs
<1>3. ASSUME NEW b \in Banks, DirectCmd(b) PROVE Rest'
  BY <1>3, BeginInv DEF DirectCmd
<1>4. ASSUME FlashFinish PROVE Rest'
  BY <1>4, AwaitInv, ConstantFacts DEF FlashFinish
<1>5. ASSUME NEW b \in Banks, WaitBusyBank(b) PROVE Rest'
  BY <1>5, AwaitInv DEF WaitBusyBank
<1>6. ASSUME LeaveRoom PROVE Rest'
  BY <1>6, LeaveRoomInv
<1>7. ASSUME LeaveAccept \/ LeaveIdle \/ LeaveBusyRoom \/ LeaveDrain PROVE Rest'
  BY <1>7, LeaveLoopInv
<1>8. ASSUME TimeoutRoom PROVE Rest'
  <2>1. FirstOf(TakeBanks) \in Banks /\ pc \in {"room", "accept", "idle"}
    BY <1>8, FirstOfTakeBanks DEF TimeoutRoom, IInv, TakeBanks
  <2>2. QED BY <1>8, <2>1, StartResetInv DEF TimeoutRoom
<1>9. ASSUME TimeoutIdle PROVE Rest'
  <2>1. call.bank \in Banks /\ pc \in {"room", "accept", "idle"}
    BY <1>9 DEF TimeoutIdle, IInv, TypeOK, Calls
  <2>2. QED BY <1>9, <2>1, StartResetInv DEF TimeoutIdle
<1>10. ASSUME ResetGeneric \/ ResetWait \/ ResetFinish PROVE Rest'
  BY <1>10, ResetStepInv
<1>11. ASSUME Accept PROVE Rest'
  BY <1>11, AcceptInv
<1>12. ASSUME NEW b \in Banks, Shift(b) \/ Stick(b) \/ Complete(b) PROVE Rest'
  BY <1>12, BankInv
<1>13. ASSUME UNCHANGED vars PROVE Rest'
  BY <1>13 DEF vars, IInv, HwInv, Accounted, FlowInv, CallInv, ResetInv, SyncContract, Loop,
               Resetting, Traced, Settled, AllIdle
<1>14. Rest'
  BY <1>2, <1>3, <1>4, <1>5, <1>6, <1>7, <1>8, <1>9, <1>10, <1>11, <1>12, <1>13
     DEF Next, Polling
<1>15. QED
  BY <1>1, <1>14 DEF IInv

THEOREM Invariant == Spec => []IInv
<1>1. QED BY InvInit, InvStep, PTL DEF Spec

\* A returned call has established what its synchronisation level says (flash.c:133-201,
\* flash_finish, waitBusyBank), for any number of banks and requests.
THEOREM CallsKeepTheirContract == Spec => []SyncContract
<1>1. IInv => SyncContract
  BY DEF IInv
<1>2. QED BY <1>1, Invariant, PTL

\* No loop of the reset can time out, so flash_issue_cmd and flash_reset_one_bank recurse
\* at most one level deep.
THEOREM RecoveryIsOneLevelDeep == Spec => []RecoveryNeverNests
<1>1. IInv => RecoveryNeverNests
  BY DEF IInv, ResetInv, RecoveryNeverNests, AllIdle, TakeBanks
<1>2. QED BY <1>1, Invariant, PTL

-----------------------------------------------------------------------------
(* What the loops wait for. *)

\* The bank ends its command by itself.
Ends(b) == fsm[b] # "IDLE" /\ b \notin stuck

\* A stuck bank is in BANK_TAKE with a command of a caller, and a recovery has no such command:
\* the registers, Waiting Room and the banks hold its own, or nothing.
Stranded == /\ \A b \in stuck : fsm[b] = "TAKE" /\ run[b].op = "IO"
            /\ Resetting => /\ "IO" \notin {fcp.op, wr.op}
                            /\ \A b \in Banks : run[b].op # "IO"

\* A loop of flash_issue_cmd that goes on finds a bank that will take the waiting command or end
\* its own, or one to recover; the loops of the recovery always find a bank of the first kind.
LoopsGoOn ==
  /\ pc \in {"room", "accept"} =>
       RoomEmpty \/ fsm[wr.bank] = "IDLE" \/ Ends(wr.bank) \/ TakeBanks # {}
  /\ pc = "idle" => fsm[call.bank] \in {"IDLE", "TAKE"} \/ Ends(call.bank)
  /\ Resetting => \A b \in Banks : fsm[b] = "IDLE" \/ Ends(b)

LEMMA StrandedStart ==
  ASSUME IInv, Stranded, NEW i \in Banks, StartReset(i)
  PROVE  Stranded'
<1>1. /\ fcp'.op = "GENERIC" /\ wr' = NoCommand /\ stuck' = {}
      /\ \A b \in Banks : run'[b] = NoCommand
  BY DEF StartReset, RoomCleared, ResetBanks, IInv, TypeOK
<1>2. QED
  BY <1>1 DEF Stranded, NoCommand

LEMMA StrandedPolls ==
  ASSUME IInv, Stranded, Polling
  PROVE  Stranded'
<1> USE DEF hw, sw, history, Stranded, Resetting, RoomEmpty
<1>1. CASE LeaveRoom \/ LeaveAccept \/ LeaveIdle \/ LeaveBusyRoom \/ LeaveDrain
  BY <1>1 DEF LeaveRoom, LeaveAccept, LeaveIdle, LeaveBusyRoom, LeaveDrain, Latch
<1>2. CASE TimeoutRoom
  BY <1>2, FirstOfTakeBanks, StrandedStart DEF TimeoutRoom, IInv, TakeBanks
<1>3. CASE TimeoutIdle
  BY <1>3, StrandedStart DEF TimeoutIdle, IInv, TypeOK, Calls
<1>4. CASE ResetGeneric \/ ResetWait
  BY <1>4 DEF ResetGeneric, ResetWait, IInv, TypeOK, Commands
<1>5. CASE ResetFinish
  <2>1. pc' = rst.back /\ rst.back \in {"room", "accept", "idle"} /\ UNCHANGED <<fsm, run, stuck>>
    BY <1>5 DEF ResetFinish, IInv, FlowInv
  <2>2. QED BY <2>1
<1>6. QED
  BY <1>1, <1>2, <1>3, <1>4, <1>5 DEF Polling

LEMMA StrandedBanks ==
  ASSUME IInv, Stranded, NEW b \in Banks, Accept \/ Shift(b) \/ Stick(b) \/ Complete(b)
  PROVE  Stranded'
<1> USE DEF sw, history, Stranded, Resetting, IInv, TypeOK
<1>1. CASE Accept
  <2>1. wr.bank \in Banks /\ fsm[wr.bank] = "IDLE" /\ run' = [run EXCEPT ![wr.bank] = wr]
        /\ wr' = NoCommand /\ stuck' = stuck /\ pc' = pc /\ fcp' = fcp
    BY <1>1 DEF Accept, Commands
  <2>2. wr.bank \notin stuck /\ \A a \in Banks \ {wr.bank} : run'[a] = run[a] /\ fsm'[a] = fsm[a]
    BY <1>1, <2>1 DEF Accept
  <2>3. run'[wr.bank] = wr
    BY <2>1
  <2>4. QED BY <2>1, <2>2, <2>3 DEF NoCommand
<1>2. CASE Shift(b)
  BY <1>2 DEF Shift
<1>3. CASE Stick(b)
  BY <1>3 DEF Stick
<1>4. CASE Complete(b)
  BY <1>4 DEF Complete, NoCommand
<1>5. QED BY <1>1, <1>2, <1>3, <1>4

LEMMA StrandedStep == IInv /\ Stranded /\ [Next]_vars => Stranded'
<1> SUFFICES ASSUME IInv, Stranded, [Next]_vars PROVE Stranded'
  OBVIOUS
<1>1. CASE UNCHANGED vars
  BY <1>1 DEF vars, Stranded, Resetting
<1>2. CASE (\E b \in Banks, sync \in Syncs : IssueCmd(b, sync)) \/ \E b \in Banks : DirectCmd(b)
  BY <1>2 DEF IssueCmd, DirectCmd, Begin, Stranded, Resetting, hw
<1>3. CASE FlashFinish \/ \E b \in Banks : WaitBusyBank(b)
  BY <1>3 DEF FlashFinish, WaitBusyBank, Await, Stranded, Resetting, hw
<1>4. QED
  BY <1>1, <1>2, <1>3, ConstantFacts, StrandedPolls, StrandedBanks DEF Next

\* A stuck bank holds up no loop of flash_issue_cmd for ever: each loop has a recovery to turn to,
\* and the recovery, which has none, never meets a stuck bank (flash.c:97-201, 493-614): the
\* safety that IssueCmdReturns rests on.
THEOREM LoopsHaveAWayOut == Spec => []LoopsGoOn
<1>1. Init => Stranded
  BY DEF Init, Stranded, Resetting
<1>2. ASSUME IInv, Stranded PROVE LoopsGoOn
  <2>1. pc \in {"room", "accept"} =>
          RoomEmpty \/ fsm[wr.bank] = "IDLE" \/ Ends(wr.bank) \/ TakeBanks # {}
    BY <1>2 DEF Stranded, Ends, TakeBanks, IInv, TypeOK, Commands
  <2>2. pc = "idle" => fsm[call.bank] \in {"IDLE", "TAKE"} \/ Ends(call.bank)
    BY <1>2 DEF Stranded, Ends, IInv, TypeOK, Calls
  <2>3. Resetting => \A b \in Banks : fsm[b] = "IDLE" \/ Ends(b)
    BY <1>2 DEF Stranded, Ends
  <2>4. QED BY <2>1, <2>2, <2>3 DEF LoopsGoOn
<1>3. QED BY <1>1, <1>2, StrandedStep, Invariant, PTL DEF Spec

-----------------------------------------------------------------------------
(* FlashPort implements FlashQueue. *)

QueueMap == [b \in Banks |-> Queue(b)]

\* A step that leaves every running and waiting command alone leaves the queues alone.
LEMMA QueueUnchanged ==
  ASSUME UNCHANGED <<wr, run, done>>
  PROVE  UNCHANGED <<QueueMap, done>>
BY DEF QueueMap, Queue

\* FCP_ISSUE appends to one bank's queue, and nobody else waits.
LEMMA LatchSubmits ==
  ASSUME TypeOK, HwInv, wr = NoCommand, wr' = fcp, UNCHANGED <<run, done>>
  PROVE  Abstract!Submit(fcp.bank, fcp.id)
<1>1. fcp.bank \in Banks /\ fcp.id \in Ids
  BY DEF TypeOK, Commands
<1>2. fcp # NoCommand
  BY DEF HwInv, NoCommand
<1> DEFINE R(a) == IF run[a] = NoCommand THEN <<>> ELSE <<run[a].id>>
<1>3. ASSUME NEW a \in Banks
      PROVE  /\ R(a) \in Seq(Ids) /\ Len(R(a)) <= 1
             /\ Queue(a) = R(a)
             /\ Queue(a)' = IF a = fcp.bank THEN Append(R(a), fcp.id) ELSE R(a)
  <2>1. R(a) \in Seq(Ids) /\ Len(R(a)) <= 1
    BY DEF TypeOK, Commands
  <2>2. R(a) \o <<>> = R(a) /\ R(a) \o <<fcp.id>> = Append(R(a), fcp.id)
    BY <1>1, <2>1
  <2>3. Queue(a) = R(a)
    BY <2>2 DEF Queue
  <2>4. Queue(a)' = R(a) \o (IF fcp.bank = a THEN <<fcp.id>> ELSE <<>>)
    BY <1>2 DEF Queue
  <2>5. QED BY <2>1, <2>2, <2>3, <2>4
<1>4. \A a \in Banks : Len(Queue(a)) <= 1
  BY <1>3
<1>5. \A a \in Banks : Queue(a)' = IF a = fcp.bank THEN Append(Queue(a), fcp.id) ELSE Queue(a)
  BY <1>3
<1>6. QueueMap' = [QueueMap EXCEPT ![fcp.bank] = Append(@, fcp.id)]
  BY <1>1, <1>5 DEF QueueMap
<1>7. QED
  BY <1>4, <1>6 DEF Abstract!Submit, QueueMap

\* An idle bank takes the waiting command: it stays the newest of its queue.
LEMMA AcceptStutters ==
  ASSUME TypeOK, HwInv, Accept
  PROVE  UNCHANGED <<QueueMap, done>>
<1>1. /\ wr.bank \in Banks /\ run[wr.bank] = NoCommand /\ wr # NoCommand
      /\ wr' = NoCommand /\ run' = [run EXCEPT ![wr.bank] = wr] /\ done' = done
  BY DEF Accept, TypeOK, HwInv, Commands, history
<1>2. ASSUME NEW a \in Banks PROVE Queue(a)' = Queue(a)
  <2>1. CASE a = wr.bank
    BY <1>1, <2>1 DEF Queue, TypeOK
  <2>2. CASE a # wr.bank
    <3>1. run'[a] = run[a]
      BY <1>1, <2>2 DEF TypeOK
    <3>2. ~(wr # NoCommand /\ wr.bank = a) /\ ~(wr' # NoCommand /\ wr'.bank = a)
      BY <1>1, <2>2
    <3>3. QED BY <3>1, <3>2, Zenon DEF Queue
  <2>3. QED BY <2>1, <2>2
<1>3. QED BY <1>1, <1>2 DEF QueueMap

\* A bank that finishes removes the oldest command of its queue.
LEMMA CompleteRetires ==
  ASSUME TypeOK, HwInv, NEW b \in Banks, Complete(b)
  PROVE  Abstract!Retire(b)
<1>1. /\ run[b] # NoCommand /\ wr' = wr /\ run' = [run EXCEPT ![b] = NoCommand]
      /\ done' = done \cup ({run[b].id} \ {0})
  BY DEF Complete, HwInv, sw
<1> DEFINE W(a) == IF wr # NoCommand /\ wr.bank = a THEN <<wr.id>> ELSE <<>>
<1>2. run[b].id \in Ids /\ W(b) \in Seq(Ids)
  BY DEF TypeOK, Commands
<1>3. Queue(b) = <<run[b].id>> \o W(b)
  BY <1>1 DEF Queue
<1>4. Queue(b) # <<>> /\ Head(Queue(b)) = run[b].id /\ Tail(Queue(b)) = W(b)
  <2> HIDE DEF W
  <2> QED BY <1>2, <1>3
<1>5. Queue(b)' = W(b)
  <2>1. run'[b] = NoCommand
    BY <1>1 DEF TypeOK
  <2>2. Queue(b)' = <<>> \o W(b)
    BY <1>1, <2>1 DEF Queue
  <2> HIDE DEF W
  <2>3. QED BY <1>2, <2>2
<1>6. ASSUME NEW a \in Banks, a # b PROVE Queue(a)' = Queue(a)
  <2>1. run'[a] = run[a]
    BY <1>1, <1>6 DEF TypeOK
  <2>2. QED BY <1>1, <2>1 DEF Queue
<1>7. QueueMap' = [QueueMap EXCEPT ![b] = Tail(@)]
  BY <1>4, <1>5, <1>6 DEF QueueMap
<1>8. QED
  BY <1>1, <1>4, <1>7 DEF Abstract!Retire, QueueMap

\* A controller reset empties every queue.
LEMMA ResetAbandons ==
  ASSUME NEW i, StartReset(i)
  PROVE  Abstract!Abandon
<1>1. wr' = NoCommand /\ run' = [a \in Banks |-> NoCommand] /\ done' = done
  BY DEF StartReset, RoomCleared, ResetBanks
<1>2. \A a \in Banks : Queue(a)' = <<>>
  BY <1>1 DEF Queue
<1>3. QED BY <1>1, <1>2 DEF Abstract!Abandon

LEMMA StepRefines == IInv /\ [Next]_vars => [Abstract!Next]_(Abstract!vars)
<1> SUFFICES ASSUME IInv, [Next]_vars PROVE Abstract!Next \/ UNCHANGED <<QueueMap, done>>
  BY DEF Abstract!vars, QueueMap
<1> USE DEF IInv
<1>1. ASSUME wr = NoCommand, wr' = fcp, UNCHANGED <<run, done>> PROVE Abstract!Next
  <2>1. fcp.bank \in Banks /\ fcp.id \in Ids
    BY DEF TypeOK, Commands
  <2>2. QED BY <1>1, <2>1, LatchSubmits DEF Abstract!Next
<1>2. CASE LeaveRoom \/ ResetGeneric \/ ResetWait
  BY <1>1, <1>2 DEF LeaveRoom, Latch, ResetGeneric, ResetWait, RoomEmpty, history
<1>3. CASE TimeoutRoom \/ TimeoutIdle
  BY <1>3, ResetAbandons DEF TimeoutRoom, TimeoutIdle, Abstract!Next
<1>4. CASE Accept
  BY <1>4, AcceptStutters
<1>5. ASSUME NEW b \in Banks, Complete(b) PROVE Abstract!Next
  BY <1>5, CompleteRetires DEF Abstract!Next
<1>6. CASE UNCHANGED <<wr, run, done>>
  BY <1>6, QueueUnchanged
<1>7. QED
  BY <1>2, <1>3, <1>4, <1>5, <1>6
     DEF Next, Polling, IssueCmd, DirectCmd, Begin, FlashFinish, WaitBusyBank, Await, LeaveAccept,
         LeaveIdle, LeaveBusyRoom, LeaveDrain, ResetFinish, Shift, Stick, vars, hw, sw, history

\* The controller driven by flash.c is a FIFO per bank with one shared waiting place, which
\* only a reset empties: FlashPort implements FlashQueue.
THEOREM PortImplementsQueue == Spec => ImplementsQueue
<1>1. Init => Abstract!Init
  BY DEF Init, Abstract!Init, Queue
<1>2. Spec => [][Abstract!Next]_(Abstract!vars)
  BY Invariant, StepRefines, PTL DEF Spec
<1>3. QED BY <1>1, <1>2, PTL DEF Spec, ImplementsQueue, Abstract!Spec
=============================================================================
