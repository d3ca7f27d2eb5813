-------------------------------- MODULE SataCmd --------------------------------
(***************************************************************************)
(* Command intake of the SATA side: the FIQ handler (sata_isr.c) receives  *)
(* frames and either queues a read, write or TRIM in the hardware Event    *)
(* Queue or posts a "slow" command in the one-entry mailbox slow_cmd; the  *)
(* main loop (sata_main.c) drains the queue first and the mailbox second.  *)
(* The FIQ runs to completion between two steps of Main.                   *)
(*                                                                         *)
(* The host is the environment: one command outstanding, and at any time a *)
(* soft reset (two control frames) or the loss of the link.  A command is  *)
(* [kind, id]; ids only tell commands apart, the code keeps no ids.        *)
(***************************************************************************)
EXTENDS Naturals, Sequences

CONSTANTS FullAt,     \* queue length at which bit 31 of SATA_EQ_STATUS is set
          MaxId,      \* bound: commands and resets the host sends
          MaxResets   \* bound: resets among them

ASSUME FullAtAssumption == FullAt \in Nat \ {0}
ASSUME BoundsAssumption == MaxId \in Nat /\ MaxResets \in Nat

VARIABLES
  req,        \* the command or reset the host waits for
  lastId,     \* identity of the host's last command or reset
  since,      \* identity of its last reset
  resets,     \* resets so far
  asserted,   \* the host has sent SRST=1 and not yet SRST=0
  phy,        \* SATA_PHY_STATUS says the link is up
  intStat,    \* SATA_INT_STAT: cmd = CMD_RECV, reg = REG_FIS_RECV, online
  enabled,    \* SATA_INT_ENABLE includes CMD_RECV and REG_FIS_RECV
  srst,       \* g_sata_context.srst
  slow,       \* g_sata_context.slow_cmd
  eq,         \* the Event Queue
  eqFull,     \* g_sata_context.eq_full
  held,       \* command whose flags are in g_sata_action_flags
  ctrl,       \* command the hardware transfers since SATA_CTRL_2 was written
  pc, cur,    \* Main: next step, and the command it has taken
  lost,       \* history: last mailbox entry that Main cleared while it was pending
  extra,      \* history: TRIMs let into a full queue, and answers the host
              \* took out of turn
  spoilt      \* history: since its last reset the host took the answer to a command
              \* of before it, or such a command's flags replaced a new one's

host == <<req, lastId, since, resets, asserted>>
isr  == <<intStat, enabled, srst>>
buffer == <<eq, eqFull, held>>
queue == <<buffer, extra>>
main == <<pc, cur, lost>>
vars == <<host, phy, isr, slow, queue, ctrl, main, spoilt>>

\* ATA commands by the path they take: ata_cmd_class_table and the LBA check.
Kinds == {"read", "write", "trim", "slow", "outOfRange"}
NoCmd == [kind |-> "none", id |-> 0]
Reset(i) == [kind |-> "srst", id |-> i]
Cmd == [kind : Kinds \cup {"srst", "none"}, id : 0..MaxId]

NoIntr == [cmd |-> NoCmd, reg |-> "none", online |-> FALSE]

TypeOK ==
  /\ req \in Cmd /\ held \in Cmd /\ ctrl \in Cmd /\ cur \in Cmd /\ lost \in Cmd
  /\ lastId \in 0..MaxId /\ since \in 0..lastId /\ resets \in 0..MaxResets
  /\ {asserted, phy, enabled, srst, eqFull, spoilt} \subseteq BOOLEAN
  /\ intStat \in [cmd : Cmd, reg : {"none", "assert", "release"}, online : BOOLEAN]
  /\ slow \in [status : {"NONE", "PENDING", "BUSY"}, cmd : Cmd]
  /\ eq \in Seq(Cmd) /\ extra \in Nat
  /\ pc \in {"poll", "ftl", "test", "busy", "fetch", "run", "clear"}
  /\ eqFull => held # NoCmd

\* State left by sata_reset: only PHY_ONLINE enabled, and pending.
Init ==
  /\ req = Reset(0) /\ lastId = 0 /\ since = 0 /\ resets = 0 /\ asserted = FALSE
  /\ phy = TRUE /\ intStat = [NoIntr EXCEPT !.online = TRUE]
  /\ enabled = FALSE /\ srst = FALSE
  /\ slow = [status |-> "NONE", cmd |-> NoCmd]
  /\ eq = <<>> /\ eqFull = FALSE /\ held = NoCmd /\ ctrl = NoCmd
  /\ pc = "poll" /\ cur = NoCmd
  /\ lost = NoCmd /\ extra = 0 /\ spoilt = FALSE

-----------------------------------------------------------------------------
(* The host (external).  The link delivers a frame when the one before it  *)
(* has been taken.                                                         *)

\* The processor takes a pending FIQ before the next instruction of Main.
FiqPending ==
  intStat.online \/ (enabled /\ (intStat.cmd # NoCmd \/ intStat.reg # "none"))

LinkFree == phy /\ intStat.cmd = NoCmd /\ intStat.reg = "none"

SendCommand(k) ==
  /\ LinkFree /\ req = NoCmd /\ ~asserted /\ lastId < MaxId
  /\ lastId' = lastId + 1
  /\ req' = [kind |-> k, id |-> lastId']
  /\ intStat' = [intStat EXCEPT !.cmd = req']
  /\ UNCHANGED <<since, resets, asserted, phy, enabled, srst, slow, queue, ctrl,
                 main, spoilt>>

\* The host gives up what it waits for, and waits for the device's signature.
StartReset ==
  /\ resets < MaxResets /\ lastId < MaxId
  /\ resets' = resets + 1
  /\ lastId' = lastId + 1
  /\ since' = lastId'
  /\ req' = Reset(lastId')
  /\ spoilt' = FALSE

\* A host whose link has just come up gives the device time to notice.
AssertSrst ==
  /\ LinkFree /\ ~asserted /\ ~intStat.online
  /\ StartReset
  /\ asserted' = TRUE
  /\ intStat' = [intStat EXCEPT !.reg = "assert"]
  /\ UNCHANGED <<phy, enabled, srst, slow, queue, ctrl, main>>

ReleaseSrst ==
  /\ LinkFree /\ asserted
  /\ asserted' = FALSE
  /\ intStat' = [intStat EXCEPT !.reg = "release"]
  /\ UNCHANGED <<req, lastId, since, resets, phy, enabled, srst, slow, queue,
                 ctrl, main, spoilt>>

\* The link drops: the hardware gives up its transfer.
LinkDown ==
  /\ phy
  /\ StartReset
  /\ phy' = FALSE /\ asserted' = FALSE /\ ctrl' = NoCmd
  /\ UNCHANGED <<isr, slow, queue, main>>

\* Retraining the link takes longer than the handler.
LinkUp ==
  /\ ~phy /\ ~FiqPending
  /\ phy' = TRUE
  /\ intStat' = [intStat EXCEPT !.online = TRUE]
  /\ UNCHANGED <<host, enabled, srst, slow, queue, ctrl, main, spoilt>>

\* A Register FIS for command c goes to the host: it takes it as the answer
\* to whatever it waits for.  Nothing is sent when the link is down.
Answer(c) ==
  LET taken == phy /\ ~asserted /\ req # NoCmd IN
  /\ req' = IF taken THEN NoCmd ELSE req
  /\ spoilt' = (spoilt \/ (taken /\ c.id < since))
  /\ extra' = IF taken /\ (eqFull \/ c.id < since) THEN extra + 1 ELSE extra

-----------------------------------------------------------------------------
(* The hardware's transfer engine (external): a read needs its data from   *)
(* ftl_read.                                                               *)

Queued(c) == \E i \in DOMAIN eq : eq[i] = c

Transfer ==
  /\ ctrl # NoCmd /\ phy
  /\ ctrl.kind = "read" => ~Queued(ctrl) /\ ~(pc = "ftl" /\ cur = ctrl)
  /\ ctrl' = NoCmd
  /\ Answer(ctrl)
  /\ UNCHANGED <<lastId, since, resets, asserted, phy, isr, slow, buffer, main>>

-----------------------------------------------------------------------------
(* fiq_handler: CMD_RECV before REG_FIS_RECV before PHY_ONLINE.            *)

\* Slip: an off-by-one level.
FullLate(q) == Len(q) > FullAt

Full(q) == Len(q) >= FullAt
Post(c) == slow' = [status |-> "PENDING", cmd |-> c]

GotCfis == enabled /\ intStat.cmd # NoCmd /\ intStat' = [intStat EXCEPT !.cmd = NoCmd]

\* lba + sector_count > MAX_LBA + 1.
RejectCommand ==
  /\ GotCfis /\ intStat.cmd.kind = "outOfRange"
  /\ Answer(intStat.cmd)
  /\ UNCHANGED <<lastId, since, resets, asserted, phy, enabled, srst, slow, buffer,
                 ctrl, main>>

\* Slip: the flags of a withheld transfer are not saved.
QueueUnsaved ==
  /\ GotCfis /\ intStat.cmd.kind \in {"read", "write"}
  /\ eq' = Append(eq, intStat.cmd)
  /\ IF Full(eq') THEN eqFull' = TRUE /\ UNCHANGED ctrl
                  ELSE ctrl' = intStat.cmd /\ UNCHANGED eqFull
  /\ UNCHANGED <<host, phy, enabled, srst, slow, held, extra, main, spoilt>>

\* The transfer starts at once, or waits in g_sata_action_flags when the
\* queue is full.
QueueReadWrite ==
  /\ GotCfis /\ intStat.cmd.kind \in {"read", "write"}
  /\ eq' = Append(eq, intStat.cmd)
  /\ IF Full(eq')
     THEN eqFull' = TRUE /\ held' = intStat.cmd /\ UNCHANGED ctrl
     ELSE ctrl' = intStat.cmd /\ UNCHANGED <<eqFull, held>>
  /\ UNCHANGED <<host, phy, enabled, srst, slow, extra, main, spoilt>>

\* Data Set Management does not look at the full bit.
QueueTrim ==
  /\ GotCfis /\ intStat.cmd.kind = "trim"
  /\ eq' = Append(eq, intStat.cmd)
  /\ ctrl' = intStat.cmd
  /\ extra' = IF Full(eq') THEN extra + 1 ELSE extra
  /\ UNCHANGED <<host, phy, enabled, srst, slow, eqFull, held, main, spoilt>>

PostSlow ==
  /\ GotCfis /\ intStat.cmd.kind = "slow"
  /\ Post(intStat.cmd)
  /\ UNCHANGED <<host, phy, enabled, srst, queue, ctrl, main, spoilt>>

\* Slip: a reset is posted only in an empty mailbox.
HandleSrstIfNone ==
  /\ enabled /\ intStat.cmd = NoCmd /\ intStat.reg # "none"
  /\ intStat' = [intStat EXCEPT !.reg = "none"]
  /\ srst' = (intStat.reg = "assert")
  /\ IF intStat.reg = "release" /\ srst
     THEN ctrl' = NoCmd /\ IF slow.status = "NONE" THEN Post(Reset(since)) ELSE UNCHANGED slow
     ELSE UNCHANGED <<ctrl, slow>>
  /\ UNCHANGED <<host, phy, enabled, queue, main, spoilt>>

\* handle_srst; the release of a reset that was never seen does nothing.
HandleSrst ==
  /\ enabled /\ intStat.cmd = NoCmd /\ intStat.reg # "none"
  /\ intStat' = [intStat EXCEPT !.reg = "none"]
  /\ srst' = (intStat.reg = "assert")
  /\ IF intStat.reg = "release" /\ srst
     THEN ctrl' = NoCmd /\ Post(Reset(since))
     ELSE UNCHANGED <<ctrl, slow>>
  /\ UNCHANGED <<host, phy, enabled, queue, main, spoilt>>

\* Every bit of SATA_INT_STAT is cleared, not only PHY_ONLINE.
PhyOnline ==
  /\ intStat.online
  /\ enabled => intStat.cmd = NoCmd /\ intStat.reg = "none"
  /\ Post(Reset(since))
  /\ enabled' = TRUE
  /\ intStat' = NoIntr
  /\ UNCHANGED <<host, phy, srst, queue, ctrl, main, spoilt>>

Fiq == RejectCommand \/ QueueReadWrite \/ QueueTrim \/ PostSlow \/ HandleSrst \/ PhyOnline

-----------------------------------------------------------------------------
(* Main.                                                                   *)

\* One entry leaves the queue for Main; starts = the withheld transfer starts.
TakeEntry(starts) ==
  /\ pc = "poll" /\ eq # <<>>
  /\ cur' = Head(eq)
  /\ eq' = Tail(eq)
  /\ ctrl' = IF starts THEN held ELSE ctrl
  /\ spoilt' = (spoilt \/ (ctrl' # ctrl /\ held.id < since /\ ctrl.id > since))
  /\ pc' = "ftl"
  /\ UNCHANGED <<host, phy, isr, slow, held, extra, lost>>

\* Slips: eq_full is not reset, is reset only when the link is up, and the
\* withheld transfer is forgotten.
EventqGetStaysFull == TakeEntry(eqFull /\ phy) /\ UNCHANGED eqFull
EventqGetIfPhy == TakeEntry(eqFull /\ phy) /\ eqFull' = (eqFull /\ ~phy)
EventqGetForgets == TakeEntry(FALSE) /\ eqFull' = FALSE

\* eventq_get, with the FIQ off: the transfer that waited for room starts.
EventqGet == TakeEntry(eqFull /\ phy) /\ eqFull' = FALSE

Goto(from, to) ==
  /\ pc = from
  /\ pc' = to
  /\ UNCHANGED <<host, phy, isr, queue, lost>>

\* ftl_read, ftl_write or ftl_trim.
RunFtl == Goto("ftl", "poll") /\ UNCHANGED <<slow, ctrl, cur, spoilt>>

QueueEmpty == eq = <<>> /\ Goto("poll", "test") /\ UNCHANGED <<slow, ctrl, cur, spoilt>>

TestSlow ==
  /\ Goto("test", IF slow.status = "PENDING" THEN "busy" ELSE "poll")
  /\ UNCHANGED <<slow, ctrl, cur, spoilt>>

SetBusy ==
  /\ Goto("busy", "fetch")
  /\ slow' = [slow EXCEPT !.status = "BUSY"]
  /\ UNCHANGED <<ctrl, cur, spoilt>>

FetchCode == Goto("fetch", "run") /\ cur' = slow.cmd /\ UNCHANGED <<slow, ctrl, spoilt>>

\* The command's function; each one ends with a Register FIS.
RunSlow ==
  /\ pc = "run" /\ pc' = "clear"
  /\ Answer(cur)
  /\ UNCHANGED <<lastId, since, resets, asserted, phy, isr, slow, buffer, ctrl,
                 cur, lost>>

\* The status is set to NONE whatever the FIQ has stored there meanwhile.
ClearSlow ==
  /\ pc = "clear" /\ pc' = "poll"
  /\ slow' = [slow EXCEPT !.status = "NONE"]
  /\ lost' = IF slow.status = "PENDING" THEN slow.cmd ELSE lost
  /\ UNCHANGED <<host, phy, isr, queue, ctrl, cur, spoilt>>

MainStep == EventqGet \/ RunFtl \/ QueueEmpty \/ TestSlow \/ SetBusy \/ FetchCode
              \/ RunSlow \/ ClearSlow

Main == ~FiqPending /\ MainStep

Next ==
  \/ \E k \in Kinds : SendCommand(k)
  \/ AssertSrst \/ ReleaseSrst \/ LinkDown \/ LinkUp
  \/ Transfer \/ Fiq \/ Main

Spec == Init /\ [][Next]_vars

(* Main loops forever; an enabled interrupt is taken; the hardware finishes *)
(* a transfer it can finish; and a reset once begun is completed.           *)
Fairness ==
  /\ WF_vars(Main) /\ WF_vars(Fiq) /\ WF_vars(Transfer)
  /\ WF_vars(ReleaseSrst) /\ WF_vars(LinkUp)

FairSpec == Spec /\ Fairness

-----------------------------------------------------------------------------
(* Properties.                                                             *)

\* The queue grows beyond the length at which it reports full only by TRIMs,
\* which are never withheld, and when, after a reset, an answer of before it
\* or one that comes while a transfer is withheld sets the host free: one entry
\* each.  (HW_EQ_MARGIN leaves room for four.)
EqBounded == Len(eq) <= FullAt + extra

\* A withheld transfer always has a queue entry left to release it, and belongs
\* to the command the host waits for.
HeldCommand ==
  eqFull => /\ eq # <<>>
            /\ (held.id > since /\ ~spoilt) => held = req

\* What the host waits for is somewhere in the device, or was overwritten in
\* the mailbox while Main ran the entry before it.
Accounted ==
  (req # NoCmd /\ ~spoilt) =>
    \/ ~phy \/ asserted \/ intStat.online \/ intStat.reg # "none"
    \/ intStat.cmd = req
    \/ slow.status = "PENDING" /\ slow.cmd = req
    \/ pc = "fetch" /\ slow.cmd = req
    \/ pc = "run" /\ cur = req
    \/ eqFull /\ held = req
    \/ ctrl = req
    \/ lost = req

\* Every command and reset is answered or given up by the host, unless the
\* mailbox entry was overwritten or the host took an old answer for a new one.
Answered ==
  \A i \in 0..MaxId :
    (req # NoCmd /\ req.id = i) ~> (req = NoCmd \/ req.id # i \/ lost = req \/ spoilt)

\* Main will run the entry of the mailbox: not any more once the function of the entry before
\* it runs.
SlowLive == \/ slow.status = "PENDING" /\ pc \in {"poll", "ftl", "test", "busy"}
            \/ pc = "fetch"

\* Where the device keeps what it will answer.
Places == {"fis", "held", "ctrl", "slow", "run"}

At(p) == CASE p = "fis"  -> intStat.cmd
           [] p = "held" -> (IF eqFull THEN held ELSE NoCmd)
           [] p = "ctrl" -> ctrl
           [] p = "slow" -> (IF SlowLive THEN slow.cmd ELSE NoCmd)
           [] p = "run"  -> (IF pc = "run" THEN cur ELSE NoCmd)

\* A reset is being made, or will be seen.
ResetDue == asserted \/ ~phy \/ intStat.reg # "none" \/ intStat.online

Current(c) == c # NoCmd /\ c.id >= since

Inside == {c \in {At(p) : p \in Places} \cup (IF ResetDue THEN {req} ELSE {}) : Current(c)}

\* The drive is a server of one command at a time: what was sent since the last reset is
\* answered while the host waits for it, never twice, never after another one was sent, and
\* is not forgotten, but for what comes to the mailbox while Main ends the entry before.
Server == INSTANCE CommandServer WITH
  Commands <- [kind : Kinds, id : 0..MaxId],
  Resets   <- [kind : {"srst"}, id : 0..MaxId],
  Mailed   <- [kind : {"slow", "srst"}, id : 0..MaxId],
  None     <- NoCmd,
  waiting  <- req,
  inside   <- IF spoilt THEN {} ELSE Inside,
  doubt    <- spoilt,
  wasReset <- since # 0

ImplementsServer == Server!Spec

=============================================================================
