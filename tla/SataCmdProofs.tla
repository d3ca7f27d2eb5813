--------------------------- MODULE SataCmdProofs ---------------------------
(***************************************************************************)
(* Command intake, for any length of the Event Queue and any number of     *)
(* commands and resets.  A command of the host is in one of five places    *)
(* from which it can still be answered.  The argument: as long as the host *)
(* has taken no answer of before its last reset, at most one place holds   *)
(* something sent since then, and it is what the host waits for.           *)
(*                                                                         *)
(* The bound of the queue is an account: every entry beyond the level at   *)
(* which the queue is full is paid for by extra, and so is every way in    *)
(* which the host can be free to send more.                                *)
(*                                                                         *)
(* From the invariant also follow the refinement of CommandServer and what *)
(* the liveness property Answered rests on.                                *)
(***************************************************************************)
EXTENDS SataCmd, TLAPS

New(c) == c.id > since

Quiet == since = lastId /\ req = Reset(since)

\* Commands carry the host's numbers; a reset only passes through the mailbox.
Numbered ==
  /\ \A p \in Places : /\ At(p).id <= lastId
                       /\ At(p).id = since => At(p) \in {NoCmd, Reset(since)}
  /\ \A p \in {"fis", "held", "ctrl"} : At(p) = NoCmd \/ At(p).kind \in Kinds
  /\ req # NoCmd => req.id = lastId /\ (since = lastId => req = Reset(since))

\* The steps of a reset, and of the link.
Resets ==
  /\ asserted \/ ~phy => Quiet
  /\ intStat.reg # "none" => since = lastId /\ intStat.cmd = NoCmd
  /\ ~spoilt /\ ResetDue => Quiet
  /\ intStat.reg = "assert" /\ phy => asserted
  /\ asserted => srst \/ intStat.reg = "assert"
  /\ intStat.reg = "release" => srst /\ ~asserted
  /\ ~enabled => /\ intStat.online /\ intStat.cmd = NoCmd /\ intStat.reg = "none"
                 /\ ~asserted /\ Quiet /\ ctrl = NoCmd
  /\ phy /\ intStat.cmd # NoCmd => New(intStat.cmd)
  /\ pc = "busy" => slow.status = "PENDING"
  /\ SlowLive => slow.cmd # NoCmd
  /\ pc = "run" => cur # NoCmd
  /\ eqFull => eq # <<>>

One == ~spoilt =>
         \A p \in Places : Current(At(p)) =>
           At(p) = req /\ \A q \in Places : Current(At(q)) => q = p

\* The account.
Count(b) == IF b THEN 1 ELSE 0
Free == Count(req = NoCmd)
AnyFis == Count(intStat.cmd # NoCmd)
NewFis == Count(New(intStat.cmd))
EntryFis == Count(intStat.cmd.kind \in {"read", "write", "trim"})
NewCtrl == Count(New(ctrl))
NewHeld == Count(New(At("held")))
Due == Count(ResetDue \/ Current(At("slow")) \/ Current(At("run")))

\* What may still make the host send; Main's answer counts while it is at the mailbox.
AtSlow == pc \in {"test", "busy", "fetch", "run"}
Coming == NewFis + NewCtrl + Free + (IF AtSlow THEN Due ELSE 0)

Account ==
  /\ NewFis + NewCtrl + Free + NewHeld + Due <= 1 + extra
  /\ eqFull => Len(eq) + EntryFis + Free <= FullAt + extra
  /\ ~eqFull => /\ Len(eq) < FullAt + extra
                /\ Len(eq) + Coming <= FullAt + extra
                /\ Coming <= 1 + extra
                /\ Len(eq) + AnyFis + Free <= FullAt + extra
                /\ AnyFis + Free <= 1 + extra

\* What was lost in the mailbox is lost again only as itself.
Lost ==
  /\ slow.cmd.id <= lastId /\ lost.id <= lastId
  /\ ~spoilt /\ ~ResetDue /\ req # NoCmd /\ lost = req /\ slow.status = "PENDING" => slow.cmd = req

Core == TypeOK /\ Numbered /\ Resets /\ One /\ Accounted /\ Account
IInv == Core /\ Lost

-----------------------------------------------------------------------------
(* Types. *)

LEMMA TypeFacts ==
  ASSUME TypeOK
  PROVE  /\ asserted \in BOOLEAN /\ phy \in BOOLEAN /\ enabled \in BOOLEAN /\ srst \in BOOLEAN
         /\ eqFull \in BOOLEAN /\ spoilt \in BOOLEAN
         /\ intStat.cmd \in Cmd /\ slow.cmd \in Cmd
         /\ lastId \in Nat /\ since \in Nat /\ resets \in Nat /\ MaxId \in Nat /\ MaxResets \in Nat
         /\ NoCmd \in Cmd
BY BoundsAssumption DEF TypeOK, Cmd, NoCmd

LEMMA ResetType == ASSUME NEW i \in 0 .. MaxId PROVE Reset(i) \in Cmd
BY DEF Reset, Cmd

LEMMA InitType == Init => TypeOK
<1> SUFFICES ASSUME Init PROVE TypeOK
  OBVIOUS
<1>1. NoCmd \in Cmd /\ Reset(0) \in Cmd
  BY BoundsAssumption DEF NoCmd, Reset, Cmd
<1>2. intStat \in [cmd : Cmd, reg : {"none", "assert", "release"}, online : BOOLEAN]
  BY <1>1 DEF Init, NoIntr
<1>3. {asserted, phy, enabled, srst, eqFull, spoilt} \subseteq BOOLEAN
  BY DEF Init
<1>4. lastId \in 0 .. MaxId /\ since \in 0 .. lastId /\ resets \in 0 .. MaxResets /\ extra \in Nat
  BY BoundsAssumption DEF Init
<1>5. eq \in Seq(Cmd) /\ slow \in [status : {"NONE", "PENDING", "BUSY"}, cmd : Cmd]
  BY <1>1 DEF Init
<1>6. QED
  BY <1>1, <1>2, <1>3, <1>4, <1>5 DEF Init, TypeOK

LEMMA AnswerType ==
  ASSUME TypeOK, NEW c \in Cmd, Answer(c)
  PROVE  req' \in Cmd /\ spoilt' \in BOOLEAN /\ extra' \in Nat /\ (spoilt => spoilt')
<1>1. req' \in Cmd
  BY TypeFacts DEF Answer, TypeOK
<1>2. extra' \in Nat
  BY DEF Answer, TypeOK
<1>3. spoilt' \in BOOLEAN /\ (spoilt => spoilt')
  BY TypeFacts, Zenon DEF Answer
<1>4. QED
  BY <1>1, <1>2, <1>3

LEMMA StartResetType ==
  ASSUME TypeOK, StartReset
  PROVE  /\ req' = Reset(lastId') /\ req' \in Cmd /\ lastId' = lastId + 1 /\ lastId' \in 0 .. MaxId
         /\ since' = lastId' /\ resets' \in 0 .. MaxResets /\ spoilt' = FALSE
<1>1. lastId' = lastId + 1 /\ lastId' \in 0 .. MaxId /\ resets' \in 0 .. MaxResets
  BY TypeFacts DEF StartReset, TypeOK
<1>2. QED
  BY <1>1, ResetType DEF StartReset

LEMMA HostType ==
  ASSUME TypeOK,
         (\E k \in Kinds : SendCommand(k)) \/ AssertSrst \/ ReleaseSrst \/ LinkDown \/ LinkUp
  PROVE  TypeOK'
<1> USE TypeFacts DEF queue, buffer, main, isr, host
<1>1. ASSUME NEW k \in Kinds, SendCommand(k) PROVE TypeOK'
  <2>1. lastId' = lastId + 1 /\ lastId' \in 0 .. MaxId
    BY <1>1 DEF SendCommand, TypeOK
  <2>2. req' = [kind |-> k, id |-> lastId']
    BY <1>1 DEF SendCommand
  <2>3. req' \in Cmd
    BY <2>1, <2>2 DEF Cmd
  <2>4. intStat' = [intStat EXCEPT !.cmd = req']
    BY <1>1 DEF SendCommand
  <2>5. intStat' \in [cmd : Cmd, reg : {"none", "assert", "release"}, online : BOOLEAN]
    BY <2>3, <2>4 DEF TypeOK
  <2>6. QED
    BY <1>1, <2>1, <2>3, <2>5 DEF SendCommand, TypeOK
<1>2. CASE AssertSrst
  <2>1. StartReset /\ intStat' = [intStat EXCEPT !.reg = "assert"]
    BY <1>2 DEF AssertSrst
  <2>2. intStat' \in [cmd : Cmd, reg : {"none", "assert", "release"}, online : BOOLEAN]
    BY <2>1 DEF TypeOK
  <2>3. {asserted, phy, enabled, srst, eqFull, spoilt}' \subseteq BOOLEAN
    BY <1>2, <2>1, StartResetType DEF AssertSrst
  <2>4. since' \in 0 .. lastId'
    BY <2>1, StartResetType
  <2>5. QED
    BY <1>2, <2>1, <2>2, <2>3, <2>4, StartResetType DEF AssertSrst, TypeOK
<1>3. CASE ReleaseSrst
  <2>1. intStat' = [intStat EXCEPT !.reg = "release"]
    BY <1>3 DEF ReleaseSrst
  <2>2. intStat' \in [cmd : Cmd, reg : {"none", "assert", "release"}, online : BOOLEAN]
    BY <2>1 DEF TypeOK
  <2>3. QED
    BY <1>3, <2>2 DEF ReleaseSrst, TypeOK
<1>4. CASE LinkDown
  <2>1. {asserted, phy, enabled, srst, eqFull, spoilt}' \subseteq BOOLEAN
    BY <1>4, StartResetType DEF LinkDown
  <2>2. since' \in 0 .. lastId'
    BY <1>4, StartResetType DEF LinkDown
  <2>3. QED
    BY <1>4, <2>1, <2>2, StartResetType DEF LinkDown, TypeOK
<1>5. CASE LinkUp
  <2>1. intStat' = [intStat EXCEPT !.online = TRUE]
    BY <1>5 DEF LinkUp
  <2>2. intStat' \in [cmd : Cmd, reg : {"none", "assert", "release"}, online : BOOLEAN]
    BY <2>1 DEF TypeOK
  <2>3. QED
    BY <1>5, <2>2 DEF LinkUp, TypeOK
<1>6. QED
  BY <1>1, <1>2, <1>3, <1>4, <1>5

LEMMA PostType ==
  ASSUME TypeOK, NEW c \in Cmd, Post(c)
  PROVE  slow' \in [status : {"NONE", "PENDING", "BUSY"}, cmd : Cmd]
BY DEF Post

LEMMA FiqType == ASSUME TypeOK, Fiq PROVE TypeOK'
<1> USE TypeFacts DEF queue, buffer, main, isr, host
<1>1. ASSUME GotCfis
      PROVE  intStat' \in [cmd : Cmd, reg : {"none", "assert", "release"}, online : BOOLEAN]
  <2>1. intStat' = [intStat EXCEPT !.cmd = NoCmd]
    BY <1>1 DEF GotCfis
  <2>2. QED BY <2>1 DEF TypeOK
<1>2. CASE RejectCommand
  BY <1>1, <1>2, AnswerType DEF RejectCommand, TypeOK
<1>3. CASE QueueReadWrite
  <2>1. eq' \in Seq(Cmd)
    BY <1>3 DEF QueueReadWrite, TypeOK
  <2>2. intStat.cmd # NoCmd
    BY <1>3 DEF QueueReadWrite, GotCfis
  <2>3. held' \in Cmd /\ ctrl' \in Cmd /\ eqFull' \in BOOLEAN /\ (eqFull' => held' # NoCmd)
    BY <1>3, <2>2 DEF QueueReadWrite, TypeOK
  <2>4. GotCfis
    BY <1>3 DEF QueueReadWrite
  <2>5. QED BY <1>1, <1>3, <2>1, <2>3, <2>4 DEF QueueReadWrite, TypeOK
<1>4. CASE QueueTrim
  <2>1. eq' \in Seq(Cmd) /\ extra' \in Nat /\ GotCfis
    BY <1>4 DEF QueueTrim, TypeOK
  <2>2. QED BY <1>1, <1>4, <2>1 DEF QueueTrim, TypeOK
<1>5. CASE PostSlow
  BY <1>1, <1>5, PostType DEF PostSlow, TypeOK
<1>6. CASE HandleSrst
  <2>1. intStat' = [intStat EXCEPT !.reg = "none"] /\ srst' \in BOOLEAN
    BY <1>6 DEF HandleSrst
  <2>2. intStat' \in [cmd : Cmd, reg : {"none", "assert", "release"}, online : BOOLEAN]
    BY <2>1 DEF TypeOK
  <2>3. Reset(since) \in Cmd
    BY ResetType DEF TypeOK
  <2>4. ctrl' \in Cmd /\ slow' \in [status : {"NONE", "PENDING", "BUSY"}, cmd : Cmd]
    BY <1>6, <2>3, PostType DEF HandleSrst, TypeOK
  <2>5. QED BY <1>6, <2>1, <2>2, <2>4 DEF HandleSrst, TypeOK
<1>7. CASE PhyOnline
  <2>1. Reset(since) \in Cmd
    BY ResetType DEF TypeOK
  <2>2. slow' \in [status : {"NONE", "PENDING", "BUSY"}, cmd : Cmd]
    BY <1>7, <2>1, PostType DEF PhyOnline
  <2>3. intStat' \in [cmd : Cmd, reg : {"none", "assert", "release"}, online : BOOLEAN]
    BY <1>7 DEF PhyOnline, NoIntr
  <2>4. QED BY <1>7, <2>2, <2>3 DEF PhyOnline, TypeOK
<1>8. QED
  BY <1>2, <1>3, <1>4, <1>5, <1>6, <1>7 DEF Fiq

LEMMA MainType == ASSUME TypeOK, Transfer \/ MainStep PROVE TypeOK'
<1> USE TypeFacts DEF queue, buffer, main, isr, host
<1>1. CASE Transfer
  BY <1>1, AnswerType DEF Transfer, TypeOK
<1>2. CASE EventqGet
  <2>1. eq # <<>> /\ cur' = Head(eq) /\ eq' = Tail(eq) /\ UNCHANGED held
    BY <1>2 DEF EventqGet, TakeEntry
  <2>2. cur' \in Cmd /\ eq' \in Seq(Cmd)
    BY <2>1 DEF TypeOK
  <2>3. ctrl' \in Cmd
    BY <1>2 DEF EventqGet, TakeEntry, TypeOK
  <2>4. spoilt' \in BOOLEAN
    BY <1>2, Zenon DEF EventqGet, TakeEntry
  <2>5. QED BY <1>2, <2>2, <2>3, <2>4 DEF EventqGet, TakeEntry, TypeOK
<1>3. CASE RunFtl \/ QueueEmpty \/ TestSlow \/ FetchCode
  BY <1>3 DEF RunFtl, QueueEmpty, TestSlow, FetchCode, Goto, TypeOK
<1>4. CASE SetBusy
  <2>1. slow' = [slow EXCEPT !.status = "BUSY"]
    BY <1>4 DEF SetBusy
  <2>2. QED BY <1>4, <2>1 DEF SetBusy, Goto, TypeOK
<1>5. CASE RunSlow
  <2>1. Answer(cur) /\ cur \in Cmd
    BY <1>5 DEF RunSlow, TypeOK
  <2>2. QED BY <1>5, <2>1, AnswerType DEF RunSlow, TypeOK
<1>6. CASE ClearSlow
  <2>1. slow' = [slow EXCEPT !.status = "NONE"] /\ lost' \in Cmd
    BY <1>6 DEF ClearSlow, TypeOK
  <2>2. QED BY <1>6, <2>1 DEF ClearSlow, TypeOK
<1>7. QED
  BY <1>1, <1>2, <1>3, <1>4, <1>5, <1>6 DEF MainStep

LEMMA TypeStep == TypeOK /\ Next => TypeOK'
BY HostType, FiqType, MainType DEF Next, Main

-----------------------------------------------------------------------------
(* What the places hold. *)

LEMMA PlaceFacts ==
  ASSUME TypeOK
  PROVE  /\ At("fis") = intStat.cmd /\ At("ctrl") = ctrl
         /\ At("held") = (IF eqFull THEN held ELSE NoCmd)
         /\ At("slow") = (IF SlowLive THEN slow.cmd ELSE NoCmd)
         /\ At("run") = (IF pc = "run" THEN cur ELSE NoCmd)
         /\ \A p \in Places : At(p) \in Cmd
<1>1. /\ At("fis") = intStat.cmd /\ At("ctrl") = ctrl
      /\ At("held") = (IF eqFull THEN held ELSE NoCmd)
      /\ At("slow") = (IF SlowLive THEN slow.cmd ELSE NoCmd)
      /\ At("run") = (IF pc = "run" THEN cur ELSE NoCmd)
  BY DEF At
<1>2. cur \in Cmd /\ held \in Cmd /\ ctrl \in Cmd
  BY DEF TypeOK
<1>3. QED
  BY <1>1, <1>2, TypeFacts DEF Places

LEMMA Ids ==
  ASSUME TypeOK
  PROVE  /\ \A c \in Cmd : c.id \in Nat
         /\ ~New(NoCmd) /\ ~Current(NoCmd) /\ NoCmd.kind = "none" /\ NoCmd \in Cmd
         /\ \A i : Reset(i) # NoCmd /\ Reset(i).id = i /\ Reset(i).kind = "srst"
         /\ "srst" \notin Kinds /\ "none" \notin Kinds
         /\ FullAt \in Nat /\ extra \in Nat /\ Len(eq) \in Nat /\ lastId \in Nat /\ since \in Nat
         /\ since <= lastId
BY TypeFacts, FullAtAssumption DEF Cmd, New, Current, NoCmd, Reset, TypeOK, Kinds

LEMMA DueCount == Due' \in {0, 1}
BY DEF Due, Count

LEMMA Counts ==
  TypeOK => /\ Free \in {0, 1} /\ AnyFis \in {0, 1} /\ NewFis \in {0, 1} /\ EntryFis \in {0, 1}
            /\ NewCtrl \in {0, 1} /\ NewHeld \in {0, 1} /\ Due \in {0, 1}
            /\ NewFis <= AnyFis /\ EntryFis <= AnyFis
<1> SUFFICES ASSUME TypeOK
             PROVE  /\ Free \in {0, 1} /\ AnyFis \in {0, 1} /\ NewFis \in {0, 1} /\ EntryFis \in {0, 1}
                    /\ NewCtrl \in {0, 1} /\ NewHeld \in {0, 1} /\ Due \in {0, 1}
                    /\ NewFis <= AnyFis /\ EntryFis <= AnyFis
  OBVIOUS
<1>1. /\ Free \in {0, 1} /\ AnyFis \in {0, 1} /\ NewFis \in {0, 1} /\ EntryFis \in {0, 1}
      /\ NewCtrl \in {0, 1} /\ NewHeld \in {0, 1} /\ Due \in {0, 1}
  BY DEF Free, AnyFis, NewFis, EntryFis, NewCtrl, NewHeld, Due, Count
<1>2. (New(intStat.cmd) => intStat.cmd # NoCmd)
      /\ (intStat.cmd.kind \in {"read", "write", "trim"} => intStat.cmd # NoCmd)
  BY Ids
<1>3. QED
  BY <1>1, <1>2 DEF NewFis, AnyFis, EntryFis, Count

\* Something moves from one place to another.
LEMMA OneMove ==
  ASSUME One, spoilt => spoilt', UNCHANGED <<req, since>>,
         NEW p \in Places, NEW q \in Places, p # q,
         At(p)' = NoCmd, At(q)' \in {At(p), At(q), NoCmd},
         \A r \in Places \ {p, q} : At(r)' \in {At(r), NoCmd}
  PROVE  One'
<1> SUFFICES ASSUME ~spoilt', NEW r \in Places, Current(At(r))'
             PROVE  At(r)' = req /\ \A t \in Places : Current(At(t))' => t = r
  BY DEF One
<1>1. \A t \in Places : Current(At(t))' =>
        At(t)' # NoCmd /\ Current(At(t)') /\ t # p /\ (At(t)' = At(t) \/ (t = q /\ At(t)' = At(p)))
  BY DEF Current
<1>2. \A t, u \in Places : Current(At(t)) /\ Current(At(u)) => t = u /\ At(t) = req
  BY DEF One
<1>3. QED
  BY <1>1, <1>2

\* Nothing moves, but something may vanish.
LEMMA OneStay ==
  ASSUME One, spoilt => spoilt', UNCHANGED <<req, since>>,
         \A p \in Places : At(p)' \in {At(p), NoCmd}
  PROVE  One'
<1> SUFFICES ASSUME ~spoilt', NEW r \in Places, Current(At(r))'
             PROVE  At(r)' = req /\ \A t \in Places : Current(At(t))' => t = r
  BY DEF One
<1>1. \A t \in Places : Current(At(t))' => At(t)' = At(t) /\ Current(At(t))
  BY DEF Current
<1>2. QED
  BY <1>1 DEF One

\* No place gets anything new.
LEMMA NumberedStay ==
  ASSUME TypeOK, Numbered, UNCHANGED <<since, lastId>>, req' \in {req, NoCmd},
         \A p \in {"fis", "held", "ctrl"} : At(p)' \in {At("fis"), At("held"), At("ctrl"), NoCmd},
         \A p \in {"slow", "run"} : At(p)' \in {At(q) : q \in Places} \cup {Reset(since), NoCmd}
  PROVE  Numbered'
<1>1. ASSUME NEW p \in Places
      PROVE  At(p)'.id <= lastId' /\ (At(p)'.id = since' => At(p)' \in {NoCmd, Reset(since')})
  <2>1. \/ \E q \in Places : At(p)' = At(q)
        \/ At(p)' \in {Reset(since), NoCmd}
    BY DEF Places
  <2>2. NoCmd.id = 0 /\ Reset(since).id = since /\ since <= lastId /\ 0 <= lastId
    BY Ids DEF NoCmd
  <2>3. QED
    BY <2>1, <2>2 DEF Numbered
<1>2. \A p \in {"fis", "held", "ctrl"} : At(p)' = NoCmd \/ At(p)'.kind \in Kinds
  BY DEF Numbered
<1>3. QED
  BY <1>1, <1>2 DEF Numbered

\* The host takes, or does not take, what is in one place.
LEMMA OneAnswer ==
  ASSUME TypeOK, One, UNCHANGED since, NEW p \in Places, At(p) # NoCmd, Answer(At(p)),
         \A r \in Places \ {p} : At(r)' \in {At(r), NoCmd},
         At(p)' = NoCmd
  PROVE  One'
<1> SUFFICES ASSUME ~spoilt', NEW r \in Places, Current(At(r))'
             PROVE  At(r)' = req' /\ \A t \in Places : Current(At(t))' => t = r
  BY DEF One
<1>1. \A t \in Places : Current(At(t))' => t # p /\ At(t)' = At(t) /\ Current(At(t))
  BY DEF Current
<1>2. ~spoilt /\ (req' # req => ~ (At(p).id < since))
  BY DEF Answer
<1>3. req' # req => Current(At(p))
  BY <1>2, Ids, PlaceFacts DEF Current
<1>4. QED
  BY <1>1, <1>2, <1>3 DEF One

LEMMA AnswerCases ==
  ASSUME TypeOK, NEW c \in Cmd, Answer(c)
  PROVE  \/ /\ phy /\ ~asserted /\ req # NoCmd /\ req' = NoCmd
            /\ ~spoilt' => ~spoilt /\ c.id >= since
            /\ extra' \in {extra, extra + 1}
            /\ eqFull \/ c.id < since => extra' = extra + 1
         \/ /\ req' = req /\ extra' = extra /\ spoilt' = spoilt
            /\ req = NoCmd \/ ~phy \/ asserted
<1>1. CASE phy /\ ~asserted /\ req # NoCmd
  <2>1. req' = NoCmd /\ spoilt' = (spoilt \/ c.id < since)
    BY <1>1 DEF Answer
  <2>2. extra' = IF eqFull \/ c.id < since THEN extra + 1 ELSE extra
    BY <1>1 DEF Answer
  <2>3. ~spoilt' => ~spoilt /\ ~ (c.id < since)
    BY <2>1, Zenon
  <2>4. ~ (c.id < since) => c.id >= since
    BY Ids
  <2>5. QED BY <1>1, <2>1, <2>2, <2>3, <2>4
<1>2. CASE ~ (phy /\ ~asserted /\ req # NoCmd)
  <2>1. spoilt' = spoilt
    BY <1>2, TypeFacts DEF Answer
  <2>2. req' = req /\ extra' = extra
    BY <1>2 DEF Answer
  <2>3. QED BY <1>2, <2>1, <2>2
<1>3. QED
  BY <1>1, <1>2

\* The mailbox takes a reset.
LEMMA OnePost ==
  ASSUME TypeOK, Numbered, One, spoilt \/ Quiet, UNCHANGED <<req, since, spoilt>>,
         \A p \in {"fis", "held", "ctrl"} : At(p)' \in {At(p), NoCmd},
         At("run")' = At("run"), At("slow")' \in {Reset(since), NoCmd},
         At("slow")' = NoCmd \/ At("run")' = NoCmd
  PROVE  One'
<1> SUFFICES ASSUME ~spoilt', NEW r \in Places, Current(At(r))'
             PROVE  At(r)' = req /\ \A t \in Places : Current(At(t))' => t = r
  BY DEF One
<1>1. ~spoilt /\ since = lastId /\ req = Reset(since)
  BY DEF Quiet
<1>2. \A p \in {"fis", "held", "ctrl"} : ~Current(At(p))'
  <2>1. SUFFICES ASSUME NEW p \in {"fis", "held", "ctrl"}, Current(At(p))' PROVE FALSE
    OBVIOUS
  <2>2. At(p)' = At(p) /\ At(p) # NoCmd /\ At(p).id >= since /\ At(p).id <= lastId
        /\ At(p).id \in Nat /\ since \in Nat /\ lastId \in Nat
    BY <2>1, Ids, PlaceFacts DEF Current, Numbered, Places
  <2>3. At(p) = Reset(since)
    BY <1>1, <2>2 DEF Numbered, Places
  <2>4. QED BY <2>2, <2>3, Ids DEF Numbered
<1>3. r \in {"slow", "run"} /\ \A t \in Places : Current(At(t))' => t \in {"slow", "run"}
  BY <1>2 DEF Places
<1>4. Current(At("run"))' => At("run")' = req
  BY <1>1 DEF One, Current, Places
<1>5. QED
  BY <1>1, <1>3, <1>4 DEF Current

LEMMA SendCommandInv ==
  ASSUME Core, TypeOK', NEW k \in Kinds, SendCommand(k)
  PROVE  Core'
<1> USE DEF queue, buffer, main, isr, host, Core
<1>1. /\ phy /\ intStat.cmd = NoCmd /\ intStat.reg = "none" /\ req = NoCmd /\ ~asserted
      /\ lastId' = lastId + 1 /\ req' = [kind |-> k, id |-> lastId + 1]
      /\ UNCHANGED <<since, resets, asserted, phy, enabled, srst, slow, eq, eqFull, held, extra,
                     ctrl, pc, cur, lost, spoilt>>
      /\ intStat' = [intStat EXCEPT !.cmd = req']
  BY DEF SendCommand, LinkFree
<1>2. intStat'.cmd = req' /\ intStat'.reg = "none" /\ intStat'.online = intStat.online
  BY <1>1 DEF TypeOK
<1>3. At("fis")' = req' /\ \A p \in Places \ {"fis"} : At(p)' = At(p)
  BY <1>1, <1>2 DEF At, Places, SlowLive
<1>4. req'.id = lastId' /\ req'.kind \in Kinds /\ req' # NoCmd /\ since < lastId' /\ lastId < lastId'
  BY <1>1, Ids
<1>5. spoilt \/ ~intStat.online
  BY <1>1, Ids DEF Resets, ResetDue, Quiet
<1>6. enabled
  BY <1>1, Ids DEF Resets, Quiet
<1>7. Numbered'
  <2>1. \A p \in Places : At(p)'.id <= lastId' /\ (At(p)'.id = since' => At(p)' \in {NoCmd, Reset(since')})
    BY <1>1, <1>3, <1>4, Ids, PlaceFacts DEF Numbered
  <2>2. \A p \in {"fis", "held", "ctrl"} : At(p)' = NoCmd \/ At(p)'.kind \in Kinds
    BY <1>3, <1>4 DEF Numbered, Places
  <2>3. QED BY <1>1, <1>4, <2>1, <2>2, Ids DEF Numbered
<1>8. Resets'
  BY <1>1, <1>2, <1>4, <1>5, <1>6, Ids DEF Resets, ResetDue, SlowLive, New
<1>9. One'
  <2>1. ~spoilt => \A p \in Places : ~Current(At(p))
    BY <1>1 DEF One, Current
  <2>2. ~spoilt' => \A p \in Places \ {"fis"} : ~Current(At(p))'
    BY <1>1, <1>3, <2>1 DEF Current
  <2>3. QED BY <1>3, <2>2 DEF One
<1>10. Accounted'
  BY <1>2 DEF Accounted
<1>11. Account'
  <2>1. NewFis' = 1 /\ AnyFis' = 1 /\ Free' = 0 /\ Free = 1 /\ NewFis = 0 /\ AnyFis = 0 /\ EntryFis' \in {0, 1}
    BY <1>1, <1>2, <1>4, Ids DEF New, NewFis, AnyFis, EntryFis, Free, Count
  <2>2. UNCHANGED <<NewCtrl, NewHeld, Due, AtSlow, eq, eqFull, extra>>
    BY <1>1, <1>2, <1>3 DEF NewCtrl, NewHeld, Due, AtSlow, New, Current, ResetDue, Places
  <2>3. QED
    BY <2>1, <2>2, Counts, Ids DEF Account, Coming
<1>12. QED
  BY <1>7, <1>8, <1>9, <1>10, <1>11

\* A reset makes everything in the device old.
LEMMA StartResetInv ==
  ASSUME Core, TypeOK', AssertSrst \/ LinkDown
  PROVE  Core'
<1> USE DEF queue, buffer, main, isr, host, Core
<1>1. /\ lastId' = lastId + 1 /\ since' = lastId' /\ req' = Reset(since') /\ spoilt' = FALSE
      /\ UNCHANGED <<enabled, srst, slow, eq, eqFull, held, extra, pc, cur, lost>>
  BY StartResetType DEF AssertSrst, LinkDown
<1>2. \A p \in Places : At(p)' \in {At(p), NoCmd}
  <2>1. CASE AssertSrst
    <3>1. ctrl' = ctrl /\ intStat'.cmd = intStat.cmd
      BY <2>1 DEF AssertSrst, TypeOK
    <3>2. QED BY <1>1, <3>1 DEF At, Places, SlowLive
  <2>2. CASE LinkDown
    BY <1>1, <2>2 DEF At, Places, SlowLive, LinkDown
  <2>3. QED BY <2>1, <2>2
<1>3. Quiet' /\ since < since' /\ since <= lastId /\ lastId < since'
  BY <1>1, Ids DEF Quiet
<1>4. \A p \in Places : At(p)'.id < since' /\ At(p)'.id <= lastId'
  <2>1. \A p \in Places : At(p).id <= lastId /\ At(p).id \in Nat
    BY PlaceFacts, Ids DEF Numbered
  <2>2. NoCmd.id = 0
    BY DEF NoCmd
  <2>3. QED
    BY <1>1, <1>2, <1>3, <2>1, <2>2, Ids
<1>5. \A p \in Places : ~New(At(p))' /\ ~Current(At(p))'
  <2>1. since' \in Nat /\ \A p \in Places : At(p)'.id \in Nat
    BY <1>1, <1>2, PlaceFacts, Ids
  <2>2. QED BY <1>4, <2>1 DEF New, Current
<1>6. Numbered'
  <2>1. since' \in Nat /\ \A p \in Places : At(p)'.id \in Nat
    BY <1>1, <1>2, PlaceFacts, Ids
  <2>2. \A p \in Places : At(p)'.id # since'
    BY <1>4, <2>1
  <2>3. \A p \in {"fis", "held", "ctrl"} : At(p)' = NoCmd \/ At(p)'.kind \in Kinds
    BY <1>2 DEF Numbered, Places
  <2>4. req'.id = lastId' /\ req' = Reset(since')
    BY <1>1, Ids
  <2>5. QED BY <1>4, <2>2, <2>3, <2>4 DEF Numbered
<1>7. Resets'
  <2>1. CASE AssertSrst
    <3>1. ~intStat.online /\ asserted' /\ phy /\ phy' /\ intStat'.reg = "assert"
          /\ intStat'.cmd = NoCmd /\ ~intStat.online /\ enabled
      BY <2>1 DEF AssertSrst, LinkFree, TypeOK, Resets
    <3>2. QED BY <1>1, <1>3, <3>1 DEF Resets, SlowLive, Quiet
  <2>2. CASE LinkDown
    <3>1. ~phy' /\ ~asserted' /\ UNCHANGED intStat /\ ctrl' = NoCmd
      BY <2>2 DEF LinkDown
    <3>2. QED BY <1>1, <1>3, <3>1 DEF Resets, SlowLive, Quiet
  <2>3. QED BY <2>1, <2>2
<1>8. One'
  BY <1>5 DEF One
<1>9. asserted' \/ ~phy'
  BY DEF AssertSrst, LinkDown
<1>10. Accounted'
  BY <1>9 DEF Accounted
<1>11. Account'
  <2>1. NewFis' = 0 /\ NewCtrl' = 0 /\ NewHeld' = 0
    BY <1>5, PlaceFacts DEF NewFis, NewCtrl, NewHeld, Count, Places, At
  <2>2. Free' = 0 /\ Due' = 1
    BY <1>1, <1>9, Ids DEF Free, Due, Count, ResetDue
  <2>3. AnyFis' = AnyFis /\ EntryFis' = EntryFis
    BY DEF AssertSrst, LinkDown, AnyFis, EntryFis, TypeOK
  <2>4. Coming' \in {0, 1}
    BY <2>1, <2>2 DEF Coming
  <2>5. QED
    BY <1>1, <2>1, <2>2, <2>3, <2>4, Counts, Ids DEF Account
<1>12. QED
  BY <1>6, <1>7, <1>8, <1>10, <1>11

LEMMA ReleaseSrstInv ==
  ASSUME Core, TypeOK', ReleaseSrst
  PROVE  Core'
<1> USE DEF queue, buffer, main, isr, host, Core
<1>1. /\ phy /\ intStat.cmd = NoCmd /\ asserted /\ ~asserted' /\ intStat.reg = "none"
      /\ UNCHANGED <<req, lastId, since, resets, phy, enabled, srst, slow, eq, eqFull, held, extra,
                     ctrl, pc, cur, lost, spoilt>>
      /\ intStat' = [intStat EXCEPT !.reg = "release"]
  BY DEF ReleaseSrst, LinkFree
<1>2. intStat'.cmd = NoCmd /\ intStat'.reg = "release" /\ intStat'.online = intStat.online
  BY <1>1 DEF TypeOK
<1>3. \A p \in Places : At(p)' = At(p)
  BY <1>1, <1>2 DEF At, Places, SlowLive
<1>4. Quiet /\ Quiet' /\ srst
  BY <1>1 DEF Resets, Quiet
<1>5. Numbered'
  BY <1>1, <1>3, NumberedStay DEF Places
<1>6. Resets'
  BY <1>1, <1>2, <1>4 DEF Resets, SlowLive, Quiet
<1>7. One'
  BY <1>1, <1>3, OneStay
<1>8. Accounted'
  BY <1>2 DEF Accounted
<1>9. Account'
  <2>1. UNCHANGED <<Free, AnyFis, NewFis, EntryFis, NewCtrl, NewHeld, AtSlow>>
    BY <1>1, <1>2, <1>3 DEF Free, AnyFis, NewFis, EntryFis, NewCtrl, NewHeld, AtSlow, New, Places
  <2>2. Due = 1 /\ Due' = 1
    BY <1>1, <1>2 DEF Due, ResetDue, Count
  <2>3. QED
    BY <1>1, <2>1, <2>2, Counts, Ids DEF Account, Coming
<1>10. QED
  BY <1>5, <1>6, <1>7, <1>8, <1>9

LEMMA LinkUpInv ==
  ASSUME Core, TypeOK', LinkUp
  PROVE  Core'
<1> USE DEF queue, buffer, main, isr, host, Core
<1>1. /\ ~phy /\ phy' /\ ~FiqPending
      /\ UNCHANGED <<req, lastId, since, resets, asserted, enabled, srst, slow, eq, eqFull, held, extra,
                     ctrl, pc, cur, lost, spoilt>>
      /\ intStat' = [intStat EXCEPT !.online = TRUE]
  BY DEF LinkUp
<1>2. intStat'.cmd = intStat.cmd /\ intStat'.reg = intStat.reg /\ intStat'.online
  BY <1>1 DEF TypeOK
<1>3. \A p \in Places : At(p)' = At(p)
  BY <1>1, <1>2 DEF At, Places, SlowLive
<1>4. Quiet /\ Quiet' /\ intStat.cmd = NoCmd /\ intStat.reg = "none"
  BY <1>1 DEF Resets, Quiet, FiqPending
<1>5. Numbered'
  BY <1>1, <1>3, NumberedStay DEF Places
<1>6. Resets'
  BY <1>1, <1>2, <1>4 DEF Resets, SlowLive, Quiet
<1>7. One'
  BY <1>1, <1>3, OneStay
<1>8. Accounted'
  BY <1>2 DEF Accounted
<1>9. Account'
  <2>1. UNCHANGED <<Free, AnyFis, NewFis, EntryFis, NewCtrl, NewHeld, AtSlow>>
    BY <1>1, <1>2, <1>3 DEF Free, AnyFis, NewFis, EntryFis, NewCtrl, NewHeld, AtSlow, New, Places
  <2>2. Due = 1 /\ Due' = 1
    BY <1>1, <1>2 DEF Due, ResetDue, Count
  <2>3. QED
    BY <1>1, <2>1, <2>2, Counts, Ids DEF Account, Coming
<1>10. QED
  BY <1>5, <1>6, <1>7, <1>8, <1>9

-----------------------------------------------------------------------------
(* The FIQ handler. *)

LEMMA RejectCommandInv ==
  ASSUME Core, TypeOK', RejectCommand
  PROVE  Core'
<1> USE DEF queue, buffer, main, isr, host, Core
<1>1. /\ enabled /\ intStat.cmd # NoCmd /\ intStat.cmd.kind = "outOfRange"
      /\ intStat' = [intStat EXCEPT !.cmd = NoCmd] /\ Answer(intStat.cmd)
      /\ UNCHANGED <<lastId, since, resets, asserted, phy, enabled, srst, slow, eq, eqFull, held,
                     ctrl, pc, cur, lost>>
  BY DEF RejectCommand, GotCfis
<1>2. intStat'.cmd = NoCmd /\ intStat'.reg = intStat.reg /\ intStat'.online = intStat.online
  BY <1>1 DEF TypeOK
<1>3. At("fis")' = NoCmd /\ At("fis") = intStat.cmd /\ \A p \in Places \ {"fis"} : At(p)' = At(p)
  BY <1>1, <1>2 DEF At, Places, SlowLive
<1>4. intStat.cmd \in Cmd /\ intStat.reg = "none" /\ (phy => New(intStat.cmd) /\ since < lastId)
  <2>1. intStat.cmd \in Cmd /\ intStat.reg = "none"
    BY <1>1, TypeFacts DEF Resets
  <2>2. phy => New(intStat.cmd)
    BY <1>1 DEF Resets
  <2>3. intStat.cmd.id <= lastId
    BY <1>3 DEF Numbered, Places
  <2>4. QED BY <2>1, <2>2, <2>3, Ids DEF New
<1>5. \/ /\ phy /\ ~asserted /\ req # NoCmd /\ req' = NoCmd
         /\ ~spoilt' => ~spoilt /\ intStat.cmd.id >= since
         /\ extra' \in {extra, extra + 1}
         /\ eqFull \/ intStat.cmd.id < since => extra' = extra + 1
      \/ /\ req' = req /\ extra' = extra /\ spoilt' = spoilt
         /\ req = NoCmd \/ ~phy \/ asserted
  BY <1>1, <1>4, AnswerCases
<1>6. Numbered'
  BY <1>1, <1>3, <1>5, NumberedStay DEF Places
<1>7. Resets'
  <2>1. asserted' \/ ~phy' => Quiet'
    BY <1>1, <1>5 DEF Resets, Quiet
  <2>2. ~spoilt' /\ ResetDue' => Quiet'
    BY <1>1, <1>2, <1>4, <1>5, Ids DEF Resets, ResetDue, Quiet
  <2>3. QED BY <1>1, <1>2, <1>4, <1>5, <2>1, <2>2 DEF Resets, SlowLive
<1>8. One'
  BY <1>1, <1>3, OneAnswer DEF Places
<1>9. Accounted'
  BY <1>1, <1>5 DEF Accounted
<1>10. Account'
  <2>1. NewFis' = 0 /\ AnyFis' = 0 /\ AnyFis = 1 /\ EntryFis' = 0 /\ EntryFis = 0 /\ (phy => NewFis = 1)
    BY <1>1, <1>2, <1>4, Ids DEF NewFis, AnyFis, EntryFis, Count, New
  <2>2. UNCHANGED <<NewCtrl, NewHeld, Due, AtSlow>>
    BY <1>1, <1>2, <1>3 DEF NewCtrl, NewHeld, Due, AtSlow, New, Current, ResetDue, Places
  <2>3. CASE phy /\ req # NoCmd /\ req' = NoCmd /\ extra' \in {extra, extra + 1} /\ (eqFull => extra' = extra + 1)
    <3>1. Free = 0 /\ Free' = 1
      BY <2>3 DEF Free, Count
    <3>2. QED BY <1>1, <2>1, <2>2, <2>3, <3>1, Counts, Ids DEF Account, Coming
  <2>4. CASE req' = req /\ extra' = extra
    <3>1. Free' = Free
      BY <2>4 DEF Free
    <3>2. QED BY <1>1, <2>1, <2>2, <2>4, <3>1, Counts, Ids DEF Account, Coming
  <2>5. QED BY <1>5, <2>3, <2>4
<1>11. QED
  BY <1>6, <1>7, <1>8, <1>9, <1>10

\* A frame taken from the link while it is up is what the host waits for.
LEMMA TakenFrame ==
  ASSUME Core, intStat.cmd # NoCmd
  PROVE  /\ At("fis") = intStat.cmd /\ intStat.reg = "none" /\ intStat.cmd \in Cmd
         /\ phy => New(intStat.cmd)
         /\ New(intStat.cmd) /\ ~spoilt => intStat.cmd = req
         /\ Current(intStat.cmd) => New(intStat.cmd) \/ ~phy
<1>1. At("fis") = intStat.cmd /\ intStat.reg = "none" /\ intStat.cmd \in Cmd
  BY PlaceFacts, TypeFacts DEF Core, Resets
<1>2. phy => New(intStat.cmd)
  BY DEF Core, Resets
<1>3. New(intStat.cmd) => Current(intStat.cmd)
  <2>1. intStat.cmd.id \in Nat /\ since \in Nat
    BY <1>1, Ids DEF Core
  <2>2. QED BY <2>1 DEF New, Current
<1>4. QED
  BY <1>1, <1>2, <1>3 DEF Core, One, Places

LEMMA QueueReadWriteInv ==
  ASSUME Core, TypeOK', QueueReadWrite
  PROVE  Core'
<1> USE DEF queue, buffer, main, isr, host, Core
<1>1. /\ enabled /\ intStat.cmd # NoCmd /\ intStat.cmd.kind \in {"read", "write"}
      /\ intStat' = [intStat EXCEPT !.cmd = NoCmd]
      /\ UNCHANGED <<req, lastId, since, resets, asserted, phy, enabled, srst, slow, extra,
                     pc, cur, lost, spoilt>>
      /\ eq' = Append(eq, intStat.cmd)
      /\ \/ Full(eq') /\ eqFull' = TRUE /\ held' = intStat.cmd /\ ctrl' = ctrl
         \/ ~Full(eq') /\ eqFull' = eqFull /\ held' = held /\ ctrl' = intStat.cmd
  BY DEF QueueReadWrite, GotCfis
<1>2. intStat'.cmd = NoCmd /\ intStat'.reg = intStat.reg /\ intStat'.online = intStat.online
      /\ Len(eq') = Len(eq) + 1 /\ eq' # <<>>
  BY <1>1 DEF TypeOK
<1>3. PICK q \in {"held", "ctrl"} :
           /\ At("fis")' = NoCmd /\ At(q)' = At("fis")
           /\ \A p \in Places \ {"fis", q} : At(p)' = At(p)
           /\ q = "held" => eqFull' /\ held' = intStat.cmd /\ Full(eq')
           /\ q = "ctrl" => ctrl' = intStat.cmd /\ ~Full(eq') /\ UNCHANGED <<eqFull, held>>
  <2>1. CASE Full(eq')
    <3>1. At("fis")' = NoCmd /\ At("held")' = At("fis") /\ \A p \in Places \ {"fis", "held"} : At(p)' = At(p)
      BY <1>1, <1>2, <2>1 DEF At, Places, SlowLive
    <3>2. QED BY <1>1, <2>1, <3>1
  <2>2. CASE ~Full(eq')
    <3>1. At("fis")' = NoCmd /\ At("ctrl")' = At("fis") /\ \A p \in Places \ {"fis", "ctrl"} : At(p)' = At(p)
      BY <1>1, <1>2, <2>2 DEF At, Places, SlowLive
    <3>2. QED BY <1>1, <2>2, <3>1
  <2>3. QED BY <2>1, <2>2
<1>4. Numbered'
  BY <1>1, <1>3, NumberedStay DEF Places
<1>5. Resets'
  BY <1>1, <1>2 DEF Resets, SlowLive, Quiet, ResetDue
<1>6. One'
  BY <1>1, <1>3, OneMove DEF Places
<1>7. Accounted'
  <2>1. SUFFICES ASSUME req # NoCmd, ~spoilt, phy PROVE Accounted'
    BY <1>1 DEF Accounted
  <2>2. intStat.cmd = req
    BY <1>1, <2>1, TakenFrame
  <2>3. (eqFull' /\ held' = req) \/ ctrl' = req
    BY <1>3, <2>2
  <2>4. QED BY <1>1, <2>3 DEF Accounted
<1>8. Account'
  <2>1. NewFis' = 0 /\ AnyFis' = 0 /\ AnyFis = 1 /\ EntryFis' = 0 /\ EntryFis = 1
    BY <1>1, <1>2, Ids DEF NewFis, AnyFis, EntryFis, Count, New
  <2>2. UNCHANGED <<Free, Due, AtSlow>>
    BY <1>1, <1>2, <1>3 DEF Free, Due, AtSlow, Current, ResetDue, Places
  <2>3. CASE q = "held"
    <3>1. NewHeld' = NewFis /\ NewCtrl' = NewCtrl
      BY <1>1, <1>3, <2>3, TakenFrame, PlaceFacts DEF NewHeld, NewFis, NewCtrl, New, Places
    <3>2. QED BY <1>1, <1>2, <1>3, <2>1, <2>2, <2>3, <3>1, Counts, Ids DEF Account, Coming
  <2>4. CASE q = "ctrl"
    <3>1. NewCtrl' = NewFis /\ NewHeld' = NewHeld
      BY <1>1, <1>3, <2>4, TakenFrame, PlaceFacts DEF NewHeld, NewFis, NewCtrl, New, Places
    <3>2. Len(eq) + 1 < FullAt
      BY <1>2, <1>3, <2>4, Ids DEF Full
    <3>3. QED BY <1>1, <1>2, <1>3, <2>1, <2>2, <2>4, <3>1, <3>2, Counts, Ids DEF Account, Coming
  <2>5. QED BY <2>3, <2>4
<1>9. QED
  BY <1>4, <1>5, <1>6, <1>7, <1>8

LEMMA QueueTrimInv ==
  ASSUME Core, TypeOK', QueueTrim
  PROVE  Core'
<1> USE DEF queue, buffer, main, isr, host, Core
<1>1. /\ enabled /\ intStat.cmd # NoCmd /\ intStat.cmd.kind = "trim"
      /\ intStat' = [intStat EXCEPT !.cmd = NoCmd]
      /\ UNCHANGED <<req, lastId, since, resets, asserted, phy, enabled, srst, slow, eqFull, held,
                     pc, cur, lost, spoilt>>
      /\ eq' = Append(eq, intStat.cmd) /\ ctrl' = intStat.cmd
      /\ extra' = IF Full(eq') THEN extra + 1 ELSE extra
  BY DEF QueueTrim, GotCfis
<1>2. intStat'.cmd = NoCmd /\ intStat'.reg = intStat.reg /\ intStat'.online = intStat.online
      /\ Len(eq') = Len(eq) + 1 /\ eq' # <<>>
  BY <1>1 DEF TypeOK
<1>3. At("fis")' = NoCmd /\ At("ctrl")' = At("fis") /\ \A p \in Places \ {"fis", "ctrl"} : At(p)' = At(p)
  BY <1>1, <1>2 DEF At, Places, SlowLive
<1>4. Numbered'
  BY <1>1, <1>3, NumberedStay DEF Places
<1>5. Resets'
  BY <1>1, <1>2 DEF Resets, SlowLive, Quiet, ResetDue
<1>6. One'
  BY <1>1, <1>3, OneMove DEF Places
<1>7. Accounted'
  <2>1. SUFFICES ASSUME req # NoCmd, ~spoilt, phy PROVE Accounted'
    BY <1>1 DEF Accounted
  <2>2. intStat.cmd = req
    BY <1>1, <2>1, TakenFrame
  <2>3. QED BY <1>1, <2>2 DEF Accounted
<1>8. Account'
  <2>1. NewFis' = 0 /\ AnyFis' = 0 /\ AnyFis = 1 /\ EntryFis' = 0 /\ EntryFis = 1
    BY <1>1, <1>2, Ids DEF NewFis, AnyFis, EntryFis, Count, New
  <2>2. UNCHANGED <<Free, Due, AtSlow, NewHeld>>
    BY <1>1, <1>2, <1>3 DEF Free, Due, AtSlow, NewHeld, New, Current, ResetDue, Places
  <2>3. NewCtrl' = NewFis
    BY <1>1 DEF NewFis, NewCtrl, New
  <2>4. CASE Full(eq')
    <3>1. extra' = extra + 1
      BY <1>1, <2>4
    <3>2. Coming \in Nat /\ Coming' <= Coming /\ Coming' \in Nat
      BY <2>1, <2>2, <2>3, Counts DEF Coming
    <3>3. eqFull' = eqFull /\ Len(eq') = Len(eq) + 1
      BY <1>1, <1>2
    <3>4. (NewFis + NewCtrl + Free + NewHeld + Due <= 1 + extra)'
      BY <2>1, <2>2, <2>3, <3>1, Counts, Ids DEF Account
    <3>5. eqFull => Len(eq') + EntryFis' + Free' <= FullAt + extra'
      BY <2>1, <2>2, <3>1, <3>3, Counts, Ids DEF Account
    <3>6. ~eqFull => /\ Len(eq') < FullAt + extra'
                     /\ Len(eq') + Coming' <= FullAt + extra'
                     /\ Coming' <= 1 + extra'
                     /\ Len(eq') + AnyFis' + Free' <= FullAt + extra'
                     /\ AnyFis' + Free' <= 1 + extra'
      BY <2>1, <2>2, <3>1, <3>2, <3>3, Counts, Ids DEF Account
    <3>7. QED BY <3>3, <3>4, <3>5, <3>6 DEF Account
  <2>5. CASE ~Full(eq')
    <3>1. Len(eq) + 1 < FullAt
      BY <1>2, <2>5, Ids DEF Full
    <3>2. QED BY <1>1, <1>2, <2>1, <2>2, <2>3, <2>5, <3>1, Counts, Ids DEF Account, Coming
  <2>6. QED BY <2>4, <2>5
<1>9. QED
  BY <1>4, <1>5, <1>6, <1>7, <1>8

LEMMA PostSlowInv ==
  ASSUME Core, TypeOK', PostSlow
  PROVE  Core'
<1> USE DEF queue, buffer, main, isr, host, Core
<1>1. /\ enabled /\ intStat.cmd # NoCmd /\ intStat.cmd.kind = "slow"
      /\ intStat' = [intStat EXCEPT !.cmd = NoCmd]
      /\ UNCHANGED <<req, lastId, since, resets, asserted, phy, enabled, srst, eq, eqFull, held, extra,
                     ctrl, pc, cur, lost, spoilt>>
      /\ slow' = [status |-> "PENDING", cmd |-> intStat.cmd]
  BY DEF PostSlow, GotCfis, Post
<1>2. intStat'.cmd = NoCmd /\ intStat'.reg = intStat.reg /\ intStat'.online = intStat.online
  BY <1>1 DEF TypeOK
<1>3. At("fis")' = NoCmd /\ At("slow")' \in {At("fis"), NoCmd}
      /\ \A p \in Places \ {"fis", "slow"} : At(p)' = At(p)
  BY <1>1, <1>2 DEF At, Places
<1>4. Numbered'
  BY <1>1, <1>3, NumberedStay DEF Places
<1>5. Resets'
  BY <1>1, <1>2 DEF Resets, Quiet, ResetDue
<1>6. One'
  BY <1>1, <1>3, OneMove DEF Places
<1>7. Accounted'
  <2>1. SUFFICES ASSUME req # NoCmd, ~spoilt, phy PROVE Accounted'
    BY <1>1 DEF Accounted
  <2>2. intStat.cmd = req
    BY <1>1, <2>1, TakenFrame
  <2>3. QED BY <1>1, <2>2 DEF Accounted
<1>8. Account'
  <2>1. NewFis' = 0 /\ AnyFis' = 0 /\ EntryFis' = 0 /\ EntryFis = 0
    BY <1>1, <1>2, Ids DEF NewFis, AnyFis, EntryFis, Count, New
  <2>2. UNCHANGED <<Free, AtSlow, NewHeld, NewCtrl>>
    BY <1>1, <1>2, <1>3 DEF Free, AtSlow, NewHeld, NewCtrl, New, Places
  <2>3. Due' <= Due + NewFis
    <3>1. CASE Due = 1 \/ NewFis = 1
      BY <3>1, Counts, DueCount
    <3>2. CASE Due = 0 /\ NewFis = 0
      <4>1. ~ResetDue /\ ~Current(At("run")) /\ ~New(intStat.cmd)
        BY <3>2 DEF Due, NewFis, Count
      <4>2. ~Current(intStat.cmd)
        BY <1>1, <4>1, TakenFrame DEF ResetDue
      <4>3. ~ResetDue' /\ ~Current(At("run"))' /\ ~Current(At("slow"))'
        BY <1>1, <1>2, <1>3, <4>1, <4>2, TakenFrame DEF ResetDue, Current, Places
      <4>4. QED BY <3>2, <4>3 DEF Due, Count
    <3>3. QED BY <3>1, <3>2, Counts
  <2>4. Coming \in Nat /\ Coming' <= Coming /\ Coming' \in Nat
    BY <2>1, <2>2, <2>3, Counts, DueCount DEF Coming
  <2>5. QED
    BY <1>1, <2>1, <2>2, <2>3, <2>4, Counts, DueCount, Ids DEF Account
<1>9. QED
  BY <1>4, <1>5, <1>6, <1>7, <1>8

LEMMA HandleSrstInv ==
  ASSUME Core, TypeOK', HandleSrst
  PROVE  Core'
<1> USE DEF queue, buffer, main, isr, host, Core
<1>1. /\ enabled /\ intStat.cmd = NoCmd /\ intStat.reg # "none" /\ ResetDue
      /\ intStat' = [intStat EXCEPT !.reg = "none"]
      /\ UNCHANGED <<req, lastId, since, resets, asserted, phy, enabled, eq, eqFull, held, extra,
                     pc, cur, lost, spoilt>>
  BY DEF HandleSrst, ResetDue
<1>2. intStat'.cmd = NoCmd /\ intStat'.reg = "none" /\ intStat'.online = intStat.online
  BY <1>1 DEF TypeOK
<1>3. spoilt \/ Quiet
  BY <1>1 DEF Resets
<1>4. UNCHANGED <<Free, AnyFis, NewFis, EntryFis, AtSlow>> /\ Due = 1
  BY <1>1, <1>2 DEF Free, AnyFis, NewFis, EntryFis, AtSlow, New, Due, Count
<1>5. CASE intStat.reg = "assert"
  <2>1. UNCHANGED <<ctrl, slow>> /\ srst' /\ (asserted \/ ~phy)
    BY <1>1, <1>5 DEF HandleSrst, Resets
  <2>2. \A p \in Places : At(p)' = At(p)
    BY <1>1, <1>2, <2>1 DEF At, Places, SlowLive
  <2>3. Numbered' /\ One'
    BY <1>1, <2>2, NumberedStay, OneStay DEF Places
  <2>4. Resets'
    BY <1>1, <1>2, <2>1 DEF Resets, SlowLive, Quiet, ResetDue
  <2>5. Accounted'
    BY <1>1, <2>1 DEF Accounted
  <2>6. NewCtrl' = NewCtrl /\ NewHeld' = NewHeld
    BY <1>1, <2>1, <2>2 DEF NewCtrl, NewHeld, New, Places
  <2>7. Account'
    BY <1>1, <1>4, <2>6, Counts, DueCount, Ids DEF Account, Coming
  <2>8. QED BY <2>3, <2>4, <2>5, <2>7
<1>6. CASE intStat.reg = "release"
  <2>1. srst /\ ~asserted
    BY <1>6 DEF Resets
  <2>2. ctrl' = NoCmd /\ slow' = [status |-> "PENDING", cmd |-> Reset(since)]
    BY <1>1, <1>6, <2>1 DEF HandleSrst, Post
  <2>3. /\ At("fis")' = NoCmd /\ At("ctrl")' = NoCmd /\ At("held")' = At("held") /\ At("run")' = At("run")
        /\ At("slow")' \in {Reset(since), NoCmd} /\ (At("slow")' = NoCmd \/ At("run")' = NoCmd)
    BY <1>1, <1>2, <2>2 DEF At, SlowLive
  <2>4. Numbered'
    BY <1>1, <2>3, NumberedStay DEF Places
  <2>5. One'
    BY <1>1, <1>3, <2>3, OnePost
  <2>6. Resets'
    BY <1>1, <1>2, <2>1, <2>2, Ids DEF Resets, Quiet, ResetDue
  <2>7. Accounted'
    BY <1>1, <1>3, <2>2 DEF Accounted, Quiet
  <2>8. NewCtrl' = 0 /\ NewHeld' = NewHeld
    BY <1>1, <2>2, <2>3, Ids DEF NewCtrl, NewHeld, New, Count
  <2>9. Account'
    BY <1>1, <1>4, <2>8, Counts, DueCount, Ids DEF Account, Coming
  <2>10. QED BY <2>4, <2>5, <2>6, <2>7, <2>9
<1>7. QED
  BY <1>1, <1>5, <1>6 DEF TypeOK

LEMMA PhyOnlineInv ==
  ASSUME Core, TypeOK', PhyOnline
  PROVE  Core'
<1> USE DEF queue, buffer, main, isr, host, Core
<1>1. /\ intStat.online /\ enabled' = TRUE /\ intStat' = NoIntr /\ ResetDue
      /\ UNCHANGED <<req, lastId, since, resets, asserted, phy, srst, eq, eqFull, held, extra,
                     ctrl, pc, cur, lost, spoilt>>
      /\ slow' = [status |-> "PENDING", cmd |-> Reset(since)]
  BY DEF PhyOnline, ResetDue, Post
<1>2. intStat.cmd = NoCmd /\ intStat.reg = "none" /\ intStat'.cmd = NoCmd /\ intStat'.reg = "none"
      /\ intStat'.online = FALSE
  BY <1>1 DEF PhyOnline, Resets, NoIntr
<1>3. spoilt \/ Quiet
  BY <1>1 DEF Resets
<1>4. /\ At("fis")' = NoCmd /\ At("ctrl")' = At("ctrl") /\ At("held")' = At("held") /\ At("run")' = At("run")
      /\ At("slow")' \in {Reset(since), NoCmd} /\ (At("slow")' = NoCmd \/ At("run")' = NoCmd)
  BY <1>1, <1>2 DEF At, SlowLive
<1>5. Numbered'
  BY <1>1, <1>4, NumberedStay DEF Places
<1>6. One'
  BY <1>1, <1>3, <1>4, OnePost
<1>7. Resets'
  BY <1>1, <1>2, Ids DEF Resets, Quiet, ResetDue
<1>8. Accounted'
  BY <1>1, <1>3 DEF Accounted, Quiet
<1>9. Account'
  <2>1. UNCHANGED <<Free, AnyFis, NewFis, EntryFis, NewCtrl, NewHeld, AtSlow>>
    BY <1>1, <1>2, <1>4 DEF Free, AnyFis, NewFis, EntryFis, NewCtrl, NewHeld, AtSlow, New, Count
  <2>2. Due = 1
    BY <1>1 DEF Due, Count
  <2>3. QED
    BY <1>1, <2>1, <2>2, Counts, DueCount, Ids DEF Account, Coming
<1>10. QED
  BY <1>5, <1>6, <1>7, <1>8, <1>9

LEMMA FiqInv == ASSUME Core, TypeOK', Fiq PROVE Core'
BY RejectCommandInv, QueueReadWriteInv, QueueTrimInv, PostSlowInv, HandleSrstInv, PhyOnlineInv DEF Fiq

-----------------------------------------------------------------------------
(* The transfer engine and Main. *)

\* What a transfer is for is never as old as the last reset itself.
LEMMA Transfers ==
  ASSUME Core, NEW c \in Cmd, c # NoCmd, \E p \in {"held", "ctrl"} : c = At(p)
  PROVE  /\ c.id <= lastId /\ c.id \in Nat /\ c.id # since
         /\ c.id >= since => New(c) /\ Current(c) /\ since < lastId
<1>1. c.id <= lastId /\ c.id \in Nat /\ c.id # since
  BY Ids DEF Core, Numbered, Places
<1>2. QED
  BY <1>1, Ids DEF Core, New, Current

LEMMA TransferInv ==
  ASSUME Core, TypeOK', Transfer
  PROVE  Core'
<1> USE DEF queue, buffer, main, isr, host, Core
<1>1. /\ ctrl # NoCmd /\ ctrl' = NoCmd /\ phy /\ Answer(ctrl) /\ ctrl \in Cmd
      /\ UNCHANGED <<lastId, since, resets, asserted, phy, intStat, enabled, srst, slow, eq, eqFull, held,
                     pc, cur, lost>>
  BY DEF Transfer, TypeOK
<1>2. At("ctrl")' = NoCmd /\ At("ctrl") = ctrl /\ \A p \in Places \ {"ctrl"} : At(p)' = At(p)
  BY <1>1 DEF At, Places, SlowLive
<1>3. ctrl.id \in Nat /\ (ctrl.id >= since => New(ctrl) /\ since < lastId)
  BY <1>1, <1>2, Transfers
<1>4. \/ /\ phy /\ ~asserted /\ req # NoCmd /\ req' = NoCmd
         /\ ~spoilt' => ~spoilt /\ ctrl.id >= since
         /\ extra' \in {extra, extra + 1}
         /\ eqFull \/ ctrl.id < since => extra' = extra + 1
      \/ /\ req' = req /\ extra' = extra /\ spoilt' = spoilt
         /\ req = NoCmd \/ ~phy \/ asserted
  BY <1>1, AnswerCases
<1>5. Numbered'
  BY <1>1, <1>2, <1>4, NumberedStay DEF Places
<1>6. Resets'
  <2>1. asserted' \/ ~phy' => Quiet'
    BY <1>1, <1>4 DEF Resets, Quiet
  <2>2. ~spoilt' /\ ResetDue' => Quiet'
    BY <1>1, <1>3, <1>4, Ids DEF Resets, ResetDue, Quiet
  <2>3. enabled'
    BY <1>1 DEF Resets
  <2>4. QED BY <1>1, <2>1, <2>2, <2>3 DEF Resets, SlowLive, New
<1>7. One'
  BY <1>1, <1>2, OneAnswer DEF Places
<1>8. Accounted'
  BY <1>1, <1>4 DEF Accounted
<1>9. Account'
  <2>1. UNCHANGED <<NewFis, AnyFis, EntryFis, NewHeld, Due, AtSlow>> /\ NewCtrl' = 0
    BY <1>1, <1>2, Ids DEF NewFis, AnyFis, EntryFis, NewCtrl, NewHeld, Due, AtSlow, New, Current, ResetDue,
                           Places, Count
  <2>2. AnyFis = NewFis
    <3>1. intStat.cmd # NoCmd <=> New(intStat.cmd)
      BY <1>1, Ids DEF Resets
    <3>2. QED BY <3>1 DEF AnyFis, NewFis, Count
  <2>3. ctrl.id >= since => NewCtrl = 1
    BY <1>3 DEF NewCtrl, Count
  <2>4. CASE /\ req # NoCmd /\ req' = NoCmd /\ extra' \in {extra, extra + 1}
             /\ (eqFull \/ ctrl.id < since => extra' = extra + 1)
    <3>1. Free = 0 /\ Free' = 1
      BY <2>4 DEF Free, Count
    <3>2. extra' = extra + 1 \/ (NewCtrl = 1 /\ extra' = extra /\ ~eqFull)
      BY <1>3, <2>3, <2>4, Ids
    <3>3. Coming \in Nat /\ Coming' \in Nat /\ Coming' = Coming + 1 - NewCtrl
      BY <2>1, <3>1, Counts DEF Coming
    <3>4. eqFull' = eqFull /\ Len(eq') = Len(eq)
      BY <1>1
    <3>5. CASE extra' = extra + 1
      <4>1. (NewFis + NewCtrl + Free + NewHeld + Due <= 1 + extra)'
        BY <2>1, <3>1, <3>5, Counts, Ids DEF Account
      <4>2. eqFull => Len(eq') + EntryFis' + Free' <= FullAt + extra'
        BY <2>1, <3>1, <3>4, <3>5, Counts, Ids DEF Account
      <4>3. Coming' <= Coming + 1
        BY <3>3, Counts
      <4>4. ~eqFull => /\ Len(eq') < FullAt + extra'
                       /\ Len(eq') + Coming' <= FullAt + extra'
                       /\ Coming' <= 1 + extra'
                       /\ Len(eq') + AnyFis' + Free' <= FullAt + extra'
                       /\ AnyFis' + Free' <= 1 + extra'
        BY <2>1, <3>1, <3>3, <3>4, <3>5, <4>3, Counts, Ids DEF Account
      <4>5. QED BY <3>4, <4>1, <4>2, <4>4 DEF Account
    <3>6. CASE NewCtrl = 1 /\ extra' = extra /\ ~eqFull
      <4>1. NewFis + Free' <= Coming
        BY <2>1, <3>1, <3>6, Counts DEF Coming
      <4>2. QED BY <2>1, <2>2, <3>1, <3>3, <3>4, <3>6, <4>1, Counts, Ids DEF Account
    <3>7. QED BY <3>2, <3>5, <3>6
  <2>5. CASE req' = req /\ extra' = extra
    <3>1. Free' = Free
      BY <2>5 DEF Free
    <3>2. Coming \in Nat /\ Coming' \in Nat /\ Coming' <= Coming
      BY <2>1, <3>1, Counts DEF Coming
    <3>3. QED BY <1>1, <2>1, <2>5, <3>1, <3>2, Counts, Ids DEF Account
  <2>6. QED BY <1>4, <2>4, <2>5
<1>10. QED
  BY <1>5, <1>6, <1>7, <1>8, <1>9

\* Main runs with no frame and no interrupt waiting.
LEMMA MainRuns ==
  ASSUME Core, ~FiqPending
  PROVE  /\ enabled /\ ~intStat.online /\ intStat.cmd = NoCmd /\ intStat.reg = "none"
         /\ ResetDue <=> asserted \/ ~phy
         /\ NewFis = 0 /\ AnyFis = 0 /\ EntryFis = 0
<1>1. enabled /\ ~intStat.online /\ intStat.cmd = NoCmd /\ intStat.reg = "none"
  BY DEF FiqPending, Core, Resets
<1>2. QED
  BY <1>1, Ids DEF Core, ResetDue, NewFis, AnyFis, EntryFis, Count

LEMMA EventqGetInv ==
  ASSUME Core, TypeOK', ~FiqPending, EventqGet
  PROVE  Core'
<1> USE DEF queue, buffer, main, isr, host, Core
<1>1. /\ pc = "poll" /\ pc' = "ftl" /\ eq # <<>> /\ eq' = Tail(eq) /\ eqFull' = FALSE
      /\ ctrl' = IF eqFull /\ phy THEN held ELSE ctrl
      /\ UNCHANGED <<req, lastId, since, resets, asserted, phy, intStat, enabled, srst, slow, held, extra, lost>>
  BY DEF EventqGet, TakeEntry
<1>2. (spoilt => spoilt') /\ (~spoilt' => ~ (ctrl' # ctrl /\ held.id < since /\ ctrl.id > since))
  BY Zenon DEF EventqGet, TakeEntry
<1>3. Len(eq') = Len(eq) - 1 /\ Len(eq) \in Nat
  BY <1>1 DEF TypeOK
<1>4. /\ At("held")' = NoCmd /\ \A p \in {"fis", "slow", "run"} : At(p)' = At(p)
      /\ At("ctrl")' = (IF eqFull /\ phy THEN At("held") ELSE At("ctrl"))
  BY <1>1 DEF At, SlowLive
<1>5. Numbered'
  BY <1>1, <1>4, NumberedStay DEF Places
<1>6. Resets'
  BY <1>1, <1>2, MainRuns DEF Resets, ResetDue, Quiet, SlowLive, New
<1>7. One'
  <2>1. CASE eqFull /\ phy
    BY <1>1, <1>2, <1>4, <2>1, OneMove DEF Places
  <2>2. CASE ~ (eqFull /\ phy)
    BY <1>1, <1>2, <1>4, <2>2, OneStay DEF Places
  <2>3. QED BY <2>1, <2>2
<1>8. Accounted'
  <2>1. SUFFICES ASSUME req # NoCmd, ~spoilt', phy, ~asserted PROVE Accounted'
    BY <1>1 DEF Accounted
  <2>2. \/ slow.status = "PENDING" /\ slow.cmd = req
        \/ eqFull /\ held = req
        \/ ctrl = req
        \/ lost = req
    BY <1>1, <1>2, <2>1, MainRuns DEF Accounted
  <2>3. CASE ctrl = req /\ eqFull
    <3>1. ctrl.id = lastId /\ At("ctrl") = ctrl /\ At("held") = held /\ held # NoCmd /\ ctrl \in Cmd /\ held \in Cmd
      BY <2>1, <2>3, PlaceFacts DEF Numbered, TypeOK
    <3>2. ctrl.id > since /\ held.id # since
      BY <2>1, <2>3, <3>1, Transfers, Ids
    <3>3. CASE held.id >= since
      <4>1. held = req
        BY <1>2, <2>1, <3>1, <3>3, Transfers DEF One, Places
      <4>2. QED BY <1>1, <2>1, <2>3, <4>1 DEF Accounted
    <3>4. CASE held.id < since
      <4>1. ctrl' = held /\ held # ctrl
        BY <1>1, <2>1, <2>3, <3>2, <3>4, <3>1, Ids
      <4>2. QED BY <1>2, <2>1, <3>2, <3>4, <4>1
    <3>5. QED BY <3>1, <3>3, <3>4, Ids
  <2>4. CASE ctrl = req /\ ~eqFull
    BY <1>1, <2>4 DEF Accounted
  <2>5. QED BY <1>1, <2>1, <2>2, <2>3, <2>4 DEF Accounted
<1>9. Account'
  <2>1. UNCHANGED <<NewFis, AnyFis, EntryFis, Free, Due>> /\ NewHeld' = 0 /\ ~AtSlow' /\ NewFis = 0 /\ AnyFis = 0
        /\ EntryFis = 0
    BY <1>1, <1>4, Ids, MainRuns DEF NewFis, AnyFis, EntryFis, Free, NewHeld, Due, AtSlow, New, Current, ResetDue,
                           Places, Count
  <2>2. NewCtrl' \in {0, 1}
    BY DEF NewCtrl, Count
  <2>3. Coming' = NewCtrl' + Free /\ Coming \in Nat
    <3>1. NewFis' = 0 /\ Free' = Free /\ Free \in Nat
      BY <2>1, Counts
    <3>2. Coming' = 0 + NewCtrl' + Free + 0
      BY <2>1, <3>1 DEF Coming
    <3>3. Coming \in Nat
      BY Counts DEF Coming
    <3>4. QED BY <2>2, <3>1, <3>2, <3>3
  <2>4. CASE eqFull
    <3>1. NewCtrl' <= NewHeld
      <4>1. CASE phy
        <5>1. ctrl' = At("held")
          BY <1>1, <2>4, <4>1, PlaceFacts
        <5>2. New(ctrl)' <=> New(At("held"))
          BY <1>1, <5>1 DEF New
        <5>3. NewCtrl' = NewHeld
          BY <5>2 DEF NewCtrl, NewHeld, Count
        <5>4. QED BY <5>3, Counts
      <4>2. CASE ~phy
        <5>1. since = lastId
          BY <4>2 DEF Resets, Quiet
        <5>2. ctrl = NoCmd \/ ctrl.id <= lastId
          BY PlaceFacts DEF Numbered, Places
        <5>3. ~New(ctrl)
          BY <5>1, <5>2, PlaceFacts, Ids DEF New, Places
        <5>4. NewCtrl' = 0
          BY <1>1, <4>2, <5>3 DEF NewCtrl, New, Count
        <5>5. QED BY <5>4, Counts
      <4>3. QED BY <4>1, <4>2
    <3>2. Len(eq) + Free <= FullAt + extra /\ NewCtrl + Free + NewHeld + Due <= 1 + extra
      BY <2>1, <2>4, Counts, Ids DEF Account
    <3>3. QED BY <1>1, <1>3, <2>1, <2>2, <2>3, <3>1, <3>2, Counts, Ids, FullAtAssumption DEF Account
  <2>5. CASE ~eqFull
    <3>1. NewCtrl' = NewCtrl
      BY <1>1, <2>5 DEF NewCtrl, New
    <3>2. Coming' <= Coming
      BY <2>1, <2>3, <3>1, Counts DEF Coming
    <3>3. NewCtrl + Free + Due <= 1 + extra
      BY <2>1, Counts, Ids DEF Account
    <3>4. QED BY <1>1, <1>3, <2>1, <2>2, <2>3, <2>5, <3>1, <3>2, <3>3, Counts, Ids, FullAtAssumption DEF Account
  <2>6. QED BY <2>4, <2>5
<1>10. QED
  BY <1>5, <1>6, <1>7, <1>8, <1>9

\* The steps of Main that only look.
LEMMA LooksInv ==
  ASSUME Core, TypeOK', ~FiqPending, RunFtl \/ QueueEmpty \/ TestSlow \/ SetBusy
  PROVE  Core'
<1> USE DEF queue, buffer, main, isr, host, Core
<1>1. UNCHANGED <<req, lastId, since, resets, asserted, phy, intStat, enabled, srst, eq, eqFull, held, extra,
                  ctrl, cur, lost, spoilt>> /\ slow'.cmd = slow.cmd
  BY DEF RunFtl, QueueEmpty, TestSlow, SetBusy, Goto, TypeOK
<1>2. \/ pc = "ftl" /\ pc' = "poll" /\ UNCHANGED slow
      \/ pc = "poll" /\ pc' = "test" /\ UNCHANGED slow /\ eq = <<>>
      \/ pc = "test" /\ pc' = "busy" /\ UNCHANGED slow /\ slow.status = "PENDING"
      \/ pc = "test" /\ pc' = "poll" /\ UNCHANGED slow
      \/ pc = "busy" /\ pc' = "fetch" /\ slow.status = "PENDING"
  BY DEF RunFtl, QueueEmpty, TestSlow, SetBusy, Goto, Resets
<1>3. SlowLive' = SlowLive
  BY <1>1, <1>2 DEF SlowLive
<1>4. \A p \in Places : At(p)' = At(p)
  BY <1>1, <1>2, <1>3 DEF At, Places
<1>5. Numbered' /\ One'
  BY <1>1, <1>4, NumberedStay, OneStay DEF Places
<1>6. Resets'
  BY <1>1, <1>2, <1>3 DEF Resets, Quiet, ResetDue, New
<1>7. Accounted'
  BY <1>1, <1>2 DEF Accounted
<1>8. Account'
  <2>1. UNCHANGED <<Free, AnyFis, NewFis, EntryFis, NewCtrl, NewHeld, Due>>
    BY <1>1, <1>4 DEF Free, AnyFis, NewFis, EntryFis, NewCtrl, NewHeld, Due, New, Current, ResetDue, Places
  <2>2. CASE AtSlow' => AtSlow
    <3>1. Coming \in Nat /\ Coming' \in Nat /\ Coming' <= Coming
      BY <2>1, <2>2, Counts DEF Coming
    <3>2. QED BY <1>1, <2>1, <3>1, Counts, Ids DEF Account
  <2>3. CASE eq = <<>> /\ ~AtSlow /\ AtSlow'
    <3>1. Coming' = NewFis + NewCtrl + Free + Due /\ Len(eq) = 0 /\ ~eqFull
      BY <2>1, <2>3 DEF Coming, Resets
    <3>2. QED BY <1>1, <2>1, <3>1, Counts, Ids, FullAtAssumption DEF Account
  <2>4. QED BY <1>2, <2>2, <2>3 DEF AtSlow
<1>9. QED
  BY <1>5, <1>6, <1>7, <1>8

LEMMA FetchCodeInv ==
  ASSUME Core, TypeOK', ~FiqPending, FetchCode
  PROVE  Core'
<1> USE DEF queue, buffer, main, isr, host, Core
<1>1. /\ pc = "fetch" /\ pc' = "run" /\ cur' = slow.cmd
      /\ UNCHANGED <<req, lastId, since, resets, asserted, phy, intStat, enabled, srst, slow, eq, eqFull, held,
                     extra, ctrl, lost, spoilt>>
  BY DEF FetchCode, Goto
<1>2. /\ At("slow") = slow.cmd /\ At("slow")' = NoCmd /\ At("run") = NoCmd /\ At("run")' = slow.cmd
      /\ \A p \in {"fis", "held", "ctrl"} : At(p)' = At(p)
  BY <1>1 DEF At, SlowLive
<1>3. Numbered'
  <2>1. At("run")' = At("slow")
    BY <1>2
  <2>2. QED BY <1>1, <1>2, <2>1, NumberedStay DEF Places
<1>4. One'
  BY <1>1, <1>2, OneMove DEF Places
<1>5. Resets'
  BY <1>1 DEF Resets, Quiet, ResetDue, SlowLive, New
<1>6. Accounted'
  BY <1>1 DEF Accounted
<1>7. Account'
  <2>1. UNCHANGED <<Free, AnyFis, NewFis, EntryFis, NewCtrl, NewHeld>>
    BY <1>1, <1>2 DEF Free, AnyFis, NewFis, EntryFis, NewCtrl, NewHeld, New
  <2>2. Due' <= Due
    BY <1>1, <1>2, Ids DEF Due, ResetDue, Current, Count
  <2>3. AtSlow /\ AtSlow'
    BY <1>1 DEF AtSlow
  <2>4. Coming \in Nat /\ Coming' \in Nat /\ Coming' <= Coming
    BY <2>1, <2>2, <2>3, Counts, DueCount DEF Coming
  <2>5. QED BY <1>1, <2>1, <2>2, <2>4, Counts, DueCount, Ids DEF Account
<1>8. QED
  BY <1>3, <1>4, <1>5, <1>6, <1>7

LEMMA RunSlowInv ==
  ASSUME Core, TypeOK', ~FiqPending, RunSlow
  PROVE  Core'
<1> USE DEF queue, buffer, main, isr, host, Core
<1>1. /\ pc = "run" /\ pc' = "clear" /\ Answer(cur) /\ cur \in Cmd /\ cur # NoCmd
      /\ UNCHANGED <<lastId, since, resets, asserted, phy, intStat, enabled, srst, slow, eq, eqFull, held,
                     ctrl, cur, lost>>
  BY DEF RunSlow, TypeOK, Resets
<1>2. /\ At("run") = cur /\ At("run")' = NoCmd /\ At("slow")' = NoCmd /\ At("slow") = NoCmd
      /\ \A p \in {"fis", "held", "ctrl"} : At(p)' = At(p)
  BY <1>1 DEF At, SlowLive
<1>3. \/ /\ phy /\ ~asserted /\ req # NoCmd /\ req' = NoCmd
         /\ ~spoilt' => ~spoilt /\ cur.id >= since
         /\ extra' \in {extra, extra + 1}
         /\ eqFull \/ cur.id < since => extra' = extra + 1
      \/ /\ req' = req /\ extra' = extra /\ spoilt' = spoilt
         /\ req = NoCmd \/ ~phy \/ asserted
  BY <1>1, AnswerCases
<1>4. Numbered'
  BY <1>1, <1>2, <1>3, NumberedStay DEF Places
<1>5. Resets'
  BY <1>1, <1>3, MainRuns DEF Resets, Quiet, ResetDue, SlowLive, New
<1>6. One'
  BY <1>1, <1>2, OneAnswer DEF Places
<1>7. Accounted'
  BY <1>1, <1>3 DEF Accounted
<1>8. Account'
  <2>1. UNCHANGED <<AnyFis, NewFis, EntryFis, NewCtrl, NewHeld>> /\ NewFis = 0 /\ AnyFis = 0 /\ EntryFis = 0
    BY <1>1, <1>2, MainRuns DEF AnyFis, NewFis, EntryFis, NewCtrl, NewHeld, New
  <2>2. Due' <= Due /\ AtSlow /\ ~AtSlow'
    BY <1>1, <1>2, Ids DEF Due, ResetDue, Current, Count, AtSlow
  <2>3. Coming = NewCtrl + Free + Due /\ Coming' = NewCtrl + Free'
    <3>1. Free \in Nat /\ Free' \in Nat /\ NewCtrl \in Nat /\ Due \in Nat
      BY Counts DEF Free, Count
    <3>2. Coming = 0 + NewCtrl + Free + Due
      BY <2>1, <2>2 DEF Coming
    <3>3. Coming' = 0 + NewCtrl + Free' + 0
      BY <2>1, <2>2 DEF Coming
    <3>4. QED BY <3>1, <3>2, <3>3
  <2>4. eqFull' = eqFull /\ Len(eq') = Len(eq)
    BY <1>1
  <2>5. CASE /\ phy /\ ~asserted /\ req # NoCmd /\ req' = NoCmd /\ extra' \in {extra, extra + 1}
             /\ (eqFull \/ cur.id < since => extra' = extra + 1)
    <3>1. Free = 0 /\ Free' = 1
      BY <2>5 DEF Free, Count
    <3>2. Due' = 0
      BY <1>1, <1>2, <2>5, MainRuns, Ids DEF Due, ResetDue, Current, Count
    <3>3. cur.id >= since => Due = 1
      BY <1>1, <1>2 DEF Due, Current, Count
    <3>4. extra' = extra + 1 \/ (Due = 1 /\ extra' = extra /\ ~eqFull)
      BY <1>1, <2>5, <3>3, Ids
    <3>5. CASE extra' = extra + 1
      BY <2>1, <2>3, <2>4, <3>1, <3>2, <3>5, Counts, Ids DEF Account
    <3>6. CASE Due = 1 /\ extra' = extra /\ ~eqFull
      BY <2>1, <2>3, <2>4, <3>1, <3>2, <3>6, Counts, Ids DEF Account
    <3>7. QED BY <3>4, <3>5, <3>6
  <2>6. CASE req' = req /\ extra' = extra
    <3>1. Free' = Free
      BY <2>6 DEF Free
    <3>2. QED BY <2>1, <2>2, <2>3, <2>4, <2>6, <3>1, Counts, DueCount, Ids DEF Account
  <2>7. QED BY <1>3, <2>5, <2>6
<1>9. QED
  BY <1>4, <1>5, <1>6, <1>7, <1>8

LEMMA ClearSlowInv ==
  ASSUME Core, Lost, TypeOK', ~FiqPending, ClearSlow
  PROVE  Core'
<1> USE DEF queue, buffer, main, isr, host, Core
<1>1. /\ pc = "clear" /\ pc' = "poll" /\ slow'.status = "NONE"
      /\ lost' = IF slow.status = "PENDING" THEN slow.cmd ELSE lost
      /\ UNCHANGED <<req, lastId, since, resets, asserted, phy, intStat, enabled, srst, eq, eqFull, held,
                     extra, ctrl, cur, spoilt>>
  BY DEF ClearSlow, TypeOK
<1>2. \A p \in Places : At(p)' = At(p)
  BY <1>1 DEF At, Places, SlowLive
<1>3. Numbered' /\ One'
  BY <1>1, <1>2, NumberedStay, OneStay DEF Places
<1>4. Resets'
  BY <1>1 DEF Resets, Quiet, ResetDue, SlowLive, New
<1>5. Accounted'
  BY <1>1, MainRuns DEF Accounted, Lost, ResetDue
<1>6. Account'
  <2>1. UNCHANGED <<Free, AnyFis, NewFis, EntryFis, NewCtrl, NewHeld, Due>> /\ ~AtSlow /\ ~AtSlow'
    BY <1>1, <1>2 DEF Free, AnyFis, NewFis, EntryFis, NewCtrl, NewHeld, Due, New, Current, ResetDue, Places, AtSlow
  <2>2. QED BY <1>1, <2>1, Counts, Ids DEF Account, Coming
<1>7. QED
  BY <1>3, <1>4, <1>5, <1>6

LEMMA CoreStep == IInv /\ Next => Core'
<1> SUFFICES ASSUME IInv, Next PROVE Core'
  OBVIOUS
<1>1. Core /\ TypeOK' /\ Lost
  BY TypeStep DEF IInv, Core
<1>2. ASSUME NEW k \in Kinds, SendCommand(k) PROVE Core'
  BY <1>1, <1>2, SendCommandInv
<1>3. CASE AssertSrst \/ LinkDown
  BY <1>1, <1>3, StartResetInv
<1>4. CASE ReleaseSrst \/ LinkUp \/ Transfer \/ Fiq
  BY <1>1, <1>4, ReleaseSrstInv, LinkUpInv, TransferInv, FiqInv
<1>5. CASE Main
  BY <1>1, <1>5, EventqGetInv, LooksInv, FetchCodeInv, RunSlowInv, ClearSlowInv DEF Main, MainStep
<1>6. QED
  BY <1>2, <1>3, <1>4, <1>5 DEF Next

-----------------------------------------------------------------------------
(* What was overwritten in the mailbox. *)

\* Nothing but req changes among what Lost is about, and that only to NoCmd.
LEMMA LostStay ==
  ASSUME Lost, UNCHANGED <<lastId, slow, lost>>, spoilt => spoilt', ResetDue' <=> ResetDue,
         req' \in {req, NoCmd}
  PROVE  Lost'
BY DEF Lost

\* A reset is on its way: only the numbers matter.
LEMMA LostDue ==
  ASSUME TypeOK, TypeOK', Lost, UNCHANGED <<slow, lost>>, ResetDue', lastId' \in {lastId, lastId + 1}
  PROVE  Lost'
<1>1. slow.cmd.id \in Nat /\ lost.id \in Nat /\ lastId \in Nat
  BY TypeFacts, Ids DEF TypeOK
<1>2. QED
  BY <1>1 DEF Lost

LEMMA HostLost ==
  ASSUME IInv, TypeOK',
         (\E k \in Kinds : SendCommand(k)) \/ AssertSrst \/ ReleaseSrst \/ LinkDown \/ LinkUp
  PROVE  Lost'
<1> USE DEF queue, buffer, main, isr, host, Core, IInv
<1>1. ASSUME NEW k \in Kinds, SendCommand(k) PROVE Lost'
  <2>1. /\ lastId' = lastId + 1 /\ req' = [kind |-> k, id |-> lastId + 1]
        /\ slow' = slow /\ lost' = lost
    BY <1>1 DEF SendCommand
  <2>2. slow.cmd.id \in Nat /\ lost.id \in Nat /\ lastId \in Nat
    BY TypeFacts, Ids DEF TypeOK
  <2>3. lost' # req' /\ slow'.cmd.id <= lastId' /\ lost'.id <= lastId'
    BY <2>1, <2>2 DEF Lost
  <2>4. QED BY <2>3 DEF Lost
<1>2. CASE AssertSrst \/ LinkDown
  <2>1. UNCHANGED <<slow, lost>> /\ (asserted' \/ ~phy') /\ lastId' = lastId + 1
    BY <1>2, StartResetType DEF AssertSrst, LinkDown
  <2>2. QED BY <2>1, LostDue DEF ResetDue
<1>3. CASE ReleaseSrst \/ LinkUp
  <2>1. UNCHANGED <<slow, lost, lastId>> /\ (intStat'.reg = "release" \/ intStat'.online)
    BY <1>3 DEF ReleaseSrst, LinkUp, TypeOK
  <2>2. QED BY <2>1, LostDue DEF ResetDue
<1>4. QED
  BY <1>1, <1>2, <1>3

LEMMA FiqLost ==
  ASSUME IInv, TypeOK', Fiq
  PROVE  Lost'
<1> USE DEF queue, buffer, main, isr, host, Core, IInv
<1>1. CASE RejectCommand
  <2>1. /\ UNCHANGED <<lastId, slow, lost, asserted, phy>> /\ intStat.cmd \in Cmd /\ Answer(intStat.cmd)
        /\ intStat' = [intStat EXCEPT !.cmd = NoCmd]
    BY <1>1, TypeFacts DEF RejectCommand, GotCfis
  <2>2. ResetDue' <=> ResetDue
    BY <2>1 DEF ResetDue, TypeOK
  <2>3. (spoilt => spoilt') /\ req' \in {req, NoCmd}
    BY <2>1, AnswerType, AnswerCases
  <2>4. QED BY <2>1, <2>2, <2>3, LostStay
<1>2. CASE QueueReadWrite \/ QueueTrim
  <2>1. /\ UNCHANGED <<lastId, slow, lost, asserted, phy, req, spoilt>>
        /\ intStat' = [intStat EXCEPT !.cmd = NoCmd]
    BY <1>2 DEF QueueReadWrite, QueueTrim, GotCfis
  <2>2. ResetDue' <=> ResetDue
    BY <2>1 DEF ResetDue, TypeOK
  <2>3. QED BY <2>1, <2>2, LostStay
<1>3. CASE PostSlow
  <2>1. /\ UNCHANGED <<lastId, lost, asserted, phy, req, spoilt>> /\ intStat.cmd # NoCmd
        /\ intStat' = [intStat EXCEPT !.cmd = NoCmd]
        /\ slow' = [status |-> "PENDING", cmd |-> intStat.cmd]
    BY <1>3 DEF PostSlow, GotCfis, Post
  <2>2. ResetDue' <=> ResetDue
    BY <2>1 DEF ResetDue, TypeOK
  <2>3. slow'.cmd = intStat.cmd /\ intStat.cmd.id <= lastId
    BY <2>1, TakenFrame DEF Numbered, Places
  <2>4. ~spoilt /\ ~ResetDue => intStat.cmd = req
    BY <2>1, TakenFrame DEF ResetDue
  <2>5. QED BY <2>1, <2>2, <2>3, <2>4 DEF Lost
<1>4. CASE PhyOnline \/ HandleSrst
  <2>1. UNCHANGED <<lastId, lost, asserted, phy, req, since, spoilt>> /\ ResetDue /\ (spoilt \/ Quiet)
    BY <1>4 DEF PhyOnline, HandleSrst, ResetDue, Resets
  <2>2. CASE slow' = [status |-> "PENDING", cmd |-> Reset(since)]
    BY <2>1, <2>2, Ids DEF Lost, Quiet
  <2>3. CASE UNCHANGED slow /\ (asserted \/ ~phy)
    BY <2>1, <2>3, LostDue DEF ResetDue
  <2>4. QED
    <3>1. CASE PhyOnline
      BY <2>2, <3>1 DEF PhyOnline, Post
    <3>2. CASE HandleSrst
      <4>1. \/ intStat.reg = "release" /\ srst /\ slow' = [status |-> "PENDING", cmd |-> Reset(since)]
            \/ ~ (intStat.reg = "release" /\ srst) /\ UNCHANGED slow /\ intStat.reg # "none"
        BY <3>2 DEF HandleSrst, Post
      <4>2. intStat.reg \in {"none", "assert", "release"}
        BY DEF TypeOK
      <4>3. CASE slow' = [status |-> "PENDING", cmd |-> Reset(since)]
        BY <2>2, <4>3
      <4>4. CASE ~ (intStat.reg = "release" /\ srst) /\ UNCHANGED slow /\ intStat.reg # "none"
        BY <2>3, <4>2, <4>4 DEF Resets
      <4>5. QED BY <4>1, <4>3, <4>4
    <3>3. QED BY <1>4, <3>1, <3>2
<1>5. QED
  BY <1>1, <1>2, <1>3, <1>4 DEF Fiq

LEMMA MainLost ==
  ASSUME IInv, TypeOK', Transfer \/ MainStep
  PROVE  Lost'
<1> USE DEF queue, buffer, main, isr, host, Core, IInv
<1>1. CASE Transfer \/ RunSlow
  <2>1. UNCHANGED <<lastId, slow, lost, asserted, phy, intStat>> /\ \E c \in Cmd : Answer(c)
    BY <1>1 DEF Transfer, RunSlow, TypeOK
  <2>2. (spoilt => spoilt') /\ req' \in {req, NoCmd}
    BY <2>1, AnswerType, AnswerCases
  <2>3. QED BY <2>1, <2>2, LostStay DEF ResetDue
<1>2. CASE EventqGet
  <2>1. UNCHANGED <<lastId, slow, lost, asserted, phy, intStat, req>>
    BY <1>2 DEF EventqGet, TakeEntry
  <2>2. spoilt => spoilt'
    BY <1>2, Zenon DEF EventqGet, TakeEntry
  <2>3. QED BY <2>1, <2>2, LostStay DEF ResetDue
<1>3. CASE RunFtl \/ QueueEmpty \/ TestSlow \/ FetchCode
  <2>1. UNCHANGED <<lastId, slow, lost, asserted, phy, intStat, req, spoilt>>
    BY <1>3 DEF RunFtl, QueueEmpty, TestSlow, FetchCode, Goto
  <2>2. QED BY <2>1, LostStay DEF ResetDue
<1>4. CASE SetBusy
  <2>1. UNCHANGED <<lastId, lost>> /\ slow'.cmd = slow.cmd /\ slow'.status = "BUSY"
    BY <1>4 DEF SetBusy, Goto, TypeOK
  <2>2. QED BY <2>1 DEF Lost
<1>5. CASE ClearSlow
  <2>1. UNCHANGED lastId /\ slow'.cmd = slow.cmd /\ slow'.status = "NONE" /\ lost' \in {slow.cmd, lost}
    BY <1>5 DEF ClearSlow, TypeOK
  <2>2. QED BY <2>1 DEF Lost
<1>6. QED
  BY <1>1, <1>2, <1>3, <1>4, <1>5 DEF MainStep

-----------------------------------------------------------------------------
(* The invariant. *)

LEMMA InitInv == Init => IInv
<1> SUFFICES ASSUME Init PROVE IInv
  OBVIOUS
<1>1. /\ TypeOK /\ req = Reset(0) /\ lastId = 0 /\ since = 0 /\ asserted = FALSE /\ phy = TRUE
      /\ intStat.cmd = NoCmd /\ intStat.reg = "none" /\ intStat.online
      /\ enabled = FALSE /\ slow.status = "NONE" /\ slow.cmd = NoCmd
      /\ eq = <<>> /\ eqFull = FALSE /\ held = NoCmd /\ ctrl = NoCmd /\ pc = "poll" /\ cur = NoCmd
      /\ lost = NoCmd /\ extra = 0 /\ spoilt = FALSE
  BY InitType DEF Init, NoIntr
<1>2. \A p \in Places : At(p) = NoCmd
  BY <1>1 DEF At, Places, SlowLive
<1>3. Quiet /\ NoCmd.id = 0 /\ ResetDue
  BY <1>1 DEF Quiet, NoCmd, ResetDue
<1>4. Numbered
  BY <1>1, <1>2, <1>3, Ids DEF Numbered, Places
<1>5. Resets
  BY <1>1, <1>3 DEF Resets, SlowLive
<1>6. One
  BY <1>1, <1>2, Ids DEF One
<1>7. Accounted /\ Lost
  BY <1>1, <1>3 DEF Accounted, Lost
<1>8. Account
  <2>1. NewFis = 0 /\ NewCtrl = 0 /\ NewHeld = 0 /\ AnyFis = 0 /\ EntryFis = 0 /\ Free = 0 /\ Due = 1
    BY <1>1, <1>2, <1>3, Ids DEF NewFis, NewCtrl, NewHeld, AnyFis, EntryFis, Free, Due, Count, Places
  <2>2. Coming = 0 + 0 + 0 + 0
    BY <1>1, <2>1 DEF Coming, AtSlow
  <2>3. Len(eq) = 0
    BY <1>1
  <2>4. QED BY <1>1, <2>1, <2>2, <2>3, FullAtAssumption DEF Account
<1>9. QED
  BY <1>1, <1>4, <1>5, <1>6, <1>7, <1>8 DEF IInv, Core

LEMMA StutterInv == IInv /\ UNCHANGED vars => IInv'
<1> SUFFICES ASSUME IInv, UNCHANGED vars PROVE IInv'
  OBVIOUS
<1>1. UNCHANGED <<req, lastId, since, resets, asserted, phy, intStat, enabled, srst, slow, eq, eqFull, held,
                  extra, ctrl, pc, cur, lost, spoilt>>
  BY DEF vars, queue, buffer, main, isr, host
<1>2. TypeOK'
  BY <1>1 DEF IInv, Core, TypeOK
<1>3. (SlowLive' <=> SlowLive) /\ (ResetDue' <=> ResetDue) /\ (Quiet' <=> Quiet) /\ (AtSlow' <=> AtSlow)
  BY <1>1 DEF SlowLive, ResetDue, Quiet, AtSlow
<1>4. \A p \in Places : At(p)' = At(p)
  BY <1>1, <1>3 DEF At, Places
<1>5. Numbered' /\ One'
  BY <1>1, <1>4, NumberedStay, OneStay DEF IInv, Core, Places
<1>6. Resets' /\ Accounted'
  BY <1>1, <1>3 DEF IInv, Core, Resets, Accounted, New
<1>7. UNCHANGED <<Free, AnyFis, NewFis, EntryFis, NewCtrl, NewHeld>>
  BY <1>1, <1>4 DEF Free, AnyFis, NewFis, EntryFis, NewCtrl, NewHeld, New, Places
<1>8. Due' = Due
  BY <1>1, <1>3, <1>4 DEF Due, Current, Places
<1>9. Account'
  BY <1>1, <1>3, <1>7, <1>8 DEF IInv, Core, Account, Coming
<1>10. Lost'
  BY <1>1, <1>3, LostStay DEF IInv
<1>11. QED
  BY <1>2, <1>5, <1>6, <1>9, <1>10 DEF IInv, Core

LEMMA StepInv == IInv /\ [Next]_vars => IInv'
<1> SUFFICES ASSUME IInv, [Next]_vars PROVE IInv'
  OBVIOUS
<1>1. CASE Next
  <2>1. TypeOK' /\ Core'
    BY <1>1, TypeStep, CoreStep DEF IInv, Core
  <2>2. Lost'
    BY <1>1, <2>1, HostLost, FiqLost, MainLost DEF Next, Main
  <2>3. QED BY <2>1, <2>2 DEF IInv
<1>2. QED
  BY <1>1, StutterInv

\* Every state of the command intake satisfies the inductive invariant: at most one place
\* of the device holds what the host waits for, and the queue's account is kept.
THEOREM Invariant == Spec => []IInv
BY InitInv, StepInv, PTL DEF Spec

\* The types of the command intake's variables (sata_isr.c, sata_main.c).
THEOREM TypeCorrect == Spec => []TypeOK
<1>1. IInv => TypeOK
  BY DEF IInv, Core
<1>2. QED
  BY <1>1, Invariant, PTL

\* What the host waits for is in the device, or was overwritten in the mailbox
\* while Main ran the entry before it.
THEOREM NothingForgotten == Spec => []Accounted
<1>1. IInv => Accounted
  BY DEF IInv, Core
<1>2. QED
  BY <1>1, Invariant, PTL

\* The Event Queue outgrows the level at which fiq_handler withholds transfers by no more
\* than the TRIMs let in and the answers the host took out of turn.
THEOREM QueueBounded == Spec => []EqBounded
<1>1. IInv => EqBounded
  <2>1. SUFFICES ASSUME IInv PROVE Len(eq) <= FullAt + extra
    BY DEF EqBounded
  <2>2. /\ Account /\ Len(eq) \in Nat /\ FullAt \in Nat /\ extra \in Nat
        /\ EntryFis \in {0, 1} /\ Free \in {0, 1}
    BY <2>1, Counts, Ids DEF IInv, Core
  <2>3. CASE eqFull
    BY <2>2, <2>3 DEF Account
  <2>4. CASE ~eqFull
    BY <2>2, <2>4 DEF Account
  <2>5. QED BY <2>3, <2>4
<1>2. QED
  BY <1>1, Invariant, PTL

\* A transfer withheld by fiq_handler has a queue entry with which eventq_get starts it,
\* and is for the command the host waits for.
THEOREM HeldIsCurrent == Spec => []HeldCommand
<1>1. IInv => HeldCommand
  <2>1. SUFFICES ASSUME IInv, eqFull PROVE eq # <<>> /\ (held.id > since /\ ~spoilt => held = req)
    BY DEF HeldCommand
  <2>2. eq # <<>> /\ held # NoCmd /\ held \in Cmd /\ At("held") = held
    BY <2>1, PlaceFacts DEF IInv, Core, Resets, TypeOK
  <2>3. held.id > since => Current(held)
    BY <2>1, <2>2, Ids DEF Current, IInv, Core
  <2>4. QED BY <2>1, <2>2, <2>3 DEF IInv, Core, One, Places
<1>2. QED
  BY <1>1, Invariant, PTL

\* Main runs, or the engine ends, a command sent since the last reset while the host waits for it.
Fits == /\ (pc = "run" /\ pc' = "clear" /\ cur.id > since /\ ~spoilt) => req = cur
        /\ (ctrl # NoCmd /\ ctrl' = NoCmd /\ ctrl.id > since' /\ ~spoilt) => req = ctrl

\* An answer to a command sent since the last reset, from Main or with the end of a
\* transfer, finds the host waiting for that command.
THEOREM AnswersRight == Spec => [][Fits]_vars
<1>1. IInv /\ [Next]_vars => [Fits]_vars
  <2>1. SUFFICES ASSUME IInv, ~spoilt, [Next]_vars PROVE Fits
    BY DEF Fits
  <2>2. TypeOK /\ One /\ \A c \in Cmd : c.id > since => Current(c) \/ c = NoCmd
    BY <2>1, Ids DEF IInv, Core, Current
  <2>3. pc = "run" /\ cur.id > since => req = cur
    <3>1. SUFFICES ASSUME pc = "run", cur.id > since PROVE req = cur
      OBVIOUS
    <3>2. At("run") = cur /\ cur \in Cmd /\ cur # NoCmd
      BY <2>1, <2>2, <3>1, PlaceFacts DEF IInv, Core, Resets, TypeOK
    <3>3. QED BY <2>1, <2>2, <3>1, <3>2 DEF One, Places
  <2>4. ctrl # NoCmd /\ ctrl.id > since => req = ctrl
    <3>1. SUFFICES ASSUME ctrl # NoCmd, ctrl.id > since PROVE req = ctrl
      OBVIOUS
    <3>2. At("ctrl") = ctrl /\ ctrl \in Cmd
      BY <2>2, PlaceFacts DEF TypeOK
    <3>3. QED BY <2>1, <2>2, <3>1, <3>2 DEF One, Places
  <2>5. ctrl # NoCmd /\ ctrl.id > since' => ctrl.id > since
    <3>1. since' >= since /\ since \in Nat /\ since' \in Nat /\ (ctrl # NoCmd => ctrl.id \in Nat)
      <4>1. TypeOK' /\ ctrl \in Cmd
        BY <2>1, TypeStep, StepInv DEF IInv, Core, TypeOK
      <4>2. since' = since \/ StartReset
        BY <2>1 DEF Next, vars, host, SendCommand, AssertSrst, ReleaseSrst, LinkDown, LinkUp, Transfer, Fiq,
             RejectCommand, QueueReadWrite, QueueTrim, PostSlow, HandleSrst, PhyOnline, Main, MainStep,
             EventqGet, TakeEntry, RunFtl, QueueEmpty, TestSlow, SetBusy, FetchCode, RunSlow, ClearSlow, Goto
      <4>3. StartReset => since' = lastId + 1
        BY DEF StartReset
      <4>4. since \in Nat /\ lastId \in Nat /\ since <= lastId /\ ctrl.id \in Nat
        BY <2>2, <4>1, Ids
      <4>5. QED BY <4>2, <4>3, <4>4
    <3>2. QED BY <3>1
  <2>6. QED BY <2>1, <2>3, <2>4, <2>5 DEF Fits
<1>2. QED
  BY <1>1, Invariant, PTL DEF Spec

-----------------------------------------------------------------------------
(* The command intake implements CommandServer.  By One and Resets what is inside is what the  *)
(* host waits for, if anything; so of each step it is enough to know whether it is still there. *)

Has == ResetDue \/ \E p \in Places : Current(At(p))

InsideReq == ~spoilt => /\ Inside = IF Has THEN {req} ELSE {}
                        /\ Has => req # NoCmd
                        /\ ResetDue => req = Reset(since)

LEMMA InsideIs == Core => InsideReq
<1> SUFFICES ASSUME Core, ~spoilt
             PROVE  /\ Inside = IF Has THEN {req} ELSE {}
                    /\ Has => req # NoCmd
                    /\ ResetDue => req = Reset(since)
  BY DEF InsideReq
<1>1. ResetDue => req = Reset(since) /\ Current(req)
  BY Ids DEF Core, Resets, Quiet, Current
<1>2. \A p \in Places : Current(At(p)) => At(p) = req
  BY DEF Core, One
<1>3. Inside = {c \in {At(p) : p \in Places} \cup (IF ResetDue THEN {req} ELSE {}) : Current(c)}
  BY DEF Inside
<1>4. CASE Has
  <2>1. req \in Inside
    BY <1>1, <1>2, <1>3, <1>4 DEF Has
  <2>2. \A c \in Inside : c = req
    BY <1>2, <1>3
  <2>3. req # NoCmd
    BY <1>1, <1>2, <1>4 DEF Has, Current
  <2>4. QED BY <1>1, <1>4, <2>1, <2>2, <2>3
<1>5. CASE ~Has
  BY <1>3, <1>5 DEF Has
<1>6. QED BY <1>4, <1>5

LEMMA InsideNext == Core' => InsideReq'
BY InsideIs, PTL

\* A step after which all is in doubt as before.
LEMMA DoubtStays ==
  ASSUME spoilt, spoilt', since' = since, req' \in {req, NoCmd}
  PROVE  [Server!Next]_(Server!vars)
BY DEF Server!Next, Server!AnyAnswer, Server!vars

\* A step after which the same is inside.
LEMMA SameInside ==
  ASSUME Core, Core', UNCHANGED <<req, since, spoilt>>, spoilt \/ (Has' <=> Has)
  PROVE  UNCHANGED Server!vars
BY InsideIs, InsideNext DEF InsideReq, Server!vars

\* The mailbox loses what came while Main ends the entry before.
LEMMA Forgets ==
  ASSUME Core, Core', UNCHANGED <<req, since, spoilt>>,
         ~spoilt, Has' => Has, Has /\ ~Has' => req.kind \in {"slow", "srst"}
  PROVE  [Server!Next]_(Server!vars)
<1>1. CASE Has' <=> Has
  BY <1>1, SameInside
<1>2. CASE Has /\ ~Has'
  <2>1. req \in [kind : {"slow", "srst"}, id : 0 .. MaxId]
    BY <1>2 DEF Core, TypeOK, Cmd
  <2>2. QED BY <1>2, <2>1, InsideIs, InsideNext DEF InsideReq, Server!Next, Server!Forget
<1>3. QED BY <1>1, <1>2

\* The answer to what a place holds.
LEMMA AnswerServes ==
  ASSUME Core, Core', NEW p \in Places, At(p) # NoCmd, Answer(At(p)), UNCHANGED since,
         ResetDue' <=> ResetDue, At(p)' = NoCmd, \A r \in Places \ {p} : At(r)' = At(r)
  PROVE  [Server!Next]_(Server!vars)
<1>0. spoilt \in BOOLEAN /\ spoilt' \in BOOLEAN
  BY DEF Core, TypeOK
<1>1. At(p) \in Cmd /\ TypeOK
  BY PlaceFacts DEF Core
<1>2. CASE spoilt
  BY <1>2, DoubtStays DEF Answer
<1>3. CASE ~spoilt /\ spoilt'
  <2>1. phy /\ ~asserted /\ req # NoCmd /\ At(p).id < since
    BY <1>3, Zenon DEF Answer
  <2>2. since # 0 /\ req' = NoCmd
    BY <1>1, <2>1, Ids DEF Answer
  <2>3. QED BY <1>3, <2>2 DEF Server!Next, Server!Confuse
<1>4. CASE ~spoilt /\ ~spoilt' /\ phy /\ ~asserted /\ req # NoCmd
  <2>1. req' = NoCmd /\ At(p).id >= since
    BY <1>1, <1>4, AnswerCases
  <2>2. Has
    BY <2>1 DEF Has, Current
  <2>3. ~Has'
    BY <1>4, <2>1, InsideIs, InsideNext DEF InsideReq
  <2>4. Inside = {req} /\ Inside' = {}
    BY <1>4, <2>2, <2>3, InsideIs, InsideNext DEF InsideReq
  <2>5. UNCHANGED <<spoilt, since # 0>>
    BY <1>0, <1>4
  <2>6. QED BY <1>4, <2>1, <2>4, <2>5 DEF Server!Next, Server!Answer
<1>5. CASE ~spoilt /\ ~spoilt' /\ ~ (phy /\ ~asserted /\ req # NoCmd)
  <2>1. req' = req
    BY <1>5 DEF Answer
  <2>2. ResetDue \/ ~Current(At(p))
    BY <1>5 DEF Core, One, Current, ResetDue
  <2>3. Has' <=> Has
    BY <2>2 DEF Has, Current
  <2>4. spoilt' = spoilt
    BY <1>0, <1>5
  <2>5. QED BY <1>5, <2>1, <2>3, <2>4, SameInside
<1>6. QED BY <1>1, <1>2, <1>3, <1>4, <1>5, TypeFacts DEF Core

\* A reset that was due is posted, or forgotten.
LEMMA ResetServes ==
  ASSUME Core, Core', UNCHANGED <<req, since, spoilt>>, ResetDue
  PROVE  [Server!Next]_(Server!vars)
<1>1. CASE spoilt
  BY <1>1, DoubtStays
<1>2. CASE ~spoilt
  <2>1. Has /\ req.kind = "srst"
    BY <1>2, InsideIs DEF InsideReq, Has, Reset
  <2>2. QED BY <1>2, <2>1, Forgets
<1>3. QED BY <1>1, <1>2

LEMMA HostServes ==
  ASSUME Core, Core',
         (\E k \in Kinds : SendCommand(k)) \/ AssertSrst \/ LinkDown \/ ReleaseSrst \/ LinkUp
  PROVE  [Server!Next]_(Server!vars)
<1> USE DEF host, main, isr, queue, buffer
<1>1. ASSUME NEW k \in Kinds, SendCommand(k) PROVE Server!Next
  <2>1. /\ req = NoCmd /\ req' = [kind |-> k, id |-> lastId + 1] /\ lastId + 1 \in 0 .. MaxId
        /\ UNCHANGED <<since, spoilt>> /\ intStat' = [intStat EXCEPT !.cmd = req']
    BY <1>1, TypeFacts DEF SendCommand, Core, TypeOK
  <2>2. At("fis")' = req'
    BY <2>1 DEF Core, TypeOK, At
  <2>3. req' # NoCmd /\ req'.id >= since /\ req' \in [kind : Kinds, id : 0 .. MaxId]
    BY <2>1, Ids DEF Core
  <2>4. ~spoilt => Inside = {} /\ Inside' = {req'}
    BY <2>1, <2>2, <2>3, InsideIs, InsideNext DEF InsideReq, Has, Current, Places
  <2>5. QED BY <2>1, <2>3, <2>4 DEF Server!Next, Server!Send
<1>2. CASE AssertSrst \/ LinkDown
  <2>1. StartReset /\ ResetDue'
    BY <1>2 DEF AssertSrst, LinkDown, ResetDue
  <2>2. req' = Reset(lastId + 1) /\ lastId + 1 \in 0 .. MaxId /\ since' # 0 /\ spoilt' = FALSE
    BY <2>1, StartResetType, Ids DEF Core
  <2>3. Inside' = {req'}
    BY <2>1, <2>2, InsideIs, InsideNext DEF InsideReq, Has
  <2>4. req' \in [kind : {"srst"}, id : 0 .. MaxId]
    BY <2>2 DEF Reset
  <2>5. QED BY <2>2, <2>3, <2>4 DEF Server!Next, Server!Reset
<1>3. CASE ReleaseSrst \/ LinkUp
  <2>1. UNCHANGED <<req, since, spoilt>> /\ ResetDue /\ ResetDue'
    BY <1>3 DEF ReleaseSrst, LinkUp, ResetDue, Core, TypeOK
  <2>2. QED BY <2>1, SameInside DEF Has
<1>4. QED BY <1>1, <1>2, <1>3

\* A frame that no reset has overtaken carries what the host waits for.
LEMMA FrameFits ==
  ASSUME Core, ~ResetDue, intStat.cmd # NoCmd
  PROVE  Current(At("fis")) /\ (~spoilt => At("fis") = req)
<1>1. At("fis") = intStat.cmd /\ intStat.cmd.id \in Nat /\ since \in Nat
  BY PlaceFacts, TypeFacts, Ids DEF Core
<1>2. intStat.cmd.id > since
  BY DEF Core, Resets, ResetDue, New
<1>3. intStat.cmd.id >= since
  BY <1>1, <1>2
<1>4. Current(At("fis"))
  BY <1>1, <1>3 DEF Current
<1>5. QED BY <1>4 DEF Core, One, Places

LEMMA FiqServes == ASSUME Core, Core', Fiq PROVE [Server!Next]_(Server!vars)
<1> USE DEF host, main, isr, queue, buffer, Core
<1>1. CASE RejectCommand
  <2>1. /\ At("fis") # NoCmd /\ Answer(At("fis")) /\ intStat' = [intStat EXCEPT !.cmd = NoCmd]
        /\ UNCHANGED <<since, asserted, phy, slow, eqFull, held, ctrl, pc, cur>>
    BY <1>1, PlaceFacts DEF RejectCommand, GotCfis
  <2>2. At("fis")' = NoCmd /\ \A r \in Places \ {"fis"} : At(r)' = At(r)
    BY <2>1 DEF TypeOK, At, Places, SlowLive
  <2>3. ResetDue' <=> ResetDue
    BY <2>1 DEF TypeOK, ResetDue
  <2>4. QED BY <2>1, <2>2, <2>3, AnswerServes DEF Places
<1>2. CASE QueueReadWrite \/ QueueTrim
  <2>1. /\ At("fis") = intStat.cmd /\ intStat.cmd # NoCmd
        /\ intStat' = [intStat EXCEPT !.cmd = NoCmd]
        /\ UNCHANGED <<req, since, spoilt, asserted, phy, slow, pc, cur>>
    BY <1>2, PlaceFacts DEF QueueReadWrite, QueueTrim, GotCfis
  <2>2. /\ At("fis")' = NoCmd /\ \A r \in {"slow", "run"} : At(r)' = At(r)
        /\ ResetDue' <=> ResetDue
    BY <2>1 DEF TypeOK, At, SlowLive, ResetDue
  <2>3. PICK p \in {"held", "ctrl"} :
          At(p)' = At("fis") /\ \A r \in {"held", "ctrl"} \ {p} : At(r)' = At(r)
    BY <1>2, <2>1 DEF QueueReadWrite, QueueTrim, At
  <2>4. ~spoilt /\ ~ResetDue => Current(At("fis"))
    BY <2>1, FrameFits
  <2>5. ~spoilt => (Has' <=> Has)
    BY <2>1, <2>2, <2>3, <2>4 DEF Has, Places, Current
  <2>6. QED BY <2>1, <2>5, SameInside
<1>3. CASE PostSlow
  <2>1. /\ At("fis") = intStat.cmd /\ intStat.cmd # NoCmd /\ intStat.cmd.kind = "slow"
        /\ intStat' = [intStat EXCEPT !.cmd = NoCmd]
        /\ slow' = [status |-> "PENDING", cmd |-> intStat.cmd]
        /\ UNCHANGED <<req, since, spoilt, asserted, phy, eqFull, held, ctrl, pc, cur>>
    BY <1>3, PlaceFacts DEF PostSlow, GotCfis, Post
  <2>2. /\ At("fis")' = NoCmd /\ \A r \in {"held", "ctrl", "run"} : At(r)' = At(r)
        /\ ResetDue' <=> ResetDue
    BY <2>1 DEF TypeOK, At, ResetDue
  <2>3. At("slow")' = At("fis") \/ At("slow")' = NoCmd
    BY <2>1 DEF At
  <2>4. ~spoilt /\ ~ResetDue => Current(At("fis")) /\ At("fis") = req
    BY <2>1, FrameFits
  <2>5. CASE spoilt
    BY <2>1, <2>5, DoubtStays
  <2>6. CASE ~spoilt
    <3>1. Has' => Has
      <4>1. SUFFICES ASSUME ~ResetDue, NEW q \in Places, Current(At(q))'
                     PROVE  Has
        BY <2>2 DEF Has
      <4>2. QED BY <2>1, <2>2, <2>4, <2>6, <4>1 DEF Has, Places, Current
    <3>2. Has /\ ~Has' => req.kind = "slow"
      BY <2>1, <2>2, <2>4, <2>6 DEF Has
    <3>3. QED BY <2>1, <2>6, <3>1, <3>2, Forgets
  <2>7. QED BY <2>5, <2>6
<1>4. CASE HandleSrst
  <2>1. /\ ResetDue /\ UNCHANGED <<req, since, spoilt>>
    BY <1>4 DEF HandleSrst, ResetDue
  <2>2. QED BY <2>1, ResetServes
<1>5. CASE PhyOnline
  <2>1. /\ ResetDue /\ UNCHANGED <<req, since, spoilt>>
    BY <1>5 DEF PhyOnline, ResetDue
  <2>2. QED BY <2>1, ResetServes
<1>6. QED BY <1>1, <1>2, <1>3, <1>4, <1>5 DEF Fiq

\* The steps of Main that only look.
LEMMA LooksServe ==
  ASSUME Core, Core', ~FiqPending, RunFtl \/ QueueEmpty \/ TestSlow \/ SetBusy \/ ClearSlow
  PROVE  UNCHANGED Server!vars
<1> USE DEF host, main, isr, queue, buffer
<1>1. UNCHANGED <<req, since, spoilt, asserted, phy, intStat, eqFull, held, ctrl, cur>>
      /\ slow'.cmd = slow.cmd
  BY DEF RunFtl, QueueEmpty, TestSlow, SetBusy, ClearSlow, Goto, Core, TypeOK
<1>2. \/ pc = "ftl" /\ pc' = "poll" /\ UNCHANGED slow
      \/ pc = "poll" /\ pc' = "test" /\ UNCHANGED slow
      \/ pc = "test" /\ pc' = "busy" /\ UNCHANGED slow
      \/ pc = "test" /\ pc' = "poll" /\ UNCHANGED slow
      \/ pc = "busy" /\ pc' = "fetch" /\ slow.status = "PENDING"
      \/ pc = "clear" /\ pc' = "poll" /\ slow'.status = "NONE"
  BY DEF RunFtl, QueueEmpty, TestSlow, SetBusy, ClearSlow, Goto, Core, Resets, TypeOK
<1>3. SlowLive' <=> SlowLive
  BY <1>2 DEF SlowLive
<1>4. \A p \in Places : At(p)' = At(p)
  BY <1>1, <1>2, <1>3 DEF At, Places
<1>5. Has' <=> Has
  BY <1>1, <1>4 DEF Has, ResetDue, Current
<1>6. QED BY <1>1, <1>5, SameInside

LEMMA EventqGetServes ==
  ASSUME Core, Core', ~FiqPending, EventqGet
  PROVE  [Server!Next]_(Server!vars)
<1> USE DEF host, main, isr, queue, buffer
<1>1. /\ pc = "poll" /\ pc' = "ftl" /\ eqFull' = FALSE
      /\ ctrl' = IF eqFull /\ phy THEN held ELSE ctrl
      /\ UNCHANGED <<req, since, asserted, phy, intStat, slow, held>>
  BY DEF EventqGet, TakeEntry
<1>2. /\ spoilt => spoilt'
      /\ ~spoilt /\ spoilt' => held.id < since
      /\ ~spoilt' => ~ (ctrl' # ctrl /\ held.id < since /\ ctrl.id > since)
  BY Zenon DEF EventqGet, TakeEntry
<1>3. /\ At("held")' = NoCmd /\ \A p \in {"fis", "slow", "run"} : At(p)' = At(p)
      /\ At("ctrl")' = (IF eqFull /\ phy THEN At("held") ELSE At("ctrl"))
  BY <1>1 DEF At, SlowLive
<1>4. ResetDue' <=> ResetDue
  BY <1>1 DEF ResetDue
<1>5. spoilt \in BOOLEAN /\ spoilt' \in BOOLEAN /\ TypeOK /\ held \in Cmd /\ ctrl \in Cmd
  BY DEF Core, TypeOK
<1>6. CASE spoilt
  BY <1>1, <1>2, <1>6, DoubtStays
<1>7. CASE ~spoilt /\ spoilt'
  <2>1. since # 0
    BY <1>2, <1>5, <1>7, Ids
  <2>2. QED BY <1>1, <1>7, <2>1 DEF Server!Next, Server!Confuse
<1>8. CASE ~spoilt /\ ~spoilt'
  <2>1. ASSUME ~ResetDue, Current(At("ctrl")), eqFull PROVE At("ctrl")' = At("ctrl")
    <3>1. At("ctrl") = ctrl /\ At("held") = held /\ ctrl # NoCmd /\ held # NoCmd /\ ctrl.id >= since
      BY <1>5, <2>1, PlaceFacts DEF Current, Core, TypeOK
    <3>2. ctrl.id > since /\ held.id # since
      BY <1>5, <3>1, Transfers, Ids
    <3>3. ~Current(At("held"))
      BY <1>8, <2>1, "held" \in Places, "ctrl" \in Places DEF Core, One, Places
    <3>4. held.id < since
      BY <1>5, <3>1, <3>2, <3>3, Ids DEF Current
    <3>5. QED BY <1>1, <1>2, <1>3, <1>8, <3>1, <3>2, <3>4
  <2>2. Has' <=> Has
    <3>1. CASE ResetDue
      BY <1>4, <3>1 DEF Has
    <3>2. CASE ~ResetDue /\ eqFull
      <4>1. phy /\ At("ctrl")' = At("held") /\ Current(At("ctrl"))' = Current(At("ctrl")')
        BY <1>1, <1>3, <3>2 DEF ResetDue, Current
      <4>2. QED BY <1>1, <1>3, <1>4, <2>1, <3>2, <4>1 DEF Has, Places, Current
    <3>3. CASE ~ResetDue /\ ~eqFull
      <4>1. At("held") = NoCmd
        BY <3>3 DEF At
      <4>2. \A p \in Places : At(p)' = At(p)
        BY <1>3, <3>3, <4>1 DEF Places
      <4>3. QED BY <1>1, <1>4, <4>2 DEF Has, Current
    <3>4. QED BY <3>1, <3>2, <3>3
  <2>3. spoilt' = spoilt
    BY <1>5, <1>8
  <2>4. QED BY <1>1, <2>2, <2>3, SameInside
<1>9. QED BY <1>5, <1>6, <1>7, <1>8

LEMMA MainServes ==
  ASSUME Core, Core', Transfer \/ Main
  PROVE  [Server!Next]_(Server!vars)
<1> USE DEF host, main, isr, queue, buffer
<1>1. CASE Transfer
  <2>1. /\ At("ctrl") # NoCmd /\ Answer(At("ctrl")) /\ ctrl' = NoCmd
        /\ UNCHANGED <<since, asserted, phy, intStat, slow, eqFull, held, pc, cur>>
    BY <1>1, PlaceFacts DEF Transfer, Core
  <2>2. At("ctrl")' = NoCmd /\ \A r \in Places \ {"ctrl"} : At(r)' = At(r)
    BY <2>1 DEF At, Places, SlowLive
  <2>3. ResetDue' <=> ResetDue
    BY <2>1 DEF ResetDue
  <2>4. QED BY <2>1, <2>2, <2>3, AnswerServes DEF Places
<1>2. CASE Main /\ EventqGet
  BY <1>2, EventqGetServes DEF Main
<1>3. CASE Main /\ (RunFtl \/ QueueEmpty \/ TestSlow \/ SetBusy \/ ClearSlow)
  BY <1>3, LooksServe DEF Main
<1>4. CASE Main /\ FetchCode
  <2>1. /\ pc = "fetch" /\ pc' = "run" /\ cur' = slow.cmd
        /\ UNCHANGED <<req, since, spoilt, asserted, phy, intStat, slow, eqFull, held, ctrl>>
    BY <1>4 DEF FetchCode, Goto
  <2>2. /\ At("slow") = slow.cmd /\ At("slow")' = NoCmd /\ At("run") = NoCmd /\ At("run")' = slow.cmd
        /\ \A p \in {"fis", "held", "ctrl"} : At(p)' = At(p)
    BY <2>1 DEF At, SlowLive
  <2>3. Has' <=> Has
    BY <2>1, <2>2 DEF Has, ResetDue, Current, Places
  <2>4. QED BY <2>1, <2>3, SameInside
<1>5. CASE Main /\ RunSlow
  <2>1. /\ pc = "run" /\ pc' = "clear" /\ Answer(cur) /\ cur # NoCmd
        /\ UNCHANGED <<since, asserted, phy, intStat, slow, eqFull, held, ctrl>>
    BY <1>5 DEF RunSlow, Core, Resets
  <2>2. /\ At("run") = cur /\ At("run")' = NoCmd /\ At("slow")' = NoCmd /\ At("slow") = NoCmd
        /\ \A p \in {"fis", "held", "ctrl"} : At(p)' = At(p)
    BY <2>1 DEF At, SlowLive
  <2>3. ResetDue' <=> ResetDue
    BY <2>1 DEF ResetDue
  <2>4. QED BY <2>1, <2>2, <2>3, AnswerServes DEF Places
<1>6. QED BY <1>1, <1>2, <1>3, <1>4, <1>5 DEF Main, MainStep

LEMMA ServerStart == Init /\ Core => Server!Init
<1> SUFFICES ASSUME Init, Core PROVE Server!Init
  OBVIOUS
<1>1. req = Reset(0) /\ since = 0 /\ ~spoilt /\ ResetDue
  BY DEF Init, ResetDue
<1>2. Inside = {req}
  BY <1>1, InsideIs DEF InsideReq, Has
<1>3. req \in [kind : {"srst"}, id : 0 .. MaxId]
  BY <1>1, BoundsAssumption DEF Reset
<1>4. QED BY <1>1, <1>2, <1>3 DEF Server!Init

LEMMA ServerStep == Core /\ Core' /\ [Next]_vars => [Server!Next]_(Server!vars)
<1> SUFFICES ASSUME Core, Core', [Next]_vars PROVE [Server!Next]_(Server!vars)
  OBVIOUS
<1>1. CASE (\E k \in Kinds : SendCommand(k)) \/ AssertSrst \/ LinkDown \/ ReleaseSrst \/ LinkUp
  BY <1>1, HostServes
<1>2. CASE Fiq
  BY <1>2, FiqServes
<1>3. CASE Transfer \/ Main
  BY <1>3, MainServes
<1>4. CASE UNCHANGED vars
  <2>1. UNCHANGED <<req, since, spoilt, asserted, phy, intStat, slow, eqFull, held, ctrl, pc, cur>>
    BY <1>4 DEF vars, host, main, isr, queue, buffer
  <2>2. (SlowLive' <=> SlowLive) /\ (ResetDue' <=> ResetDue)
    BY <2>1 DEF SlowLive, ResetDue
  <2>3. \A p \in Places : At(p)' = At(p)
    BY <2>1, <2>2 DEF At, Places
  <2>4. Has' <=> Has
    BY <2>1, <2>2, <2>3 DEF Has, Current
  <2>5. QED BY <2>1, <2>4, SameInside
<1>5. QED BY <1>1, <1>2, <1>3, <1>4 DEF Next

\* The command intake is a server of one command at a time: what the host has sent since its
\* last reset is in the device once, is answered once and while the host waits for it; the
\* mailbox may forget it while Main ends the entry before; and only an answer of before a reset
\* can come out of turn (fiq_handler, handle_srst, eventq_get and Main).
THEOREM IntakeImplementsServer == Spec => ImplementsServer
<1>1. IInv => Core
  BY DEF IInv
<1>2. Init => Server!Init
  BY <1>1, InitInv, ServerStart
<1>3. IInv /\ IInv' /\ [Next]_vars => [Server!Next]_(Server!vars)
  BY ServerStep DEF IInv
<1>4. QED
  BY <1>2, <1>3, Invariant, PTL DEF Spec, ImplementsServer, Server!Spec

-----------------------------------------------------------------------------
(* What Answered rests on. *)

Waits == req # NoCmd /\ ~spoilt /\ lost # req

\* Some step can be taken: the link comes up, the reset is released, the FIQ handler runs, the
\* engine ends its transfer, or Main has something else to do than to look.
IntakeGoesOn == Waits =>
  \/ ~phy /\ ~FiqPending
  \/ asserted /\ LinkFree
  \/ FiqPending
  \/ ctrl # NoCmd /\ phy /\ (ctrl.kind = "read" => ~Queued(ctrl) /\ ~(pc = "ftl" /\ cur = ctrl))
  \/ ~FiqPending /\ (pc \notin {"poll", "test"} \/ eq # <<>> \/ slow.status = "PENDING")

\* Steps left of the link, the reset and the FIQ handler, and of Main up to its next look.
ToHear == 2 * Count(~phy) + 2 * Count(asserted)
            + Count(intStat.online) + Count(intStat.reg # "none") + Count(intStat.cmd # NoCmd)
ToRun == IF pc = "ftl" THEN 8
         ELSE IF pc = "poll" /\ slow.status = "PENDING" THEN 7
         ELSE IF pc = "test" /\ slow.status = "PENDING" THEN 6
         ELSE IF pc = "busy" THEN 5
         ELSE IF pc = "fetch" THEN 4
         ELSE IF pc = "run" THEN 3
         ELSE IF pc = "clear" THEN 2
         ELSE IF pc = "test" /\ eq # <<>> THEN 1
         ELSE 0

\* Less to go in the first of these that changes.
Nearer == \/ ToHear' < ToHear
          \/ ToHear' = ToHear /\ Len(eq') < Len(eq)
          \/ UNCHANGED <<ToHear, eq>> /\ ctrl # NoCmd /\ ctrl' = NoCmd
          \/ UNCHANGED <<ToHear, eq, ctrl>> /\ ToRun' < ToRun

\* Main looks, and finds nothing.
Looks == UNCHANGED <<ToHear, eq, ctrl, ToRun>> /\ {pc, pc'} = {"poll", "test"}

Counted == ToHear \in Nat /\ Len(eq) \in Nat /\ ToRun \in Nat

LEMMA RanksAreFinite == TypeOK => Counted
<1> SUFFICES ASSUME TypeOK PROVE Counted
  OBVIOUS
<1>1. \A b : Count(b) \in {0, 1}
  BY DEF Count
<1>2. ToHear \in Nat
  BY <1>1 DEF ToHear
<1>3. QED BY <1>2 DEF Counted, ToRun, TypeOK

\* A frame or interrupt is taken, and adds no other.
LEMMA Heard ==
  ASSUME UNCHANGED <<phy, asserted>>,
         intStat'.online => intStat.online,
         intStat'.reg # "none" => intStat.reg # "none",
         intStat'.cmd # NoCmd => intStat.cmd # NoCmd,
         \/ intStat.online /\ ~intStat'.online
         \/ intStat.reg # "none" /\ intStat'.reg = "none"
         \/ intStat.cmd # NoCmd /\ intStat'.cmd = NoCmd
  PROVE  ToHear' < ToHear
<1>1. \A b : Count(b) \in {0, 1} /\ (b => Count(b) = 1) /\ (~b => Count(b) = 0)
  BY DEF Count
<1> DEFINE a == 2 * Count(~phy) + 2 * Count(asserted)
           o == Count(intStat.online)  r == Count(intStat.reg # "none")  c == Count(intStat.cmd # NoCmd)
           on == Count(intStat'.online)  rn == Count(intStat'.reg # "none")
           cn == Count(intStat'.cmd # NoCmd)
<1>2. ToHear = a + o + r + c /\ ToHear' = a + on + rn + cn
  BY DEF ToHear
<1>3. on <= o /\ rn <= r /\ cn <= c
  BY DEF Count
<1>4. on < o \/ rn < r \/ cn < c
  BY DEF Count
<1>5. a \in Nat /\ o \in Nat /\ r \in Nat /\ c \in Nat /\ on \in Nat /\ rn \in Nat /\ cn \in Nat
  BY <1>1
<1> HIDE DEF a, o, r, c, on, rn, cn
<1>6. QED BY <1>2, <1>3, <1>4, <1>5

LEMMA FiqNearer == ASSUME Core, Core', Fiq PROVE ToHear' < ToHear
<1> USE DEF host, main, Core, TypeOK
<1>1. CASE RejectCommand \/ QueueReadWrite \/ QueueTrim \/ PostSlow
  <2>1. /\ intStat.cmd # NoCmd /\ intStat' = [intStat EXCEPT !.cmd = NoCmd]
        /\ UNCHANGED <<phy, asserted>>
    BY <1>1 DEF RejectCommand, QueueReadWrite, QueueTrim, PostSlow, GotCfis
  <2>2. QED BY <2>1, Heard
<1>2. CASE HandleSrst
  <2>1. /\ intStat.reg # "none" /\ intStat' = [intStat EXCEPT !.reg = "none"]
        /\ UNCHANGED <<phy, asserted>>
    BY <1>2 DEF HandleSrst
  <2>2. QED BY <2>1, Heard
<1>3. CASE PhyOnline
  <2>1. /\ intStat.online /\ intStat' = NoIntr /\ UNCHANGED <<phy, asserted>>
    BY <1>3 DEF PhyOnline
  <2>2. QED BY <2>1, Heard DEF NoIntr
<1>4. QED BY <1>1, <1>2, <1>3 DEF Fiq

LEMMA HostNearer ==
  ASSUME Core, Core', req # NoCmd, req' = req,
         (\E k \in Kinds : SendCommand(k)) \/ AssertSrst \/ LinkDown \/ ReleaseSrst \/ LinkUp
  PROVE  ToHear' < ToHear
<1> USE DEF host, Core, TypeOK
<1>1. ~ \E k \in Kinds : SendCommand(k)
  BY DEF SendCommand
<1>2. ~StartReset
  <2>1. req.id = lastId /\ lastId \in Nat
    BY Ids DEF Numbered
  <2>2. StartReset => req'.id = lastId + 1
    BY DEF StartReset, Reset
  <2>3. QED BY <2>1, <2>2
<1>3. CASE ReleaseSrst
  <2>1. /\ asserted /\ ~asserted' /\ intStat.reg = "none" /\ phy' = phy
        /\ intStat'.reg = "release" /\ intStat'.cmd = intStat.cmd /\ intStat'.online = intStat.online
    BY <1>3 DEF ReleaseSrst, LinkFree
  <2>2. QED BY <2>1 DEF ToHear, Count
<1>4. CASE LinkUp
  <2>1. /\ ~phy /\ phy' /\ ~intStat.online /\ intStat'.online /\ asserted' = asserted
        /\ intStat'.cmd = intStat.cmd /\ intStat'.reg = intStat.reg
    BY <1>4 DEF LinkUp, FiqPending
  <2>2. QED BY <2>1 DEF ToHear, Count
<1>5. QED BY <1>1, <1>2, <1>3, <1>4 DEF AssertSrst, LinkDown

LEMMA MainNearer ==
  ASSUME Core, Core', Transfer \/ Main
  PROVE  Nearer \/ Looks
<1> USE DEF host, main, isr, queue, buffer
<1>1. UNCHANGED <<phy, asserted, intStat>>
  BY DEF Transfer, Main, MainStep, EventqGet, TakeEntry, RunFtl, QueueEmpty, TestSlow, SetBusy,
         FetchCode, RunSlow, ClearSlow, Goto
<1>2. ToHear' = ToHear
  BY <1>1 DEF ToHear
<1>3. CASE Transfer
  BY <1>2, <1>3 DEF Transfer, Nearer
<1>4. CASE EventqGet
  <2>1. eq # <<>> /\ eq' = Tail(eq) /\ eq \in Seq(Cmd)
    BY <1>4 DEF EventqGet, TakeEntry, Core, TypeOK
  <2>2. Len(eq') < Len(eq)
    BY <2>1
  <2>3. QED BY <1>2, <2>2 DEF Nearer
<1>5. CASE RunFtl \/ SetBusy \/ FetchCode \/ RunSlow \/ ClearSlow
  <2>1. UNCHANGED <<eq, ctrl>>
    BY <1>5 DEF RunFtl, SetBusy, FetchCode, RunSlow, ClearSlow, Goto
  <2>2. \/ pc = "ftl" /\ pc' = "poll"
        \/ pc = "busy" /\ pc' = "fetch"
        \/ pc = "fetch" /\ pc' = "run"
        \/ pc = "run" /\ pc' = "clear"
        \/ pc = "clear" /\ pc' = "poll" /\ slow'.status = "NONE"
    BY <1>5 DEF RunFtl, SetBusy, FetchCode, RunSlow, ClearSlow, Goto, Core, TypeOK
  <2>3. ToRun' < ToRun
    BY <2>2 DEF ToRun
  <2>4. QED BY <1>2, <2>1, <2>3 DEF Nearer
<1>6. CASE QueueEmpty \/ TestSlow
  <2>1. UNCHANGED <<eq, ctrl, slow>>
    BY <1>6 DEF QueueEmpty, TestSlow, Goto
  <2>2. \/ pc = "poll" /\ pc' = "test" /\ eq = <<>>
        \/ pc = "test" /\ pc' = "busy" /\ slow.status = "PENDING"
        \/ pc = "test" /\ pc' = "poll" /\ slow.status # "PENDING"
    BY <1>6 DEF QueueEmpty, TestSlow, Goto
  <2>3. ToRun' < ToRun \/ (ToRun' = ToRun /\ {pc, pc'} = {"poll", "test"})
    BY <2>1, <2>2 DEF ToRun
  <2>4. QED BY <1>2, <2>1, <2>3 DEF Nearer, Looks
<1>7. QED BY <1>3, <1>4, <1>5, <1>6 DEF Main, MainStep

\* What the host waits for never waits in vain (sata_isr.c, sata_main.c): unless it was lost in the
\* mailbox, or an old answer was taken for a new one, the host, the FIQ handler, the engine or Main
\* has a step to take that is not idle.  The first half of Answered.
THEOREM IntakeNeverStuck == Spec => []IntakeGoesOn
<1>1. IInv => IntakeGoesOn
  <2>1. SUFFICES ASSUME IInv, Waits, ~FiqPending, phy, ~(asserted /\ LinkFree),
                        ctrl # NoCmd => Queued(ctrl) \/ pc = "ftl"
                 PROVE  pc \notin {"poll", "test"} \/ eq # <<>> \/ slow.status = "PENDING"
    BY DEF IntakeGoesOn
  <2>2. enabled /\ ~intStat.online /\ intStat.cmd = NoCmd /\ intStat.reg = "none" /\ ~asserted
    BY <2>1, MainRuns DEF IInv, LinkFree
  <2>3. \/ slow.status = "PENDING" \/ pc \in {"fetch", "run"}
        \/ eqFull \/ ctrl = req
    BY <2>1, <2>2 DEF IInv, Core, Accounted, Waits
  <2>4. CASE eqFull
    BY <2>1, <2>4 DEF IInv, Core, Resets
  <2>5. CASE ctrl = req
    <3>1. Queued(ctrl) => eq # <<>>
      BY DEF Queued
    <3>2. QED BY <2>1, <2>5, <3>1 DEF Waits
  <2>6. QED BY <2>3, <2>4, <2>5
<1>2. QED
  BY <1>1, Invariant, PTL

\* As long as the host waits for the same, each step brings the answer nearer, in an order without
\* infinite descent, but for Main's looking at an empty queue and mailbox, which changes none of it.
\* The second half of Answered, which then needs only the fairness.
THEOREM AnswerComesNearer ==
  Spec => []Counted /\ [][req # NoCmd /\ req' = req => Nearer \/ Looks]_vars
<1>1. IInv => Counted
  BY RanksAreFinite DEF IInv, Core
<1>2. IInv /\ IInv' /\ [Next]_vars => [req # NoCmd /\ req' = req => Nearer \/ Looks]_vars
  <2> SUFFICES ASSUME IInv, IInv', Next, req # NoCmd, req' = req PROVE Nearer \/ Looks
    OBVIOUS
  <2>1. CASE (\E k \in Kinds : SendCommand(k)) \/ AssertSrst \/ LinkDown \/ ReleaseSrst \/ LinkUp
    BY <2>1, HostNearer DEF IInv, Nearer
  <2>2. CASE Fiq
    BY <2>2, FiqNearer DEF IInv, Nearer
  <2>3. CASE Transfer \/ Main
    BY <2>3, MainNearer DEF IInv
  <2>4. QED BY <2>1, <2>2, <2>3 DEF Next
<1>3. QED
  BY <1>1, <1>2, Invariant, PTL DEF Spec
=============================================================================
