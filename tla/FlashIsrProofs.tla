--------------------------- MODULE FlashIsrProofs ---------------------------
(***************************************************************************)
(* Bank interrupts and format, for any number of banks and blocks and any  *)
(* set of bad blocks.  The argument: a flag that is up and has no          *)
(* interrupt pending is on a bank the handler has yet to reach; while      *)
(* format runs there is one erase at a time, so whatever the handler finds *)
(* is about that erase, and nothing runs on until it has been reported.    *)
(***************************************************************************)
EXTENDS FlashIsr, FiniteSetTheorems, TLAPS

Handling == isr.at \in {"clear", "report"}
Waiting == pc \in {"wait0", "wait"}

\* The loop variables stay within their arrays.
InRange == /\ Handling => isr.bank \in Banks
           /\ pc \in {"loop", "wait"} => vblock \in Blocks
           /\ pc = "wait" => lbn < LogBlks /\ vblock # 0

\* A flag with no interrupt pending is on a bank that ftl_isr has not passed, and what
\* it clears is what it has read.
Kept == ~irq => /\ \A b \in Banks : flags[b] # {} =>
                     /\ isr.at # "out"
                     /\ isr.bank < b \/ (isr.bank = b /\ isr.at # "report")
                /\ isr.at = "clear" => flags[isr.bank] \subseteq isr.seen

\* The block format is erasing.
Asked == IF pc = "wait0" THEN 0 ELSE vblock

Calm == ~irq /\ isr.at = "out" /\ flags[bank] = {}

\* While format runs only its erase is in the controller, and nothing else happens
\* until that has ended.
OneErase == pc # "serve" =>
  /\ pause /\ stuck = {}
  /\ \A b \in Banks \ {bank} : ~busy[b] /\ flags[b] = {}
  /\ wr = <<>> \/ wr = <<bank, Erase(Asked)>>
  /\ busy[bank] => wr = <<>> /\ bsp[bank] = Erase(Asked)
  /\ ~Waiting => wr = <<>> /\ ~busy[bank]
  /\ (~Waiting \/ wr # <<>> \/ busy[bank]) => Calm

\* A flag, and what the handler makes of it, is the failure of that erase.
Evidence == /\ bsp[bank] = Erase(Asked)
            /\ failed[bank] = Asked /\ <<bank, Asked>> \in bad

Found == pc # "serve" =>
  /\ flags[bank] # {} => flags[bank] = {"BADBLK"} /\ Evidence
  /\ Handling => isr.bank = bank /\ isr.seen = {"BADBLK"} /\ isr.fc = "ERASE" /\ Evidence

Reported ==
  /\ pc = "loop" => isrFlag[bank] = INVALID
  /\ pc = "wait" /\ isrFlag[bank] # INVALID =>
       isrFlag[bank] = vblock /\ failed[bank] = vblock /\ <<bank, vblock>> \in bad
  /\ pc = "wait" /\ wr = <<>> /\ ~busy[bank] /\ <<bank, vblock>> \in bad =>
       flags[bank] # {} \/ Handling \/ isrFlag[bank] # INVALID

\* The blocks used are the first good ones, each once.
FirstGood(b) == /\ UsedSet(b) \subseteq Good(b)
                /\ \A k \in UsedSet(b), j \in Good(b) : j < k => j \in UsedSet(b)
                /\ IsFiniteSet(UsedSet(b)) /\ Cardinality(UsedSet(b)) = Len(used[b])

\* How far format has come.
Progress ==
  /\ \A b \in Banks : FirstGood(b)
  /\ \A b \in Banks : Finished(b) => Len(used[b]) = LogBlks
  /\ pc # "serve" => \A b \in Banks : b > bank => used[b] = <<>>
  /\ pc \in {"erase0", "wait0"} => used[bank] = <<>>
  /\ pc \in {"loop", "wait", "verdict"} => lbn = Len(used[bank])
  /\ pc = "loop" => UsedSet(bank) = {k \in Good(bank) : k <= vblock}
  /\ pc = "wait" => UsedSet(bank) = {k \in Good(bank) : k < vblock}
  /\ pc = "verdict" => UsedSet(bank) = Good(bank)
  /\ pc = "error" => Cardinality(Good(bank)) < LogBlks

IInv == TypeOK /\ InRange /\ Kept /\ OneErase /\ Found /\ Reported /\ Progress

-----------------------------------------------------------------------------
(* Types. *)

LEMMA InitTypes == Init => TypeOK /\ InRange
<1> SUFFICES ASSUME Init PROVE TypeOK /\ InRange
  OBVIOUS
<1> USE SizesAssumption DEF Init, Banks, Blocks
<1>1. isr \in [at : {"out", "scan", "clear", "report"}, bank : 0 .. NumBanks,
              seen : SUBSET Flags, fc : {"NONE", "ERASE", "PROG", "READ"}]
  OBVIOUS
<1>2. bsp \in [Banks -> Commands \cup {NoCommand}] /\ failed \in [Banks -> Blocks \cup {INVALID}]
  OBVIOUS
<1>3. isrFlag \in [Banks -> Blocks \cup {INVALID}] /\ used \in [Banks -> Seq(Blocks)]
  OBVIOUS
<1>4. busy \in [Banks -> BOOLEAN] /\ flags \in [Banks -> SUBSET Flags]
  OBVIOUS
<1>5. bank \in Banks /\ vblock \in 0 .. VBlks /\ lbn \in 0 .. LogBlks /\ served \in 0 .. MaxServed
  OBVIOUS
<1>6. TypeOK
  BY <1>1, <1>2, <1>3, <1>4, <1>5 DEF TypeOK
<1>7. InRange
  BY DEF InRange, Handling
<1>8. QED
  BY <1>6, <1>7

LEMMA ControllerTypes ==
  ASSUME TypeOK, InRange, NEW b \in Banks, Accept \/ Complete(b) \/ Stick(b) \/ Recover(b)
  PROVE  TypeOK' /\ InRange'
<1>1. CASE Accept
  <2>1. wr[1] \in Banks /\ wr[2] \in Commands
    BY <1>1 DEF Accept, TypeOK
  <2>2. QED
    BY <1>1, <2>1 DEF Accept, TypeOK, InRange, Handling, still, main
<1>2. CASE Complete(b)
  <2>1. PICK f \in Outcomes(b) :
             /\ flags' = [flags EXCEPT ![b] = @ \cup f]
             /\ irq' = (irq \/ f # {})
             /\ failed' = IF f = {} THEN failed ELSE [failed EXCEPT ![b] = bsp[b].blk]
    BY <1>2 DEF Complete
  <2>2. f \subseteq Flags
    BY <2>1 DEF Outcomes, Flags
  <2>3. bsp[b].blk \in Blocks
    BY SizesAssumption DEF TypeOK, Commands, NoCommand, Blocks
  <2>4. flags' \in [Banks -> SUBSET Flags] /\ failed' \in [Banks -> Blocks \cup {INVALID}]
        /\ irq' \in BOOLEAN
    BY <2>1, <2>2, <2>3 DEF TypeOK
  <2>5. QED
    BY <1>2, <2>4 DEF Complete, TypeOK, InRange, Handling, still, main
<1>3. CASE Stick(b)
  BY <1>3 DEF Stick, TypeOK, InRange, Handling, hw, main
<1>4. CASE Recover(b)
  <2>1. served' \in 0 .. MaxServed
    BY <1>4, SizesAssumption DEF Recover, TypeOK
  <2>2. pause' \in BOOLEAN
    BY <1>4, Zenon DEF Recover, TypeOK
  <2>3. QED
    BY <1>4, <2>1, <2>2 DEF Recover, TypeOK, InRange, Handling
<1>5. QED
  BY <1>1, <1>2, <1>3, <1>4

LEMMA IsrTypes == ASSUME TypeOK, InRange, Isr PROVE TypeOK' /\ InRange'
<1> USE DEF still, hw, main, InRange, Handling
<1>1. CASE IsrEnter
  <2>1. isr' = [isr EXCEPT !.at = "scan", !.bank = 0] /\ 0 \in 0 .. NumBanks
    BY <1>1, SizesAssumption DEF IsrEnter
  <2>2. isr' \in [at : {"scan"}, bank : 0 .. NumBanks, seen : SUBSET Flags,
                  fc : {"NONE", "ERASE", "PROG", "READ"}]
    BY <2>1 DEF TypeOK
  <2>3. QED
    BY <1>1, <2>2 DEF IsrEnter, TypeOK
<1>2. CASE IsrScan
  <2>1. isr.bank \in Banks
    BY <1>2, SizesAssumption DEF IsrScan, TypeOK, Banks
  <2>2. flags[isr.bank] \subseteq Flags /\ bsp[isr.bank].fc \in {"NONE", "ERASE", "PROG", "READ"}
    BY <2>1 DEF TypeOK, Commands, NoCommand
  <2>3. isr' \in [at : {"scan", "clear"}, bank : 0 .. NumBanks, seen : SUBSET Flags,
                   fc : {"NONE", "ERASE", "PROG", "READ"}]
    <3>1. CASE flags[isr.bank] = {}
      <4>1. isr' = [isr EXCEPT !.bank = @ + 1] /\ isr.at = "scan" /\ isr.bank + 1 \in 0 .. NumBanks
        BY <1>2, <2>1, <3>1, SizesAssumption DEF IsrScan, Banks
      <4>2. QED BY <4>1 DEF TypeOK
    <3>2. CASE flags[isr.bank] # {}
      <4>1. isr' = [isr EXCEPT !.at = "clear", !.seen = flags[isr.bank], !.fc = bsp[isr.bank].fc]
        BY <1>2, <3>2 DEF IsrScan
      <4>2. QED BY <2>2, <4>1 DEF TypeOK
    <3>3. QED BY <3>1, <3>2
  <2>4. isr'.at = "clear" => isr'.bank \in Banks
    BY <1>2, <2>1, SizesAssumption DEF IsrScan, TypeOK
  <2>5. QED
    BY <1>2, <2>3, <2>4 DEF IsrScan, TypeOK
<1>3. CASE IsrClear
  BY <1>3 DEF IsrClear, FlagsCleared, TypeOK
<1>4. CASE IsrReport
  <2>1. isr.bank \in Banks
    BY <1>4 DEF IsrReport
  <2>2. bsp[isr.bank].blk \in Blocks
    BY <2>1, SizesAssumption DEF TypeOK, Commands, NoCommand, Blocks
  <2>3. isrFlag' \in [Banks -> Blocks \cup {INVALID}]
    BY <1>4, <2>1, <2>2 DEF IsrReport, TypeOK
  <2>4. isr.bank + 1 \in 0 .. NumBanks
    BY <2>1, SizesAssumption DEF Banks
  <2>5. isr' = [isr EXCEPT !.at = "scan", !.bank = @ + 1]
    BY <1>4 DEF IsrReport
  <2>6. isr' \in [at : {"scan"}, bank : 0 .. NumBanks, seen : SUBSET Flags,
                   fc : {"NONE", "ERASE", "PROG", "READ"}]
    BY <2>4, <2>5 DEF TypeOK
  <2>7. QED
    BY <1>4, <2>3, <2>6 DEF IsrReport, TypeOK
<1>5. CASE IsrLeave
  BY <1>5 DEF IsrLeave, TypeOK
<1>6. QED
  BY <1>1, <1>2, <1>3, <1>4, <1>5 DEF Isr

LEMMA MainTypes ==
  ASSUME TypeOK, InRange,
         Format \/ \E b \in Banks, c \in Commands : Serve(b, c)
  PROVE  TypeOK' /\ InRange'
<1> USE SizesAssumption DEF still, hw, MainRuns, InRange, Handling, Issue
<1>0. \A k \in Blocks : Erase(k) \in Commands
  BY DEF Erase, Commands
<1>1. CASE FormatErase0
  <2>1. wr' \in Banks \X Commands
    BY <1>0, <1>1 DEF FormatErase0, TypeOK, Blocks
  <2>2. QED
    BY <1>1, <2>1 DEF FormatErase0, TypeOK
<1>2. CASE FormatStart
  BY <1>2 DEF FormatStart, TypeOK, Blocks
<1>3. CASE FormatErase
  <2>1. vblock' \in 0 .. VBlks /\ vblock' # 0 /\ (pc' = "wait" => vblock' \in Blocks)
        /\ pc' \in {"wait", "verdict"}
    BY <1>3 DEF FormatErase, BlockLeft, TypeOK, Blocks
  <2>2. wr' = <<>> \/ wr' \in Banks \X Commands
    BY <1>0, <1>3, <2>1 DEF FormatErase, BlockLeft, TypeOK, Blocks
  <2>3. QED
    BY <1>3, <2>1, <2>2 DEF FormatErase, TypeOK
<1>4. CASE FormatCheck
  <2>1. vblock \in Blocks /\ lbn < LogBlks
    BY <1>4 DEF FormatCheck
  <2>2. used' \in [Banks -> Seq(Blocks)]
    <3>1. Append(used[bank], vblock) \in Seq(Blocks)
      BY <2>1 DEF TypeOK
    <3>2. used' = used \/ used' = [used EXCEPT ![bank] = Append(used[bank], vblock)]
      BY <1>4 DEF FormatCheck
    <3>3. QED BY <3>1, <3>2 DEF TypeOK
  <2>3. lbn' \in 0 .. LogBlks
    <3>1. lbn' = lbn \/ lbn' = lbn + 1
      BY <1>4 DEF FormatCheck
    <3>2. QED BY <2>1, <3>1 DEF TypeOK
  <2>4. isrFlag' \in [Banks -> Blocks \cup {INVALID}]
    <3>1. isrFlag' = isrFlag \/ isrFlag' = [isrFlag EXCEPT ![bank] = INVALID]
      BY <1>4 DEF FormatCheck, ResetFlag
    <3>2. QED BY <3>1 DEF TypeOK
  <2>5. QED
    BY <1>4, <2>1, <2>2, <2>3, <2>4 DEF FormatCheck, TypeOK
<1>5. CASE FormatVerdict
  <2>1. bank' \in Banks /\ pc' \in {"error", "erase0", "serve"}
    BY <1>5 DEF FormatVerdict, TypeOK, Banks
  <2>2. QED
    BY <1>5, <2>1 DEF FormatVerdict, TypeOK
<1>6. ASSUME NEW b \in Banks, NEW c \in Commands, Serve(b, c) PROVE TypeOK' /\ InRange'
  BY <1>6 DEF Serve, TypeOK
<1>7. QED
  BY <1>1, <1>2, <1>3, <1>4, <1>5, <1>6 DEF Format

LEMMA TypeStep == TypeOK /\ InRange /\ Next => TypeOK' /\ InRange'
BY ControllerTypes, IsrTypes, MainTypes, SizesAssumption DEF Next, Banks

-----------------------------------------------------------------------------
(* No interrupt is lost. *)

LEMMA ControllerKeeps ==
  ASSUME TypeOK, Kept, NEW b \in Banks, Accept \/ Complete(b) \/ Stick(b) \/ Recover(b)
  PROVE  Kept'
<1>1. CASE Accept \/ Stick(b)
  BY <1>1 DEF Accept, Stick, Kept, hw
<1>2. CASE Complete(b)
  <2>1. PICK f \in Outcomes(b) : /\ flags' = [flags EXCEPT ![b] = @ \cup f]
                                 /\ irq' = (irq \/ f # {})
    BY <1>2 DEF Complete
  <2>2. CASE f = {}
    <3>1. flags' = flags
      BY <2>1, <2>2 DEF TypeOK
    <3>2. QED BY <1>2, <2>1, <2>2, <3>1 DEF Complete, Kept
  <2>3. CASE f # {}
    BY <2>1, <2>3 DEF Kept
  <2>4. QED BY <2>2, <2>3
<1>3. CASE Recover(b)
  BY <1>3 DEF Recover, MainRuns, Kept
<1>4. QED
  BY <1>1, <1>2, <1>3

LEMMA IsrKeeps == ASSUME TypeOK, InRange, Kept, Isr PROVE Kept'
<1> USE DEF hw
<1>1. CASE IsrEnter
  <2>1. isr'.at = "scan" /\ isr'.bank = 0
    BY <1>1 DEF IsrEnter, TypeOK
  <2>2. QED BY <1>1, <2>1, SizesAssumption DEF IsrEnter, Kept, Banks
<1>2. CASE IsrScan
  <2>1. isr.bank \in Banks /\ UNCHANGED <<irq, flags>> /\ isr.at = "scan"
    BY <1>2, SizesAssumption DEF IsrScan, TypeOK, Banks
  <2>2. CASE flags[isr.bank] = {}
    <3>1. isr'.at = "scan" /\ isr'.bank = isr.bank + 1
      BY <1>2, <2>1, <2>2 DEF IsrScan, TypeOK
    <3>2. QED BY <2>1, <2>2, <3>1, SizesAssumption DEF Kept, Banks
  <2>3. CASE flags[isr.bank] # {}
    <3>1. isr'.at = "clear" /\ isr'.bank = isr.bank /\ isr'.seen = flags[isr.bank]
      BY <1>2, <2>1, <2>3 DEF IsrScan, TypeOK
    <3>2. QED BY <2>1, <3>1 DEF Kept
  <2>4. QED BY <2>2, <2>3
<1>3. CASE IsrClear
  <2>1. isr'.at = "report" /\ isr'.bank = isr.bank /\ isr.at = "clear" /\ isr.bank \in Banks
        /\ UNCHANGED irq
    BY <1>3 DEF IsrClear, TypeOK, InRange, Handling
  <2>2. flags' = [flags EXCEPT ![isr.bank] = flags[isr.bank] \ isr.seen]
    BY <1>3 DEF IsrClear, FlagsCleared
  <2>3. ~irq => flags'[isr.bank] = {}
    BY <2>1, <2>2 DEF Kept, TypeOK
  <2>4. \A b \in Banks \ {isr.bank} : flags'[b] = flags[b]
    BY <2>1, <2>2 DEF TypeOK
  <2>5. QED BY <2>1, <2>3, <2>4 DEF Kept
<1>4. CASE IsrReport
  <2>1. isr'.at = "scan" /\ isr'.bank = isr.bank + 1 /\ isr.at = "report" /\ isr.bank \in Banks
        /\ UNCHANGED <<irq, flags>>
    BY <1>4 DEF IsrReport, TypeOK, InRange, Handling
  <2>2. QED BY <2>1, SizesAssumption DEF Kept, Banks
<1>5. CASE IsrLeave
  <2>1. isr'.at = "out" /\ isr.bank = NumBanks /\ isr.at = "scan" /\ UNCHANGED <<irq, flags>>
    BY <1>5 DEF IsrLeave, TypeOK
  <2>2. QED BY <2>1, SizesAssumption DEF Kept, Banks
<1>6. QED
  BY <1>1, <1>2, <1>3, <1>4, <1>5 DEF Isr

LEMMA MainKeeps ==
  ASSUME Kept, Format \/ \E b \in Banks, c \in Commands : Serve(b, c)
  PROVE  Kept'
BY DEF Kept, hw, Format, FormatErase0, FormatStart, FormatErase, FormatCheck, FormatVerdict, Serve

LEMMA KeptStep == TypeOK /\ InRange /\ Kept /\ Next => Kept'
BY ControllerKeeps, IsrKeeps, MainKeeps, SizesAssumption DEF Next, Banks

-----------------------------------------------------------------------------
(* One erase at a time, and what comes of it. *)

Erasing == OneErase /\ Found /\ Reported

LEMMA ControllerErases ==
  ASSUME TypeOK, Kept, Erasing, NEW b \in Banks, Accept \/ Complete(b) \/ Stick(b) \/ Recover(b)
  PROVE  Erasing'
<1> USE DEF Erasing, still, hw, main
<1>1. CASE Accept
  <2>1. UNCHANGED <<bad, stuck, pause, flags, failed, irq, isr, isrFlag, main>>
        /\ wr # <<>> /\ wr' = <<>>
    BY <1>1 DEF Accept
  <2>2. SUFFICES ASSUME pc # "serve" PROVE Erasing'
    <3>1. pc = "serve" => Erasing'
      BY <2>1 DEF OneErase, Found, Reported
    <3>2. QED BY <2>2, <3>1
  <2>3. wr = <<bank, Erase(Asked)>> /\ Calm /\ Waiting
    BY <2>1, <2>2 DEF OneErase
  <2>4. busy' = [busy EXCEPT ![bank] = TRUE] /\ bsp' = [bsp EXCEPT ![bank] = Erase(Asked)]
    BY <1>1, <2>3 DEF Accept
  <2>5. bank \in Banks /\ busy'[bank] /\ bsp'[bank] = Erase(Asked)
        /\ \A c \in Banks \ {bank} : busy'[c] = busy[c]
    BY <2>4 DEF TypeOK
  <2>6. OneErase'
    BY <2>1, <2>2, <2>3, <2>5 DEF OneErase, Waiting, Asked, Calm
  <2>7. Found' /\ Reported'
    BY <2>1, <2>2, <2>3, <2>5 DEF Found, Reported, Calm, Handling
  <2>8. QED BY <2>6, <2>7
<1>2. CASE Complete(b)
  <2>1. UNCHANGED <<bad, stuck, pause, wr, bsp, isr, isrFlag, main>> /\ busy[b]
        /\ busy' = [busy EXCEPT ![b] = FALSE]
    BY <1>2 DEF Complete
  <2>2. PICK f \in Outcomes(b) :
             /\ flags' = [flags EXCEPT ![b] = @ \cup f]
             /\ failed' = IF f = {} THEN failed ELSE [failed EXCEPT ![b] = bsp[b].blk]
    BY <1>2 DEF Complete
  <2>3. SUFFICES ASSUME pc # "serve" PROVE Erasing'
    <3>1. pc = "serve" => Erasing'
      BY <2>1 DEF OneErase, Found, Reported
    <3>2. QED BY <2>3, <3>1
  <2>4. b = bank /\ wr = <<>> /\ bsp[bank] = Erase(Asked) /\ Calm /\ Waiting
    BY <2>1, <2>3 DEF OneErase
  <2>5. f = IF <<bank, Asked>> \in bad THEN {"BADBLK"} ELSE {}
    BY <2>2, <2>4 DEF Outcomes, Erase
  <2>6. flags'[bank] = f /\ (\A c \in Banks \ {bank} : flags'[c] = flags[c])
        /\ (f # {} => failed'[bank] = Asked)
    BY <2>2, <2>4 DEF TypeOK, Calm, Erase
  <2>7. ~busy'[bank] /\ \A c \in Banks \ {bank} : busy'[c] = busy[c]
    BY <2>1, <2>4 DEF TypeOK
  <2>8. Asked' = Asked /\ Waiting' /\ ~Handling'
    BY <2>1, <2>4 DEF Asked, Waiting, Calm, Handling
  <2>9. OneErase'
    BY <2>1, <2>3, <2>4, <2>6, <2>7, <2>8 DEF OneErase
  <2>10. Found'
    BY <2>1, <2>3, <2>4, <2>5, <2>6, <2>8 DEF Found, Evidence
  <2>11. Reported'
    <3>1. pc = "wait" => Asked = vblock
      BY DEF Asked
    <3>2. pc = "wait" /\ <<bank, vblock>> \in bad => flags'[bank] # {}
      BY <2>5, <2>6, <3>1
    <3>3. pc = "wait" /\ isrFlag[bank] # INVALID => failed'[bank] = vblock
      <4>1. pc = "wait" /\ isrFlag[bank] # INVALID => failed[bank] = vblock
        BY DEF Reported
      <4>2. failed'[bank] = failed[bank] \/ failed'[bank] = Asked
        BY <2>2, <2>6
      <4>3. QED BY <3>1, <4>1, <4>2
    <3>4. QED BY <2>1, <2>4, <2>8, <3>2, <3>3 DEF Reported, Waiting
  <2>12. QED BY <2>9, <2>10, <2>11
<1>3. CASE Stick(b) \/ Recover(b)
  BY <1>3 DEF Stick, Recover, OneErase, Found, Reported
<1>4. QED
  BY <1>1, <1>2, <1>3

LEMMA IsrErases == ASSUME TypeOK, InRange, Kept, Erasing, Isr PROVE Erasing'
<1> USE DEF hw
<1>1. UNCHANGED <<still, wr, busy, bsp, failed, main>> /\ ~(~irq /\ isr.at = "out")
  BY DEF Isr, IsrEnter, IsrScan, IsrClear, IsrReport, IsrLeave
<1>2. SUFFICES ASSUME pc # "serve" PROVE Erasing'
  <2>1. pc = "serve" => Erasing'
    BY <1>1 DEF Erasing, OneErase, Found, Reported, main
  <2>2. QED BY <1>2, <2>1
<1>3. Waiting /\ wr = <<>> /\ ~busy[bank] /\ \A b \in Banks \ {bank} : flags[b] = {}
  BY <1>1, <1>2 DEF Erasing, OneErase, Calm
<1>4. SUFFICES ASSUME TRUE
              PROVE  Found' /\ Reported' /\ \A b \in Banks \ {bank} : flags'[b] = {}
  <2>1. (\A b \in Banks \ {bank} : flags'[b] = {}) => OneErase'
    BY <1>1, <1>2, <1>3 DEF Erasing, OneErase, still, main, Asked, Waiting
  <2>2. QED BY <1>4, <2>1 DEF Erasing
<1>5. Evidence' = Evidence /\ pc \in {"wait0", "wait"}
  BY <1>1, <1>3 DEF Evidence, Asked, still, main, Waiting
<1>6. bank \in Banks
  BY DEF TypeOK
<1> USE <1>1, <1>2, <1>3, <1>5, <1>6 DEF Erasing, main, still, Handling
<1>7. CASE IsrEnter
  <2>1. isr'.at = "scan" /\ isr.at = "out" /\ UNCHANGED <<flags, isrFlag>>
    BY <1>7 DEF IsrEnter, TypeOK
  <2>2. QED BY <2>1 DEF Found, Reported
<1>8. CASE IsrScan
  <2>1. isr.bank \in Banks /\ UNCHANGED <<flags, isrFlag>> /\ isr.at = "scan"
    BY <1>8, SizesAssumption DEF IsrScan, TypeOK, Banks
  <2>2. CASE flags[isr.bank] = {}
    <3>1. isr'.at = "scan"
      BY <1>8, <2>1, <2>2 DEF IsrScan, TypeOK
    <3>2. QED BY <2>1, <3>1 DEF Found, Reported
  <2>3. CASE flags[isr.bank] # {}
    <3>1. isr'.at = "clear" /\ isr'.bank = isr.bank /\ isr'.seen = flags[isr.bank]
          /\ isr'.fc = bsp[isr.bank].fc
      BY <1>8, <2>1, <2>3 DEF IsrScan, TypeOK
    <3>2. isr.bank = bank /\ flags[bank] = {"BADBLK"} /\ Evidence
      BY <2>1, <2>3 DEF Found
    <3>3. bsp[bank].fc = "ERASE"
      BY <3>2 DEF Evidence, Erase
    <3>4. QED BY <2>1, <3>1, <3>2, <3>3 DEF Found, Reported
  <2>4. QED BY <2>2, <2>3
<1>9. CASE IsrClear
  <2>1. isr' = [isr EXCEPT !.at = "report"] /\ isr.at = "clear" /\ UNCHANGED isrFlag
    BY <1>9 DEF IsrClear
  <2>2. isr'.at = "report" /\ isr'.bank = isr.bank /\ isr'.seen = isr.seen /\ isr'.fc = isr.fc
    BY <2>1 DEF TypeOK
  <2>3. isr.bank = bank /\ isr.seen = {"BADBLK"} /\ isr.fc = "ERASE" /\ Evidence
    BY <2>1 DEF Found
  <2>4. flags' = [flags EXCEPT ![bank] = flags[bank] \ isr.seen]
    BY <1>9, <2>3 DEF IsrClear, FlagsCleared
  <2>5. flags'[bank] \subseteq flags[bank] /\ \A b \in Banks \ {bank} : flags'[b] = flags[b]
    BY <2>4 DEF TypeOK
  <2>6. flags'[bank] # {} => flags'[bank] = {"BADBLK"}
    BY <2>5 DEF Found
  <2>7. QED BY <2>1, <2>2, <2>3, <2>5, <2>6 DEF Found, Reported
<1>10. CASE IsrReport
  <2>1. isr'.at = "scan" /\ isr.at = "report" /\ UNCHANGED flags
    BY <1>10 DEF IsrReport, TypeOK
  <2>2. isr.bank = bank /\ isr.seen = {"BADBLK"} /\ isr.fc = "ERASE" /\ Evidence
    BY <2>1 DEF Found
  <2>3. isrFlag'[bank] = Asked
    BY <1>10, <2>2 DEF IsrReport, TypeOK, Evidence, Erase
  <2>4. pc = "wait" => Asked = vblock /\ vblock # INVALID
    BY DEF Asked, InRange, Blocks, INVALID
  <2>5. Reported'
    BY <2>2, <2>3, <2>4 DEF Reported, Evidence
  <2>6. Found'
    BY <2>1 DEF Found
  <2>7. QED BY <2>1, <2>5, <2>6
<1>11. CASE IsrLeave
  <2>1. isr'.at = "out" /\ isr.at = "scan" /\ UNCHANGED <<flags, isrFlag>>
    BY <1>11 DEF IsrLeave, TypeOK
  <2>2. QED BY <2>1 DEF Found, Reported
<1>12. QED
  BY <1>7, <1>8, <1>9, <1>10, <1>11 DEF Isr

\* With no interrupt pending and the handler out, every failure has been reported.
LEMMA AllReported ==
  ASSUME Kept, MainRuns
  PROVE  (\A b \in Banks : flags[b] = {}) /\ ~Handling
BY DEF Kept, MainRuns, Handling

LEMMA MainErases ==
  ASSUME TypeOK, InRange, Kept, Erasing,
         Format \/ \E b \in Banks, c \in Commands : Serve(b, c)
  PROVE  Erasing'
<1>1. MainRuns /\ (\A b \in Banks : flags[b] = {}) /\ ~Handling /\ bank \in Banks
  <2>1. MainRuns
    BY DEF Format, FormatErase0, FormatStart, FormatErase, FormatCheck, FormatVerdict, Serve
  <2>2. QED BY <2>1, AllReported DEF TypeOK
<1>2. UNCHANGED <<bad, stuck, pause, busy, bsp, flags, failed, irq, isr>>
  BY DEF Format, FormatErase0, FormatStart, FormatErase, FormatCheck, FormatVerdict, Serve, hw, still
<1>3. Handling' = Handling /\ ~irq /\ isr.at = "out"
  BY <1>1, <1>2 DEF Handling, MainRuns
<1> USE <1>1, <1>2, <1>3 DEF Erasing
<1>4. CASE FormatErase0
  <2>1. wr' = <<bank, Erase(0)>> /\ pc = "erase0" /\ pc' = "wait0" /\ UNCHANGED <<bank, vblock>>
    BY <1>4 DEF FormatErase0, Issue
  <2>2. QED BY <2>1 DEF OneErase, Found, Reported, Waiting, Asked, Calm
<1>5. CASE FormatStart
  <2>1. wr' = <<>> /\ ~busy[bank] /\ pc = "wait0" /\ pc' = "loop" /\ UNCHANGED bank
        /\ isrFlag'[bank] = INVALID
    BY <1>5 DEF FormatStart, EraseDone, hw, TypeOK
  <2>2. QED BY <2>1 DEF OneErase, Found, Reported, Waiting, Calm
<1>6. CASE FormatErase
  <2>1. pc = "loop" /\ UNCHANGED <<bank, isrFlag>> /\ isrFlag[bank] = INVALID
    BY <1>6 DEF FormatErase, Reported
  <2>2. \/ wr' = <<bank, Erase(vblock')>> /\ pc' = "wait"
        \/ UNCHANGED wr /\ pc' = "verdict"
    BY <1>6 DEF FormatErase, Issue
  <2>3. QED BY <2>1, <2>2 DEF OneErase, Found, Reported, Waiting, Asked, Calm
<1>7. CASE FormatCheck
  <2>1. wr' = <<>> /\ ~busy[bank] /\ pc = "wait" /\ pc' = "loop" /\ UNCHANGED bank
        /\ isrFlag'[bank] = INVALID
    BY <1>7 DEF FormatCheck, EraseDone, ResetFlag, hw, TypeOK
  <2>2. QED BY <2>1 DEF OneErase, Found, Reported, Waiting, Calm
<1>8. CASE FormatVerdict
  <2>1. pc \in {"verdict", "loop"} /\ wr' = wr /\ bank' \in Banks
        /\ pc' \in {"error", "erase0", "serve"}
    BY <1>8, SizesAssumption DEF FormatVerdict, hw, TypeOK, Banks
  <2>2. wr = <<>> /\ (\A b \in Banks : ~busy[b]) /\ pause /\ stuck = {}
    BY <2>1 DEF OneErase, Waiting
  <2>3. QED BY <2>1, <2>2 DEF OneErase, Found, Reported, Waiting, Calm
<1>9. ASSUME NEW b \in Banks, NEW c \in Commands, Serve(b, c) PROVE Erasing'
  BY <1>9 DEF Serve, OneErase, Found, Reported
<1>10. QED
  BY <1>4, <1>5, <1>6, <1>7, <1>8, <1>9 DEF Format

LEMMA EraseStep == TypeOK /\ InRange /\ Kept /\ Erasing /\ Next => Erasing'
BY ControllerErases, IsrErases, MainErases, SizesAssumption DEF Next, Banks

LEMMA InitErases == Init => Kept /\ Erasing
<1> SUFFICES ASSUME Init PROVE Kept /\ Erasing
  OBVIOUS
<1>1. 0 \in Banks
  BY SizesAssumption DEF Banks
<1>2. QED
  BY <1>1 DEF Init, Kept, Erasing, OneErase, Found, Reported, Waiting, Calm, Handling

-----------------------------------------------------------------------------
(* The blocks format uses. *)

LEMMA InitProgress == Init => Progress
<1> SUFFICES ASSUME Init PROVE Progress
  OBVIOUS
<1>1. \A b \in Banks : UsedSet(b) = {} /\ Len(used[b]) = 0
  BY DEF Init, UsedSet
<1>2. \A b \in Banks : FirstGood(b)
  BY <1>1, FS_EmptySet DEF FirstGood
<1>3. \A b \in Banks : ~Finished(b)
  BY DEF Init, Finished, Banks
<1>4. QED
  BY <1>2, <1>3, SizesAssumption DEF Init, Progress, Banks

\* Nothing but format touches them.
LEMMA OthersProgress ==
  ASSUME Progress, UNCHANGED <<bad, bank, vblock, lbn, used, pc>>
  PROVE  Progress'
<1>1. \A b \in Banks : UsedSet(b)' = UsedSet(b) /\ Good(b)' = Good(b) /\ Finished(b)' = Finished(b)
  BY DEF UsedSet, Good, Finished
<1>2. \A b \in Banks : FirstGood(b)' = FirstGood(b)
  BY <1>1 DEF FirstGood
<1>3. Good(bank)' = Good(bank) /\ UsedSet(bank)' = UsedSet(bank)
  BY DEF UsedSet, Good
<1>4. QED
  BY <1>1, <1>2, <1>3 DEF Progress

\* A good block added after all good blocks before it.
LEMMA UseBlock ==
  ASSUME TypeOK, NEW b \in Banks, NEW k \in Good(b), FirstGood(b),
         UsedSet(b) = {j \in Good(b) : j < k},
         used' = [used EXCEPT ![b] = Append(used[b], k)], UNCHANGED bad
  PROVE  /\ FirstGood(b)'
         /\ UsedSet(b)' = {j \in Good(b) : j <= k}
         /\ Len(used'[b]) = Len(used[b]) + 1
<1>1. used[b] \in Seq(Blocks) /\ k \in Blocks /\ used'[b] = Append(used[b], k)
  BY DEF TypeOK, Good
<1>2. Len(used'[b]) = Len(used[b]) + 1
  BY <1>1
<1>3. UsedSet(b)' = UsedSet(b) \cup {k}
  <2>1. \A i \in 1 .. Len(used[b]) : used'[b][i] = used[b][i]
    BY <1>1
  <2>2. used'[b][Len(used[b]) + 1] = k
    BY <1>1
  <2>3. 1 .. Len(used'[b]) = (1 .. Len(used[b])) \cup {Len(used[b]) + 1}
    BY <1>1, <1>2
  <2>4. QED BY <2>1, <2>2, <2>3 DEF UsedSet
<1>4. Good(b)' = Good(b) /\ \A j \in Good(b) : j \in Int
  BY DEF Good, Blocks
<1>5. UsedSet(b)' = {j \in Good(b) : j <= k}
  BY <1>3, <1>4
<1>6. k \notin UsedSet(b)
  BY <1>4
<1>7. IsFiniteSet(UsedSet(b)') /\ Cardinality(UsedSet(b)') = Cardinality(UsedSet(b)) + 1
  <2>1. ASSUME NEW S, NEW T, NEW x, IsFiniteSet(S), x \notin S, T = S \cup {x}
        PROVE  IsFiniteSet(T) /\ Cardinality(T) = Cardinality(S) + 1
    BY <2>1, FS_AddElement
  <2>2. IsFiniteSet(UsedSet(b))
    BY DEF FirstGood
  <2>3. QED
    BY <1>3, <1>6, <2>1, <2>2
<1>8. FirstGood(b)'
  BY <1>2, <1>4, <1>5, <1>7 DEF FirstGood
<1>9. QED
  BY <1>2, <1>5, <1>8

LEMMA CheckProgress ==
  ASSUME TypeOK, InRange, Kept, Erasing, Progress, FormatCheck
  PROVE  Progress'
<1> USE DEF still
<1>1. MainRuns /\ wr = <<>> /\ ~busy[bank] /\ pc = "wait" /\ pc' = "loop" /\ bank \in Banks
      /\ UNCHANGED <<bad, bank, vblock>>
  BY DEF FormatCheck, EraseDone, TypeOK
<1>2. vblock \in Blocks /\ vblock # 0 /\ \A k \in Good(bank) : k \in Int
  BY <1>1 DEF InRange, Good, Blocks
<1>3. isrFlag[bank] # INVALID <=> <<bank, vblock>> \in bad
  BY <1>1, AllReported DEF Erasing, Reported
<1>4. UsedSet(bank) = {k \in Good(bank) : k < vblock} /\ lbn = Len(used[bank])
      /\ \A b \in Banks : FirstGood(b)
  BY <1>1 DEF Progress
<1>5. \A b \in Banks : Good(b)' = Good(b) /\ Finished(b)' = Finished(b) /\ (Finished(b) => b # bank)
  BY <1>1, SizesAssumption DEF Good, Finished, Banks
<1>6. CASE <<bank, vblock>> \in bad
  <2>1. UNCHANGED <<used, lbn>>
    BY <1>3, <1>6 DEF FormatCheck
  <2>2. \A b \in Banks : UsedSet(b)' = UsedSet(b) /\ FirstGood(b)'
    BY <1>4, <1>5, <2>1 DEF UsedSet, FirstGood
  <2>3. vblock \notin Good(bank)
    BY <1>6 DEF Good
  <2>4. UsedSet(bank)' = {k \in Good(bank) : k <= vblock}
    BY <1>1, <1>2, <1>4, <2>2, <2>3 DEF Blocks
  <2>5. QED
    BY <1>1, <1>5, <2>1, <2>2, <2>4 DEF Progress
<1>7. CASE <<bank, vblock>> \notin bad
  <2>1. used' = [used EXCEPT ![bank] = Append(used[bank], vblock)] /\ lbn' = lbn + 1
    BY <1>3, <1>7 DEF FormatCheck
  <2>2. vblock \in Good(bank)
    BY <1>2, <1>7 DEF Good
  <2>3. PICK c \in Banks : c = bank
    BY <1>1
  <2>4. /\ FirstGood(c)'
        /\ UsedSet(c)' = {k \in Good(c) : k <= vblock}
        /\ Len(used'[c]) = Len(used[c]) + 1
    <3>1. vblock \in Good(c) /\ FirstGood(c) /\ UsedSet(c) = {k \in Good(c) : k < vblock}
          /\ used' = [used EXCEPT ![c] = Append(used[c], vblock)]
      BY <1>4, <2>1, <2>2, <2>3
    <3>2. QED BY <1>1, <3>1, UseBlock
  <2>5. \A b \in Banks \ {c} : used'[b] = used[b]
    BY <2>1, <2>3 DEF TypeOK
  <2>6. \A b \in Banks : FirstGood(b)'
    <3>1. ASSUME NEW b \in Banks, b # c PROVE FirstGood(b)'
      <4>1. UsedSet(b)' = UsedSet(b)
        BY <2>5, <3>1 DEF UsedSet
      <4>2. QED BY <1>4, <1>5, <2>5, <3>1, <4>1 DEF FirstGood
    <3>2. QED BY <2>4, <3>1
  <2>7. \A b \in Banks : Finished(b)' => Len(used'[b]) = LogBlks
    BY <1>5, <2>3, <2>5 DEF Progress
  <2>8. \A b \in Banks : b > bank' => used'[b] = <<>>
    BY <1>1, <2>3, <2>5, SizesAssumption DEF Progress, Banks
  <2>9. lbn' = Len(used'[bank])
    BY <1>4, <2>1, <2>3, <2>4
  <2>10. UsedSet(bank)' = {k \in Good(bank)' : k <= vblock'}
    <3>1. UsedSet(bank)' = UsedSet(c)' /\ Good(bank)' = Good(c)
      BY <1>1, <2>3 DEF UsedSet, Good
    <3>2. QED BY <1>1, <2>4, <3>1
  <2>11. QED
    BY <1>1, <2>6, <2>7, <2>8, <2>9, <2>10 DEF Progress
<1>8. QED
  BY <1>6, <1>7

LEMMA MainProgress ==
  ASSUME TypeOK, InRange, Kept, Erasing, Progress,
         Format \/ \E b \in Banks, c \in Commands : Serve(b, c)
  PROVE  Progress'
<1> USE DEF still
<1>1. bank \in Banks /\ \A k \in Good(bank) : k \in 1 .. VBlks - 1
  BY SizesAssumption DEF TypeOK, Good, Blocks
<1>2. CASE FormatCheck
  BY <1>2, CheckProgress
<1>3. CASE FormatErase0 \/ FormatStart \/ FormatErase \/ FormatVerdict
  <2>1. UNCHANGED <<bad, used>>
    BY <1>3 DEF FormatErase0, FormatStart, FormatErase, FormatVerdict
  <2>2. \A b \in Banks : UsedSet(b)' = UsedSet(b) /\ Good(b)' = Good(b) /\ FirstGood(b)'
    <3>1. \A b \in Banks : UsedSet(b)' = UsedSet(b) /\ Good(b)' = Good(b)
      BY <2>1 DEF UsedSet, Good
    <3>2. QED BY <2>1, <3>1 DEF FirstGood, Progress
  <2>3. CASE FormatErase0
    <3>1. UNCHANGED <<bank, vblock, lbn>> /\ pc = "erase0" /\ pc' = "wait0"
      BY <2>3 DEF FormatErase0
    <3>2. QED BY <2>1, <2>2, <3>1 DEF Progress, Finished
  <2>4. CASE FormatStart
    <3>1. UNCHANGED bank /\ pc = "wait0" /\ pc' = "loop" /\ vblock' = 0 /\ lbn' = 0
      BY <2>4 DEF FormatStart
    <3>2. used[bank] = <<>>
      BY <3>1 DEF Progress
    <3>3. UsedSet(bank)' = {k \in Good(bank) : k <= 0}
      <4>1. UsedSet(bank) = {}
        BY <3>2 DEF UsedSet
      <4>2. {k \in Good(bank) : k <= 0} = {}
        BY <1>1, SizesAssumption
      <4>3. QED BY <1>1, <2>1, <3>1, <4>1, <4>2 DEF UsedSet
    <3>4. QED BY <1>1, <2>1, <2>2, <3>1, <3>2, <3>3 DEF Progress, Finished
  <2>5. CASE FormatErase
    <3>1. UNCHANGED <<bank, lbn>> /\ pc = "loop" /\ vblock' = vblock + 1 /\ vblock \in Blocks
          /\ UsedSet(bank) = {k \in Good(bank) : k <= vblock}
      BY <2>5 DEF FormatErase, Progress, InRange
    <3>2. UsedSet(bank)' = {k \in Good(bank) : k < vblock'}
      BY <1>1, <2>1, <2>2, <3>1 DEF Blocks
    <3>3. CASE BlockLeft
      <4>1. pc' = "wait"
        BY <2>5, <3>3 DEF FormatErase
      <4>2. QED BY <1>1, <2>1, <2>2, <3>1, <3>2, <4>1 DEF Progress, Finished
    <3>4. CASE ~BlockLeft
      <4>1. pc' = "verdict" /\ vblock' = VBlks
        BY <2>5, <3>1, <3>4, SizesAssumption DEF FormatErase, BlockLeft, Blocks
      <4>2. UsedSet(bank)' = Good(bank)
        BY <1>1, <3>2, <4>1, SizesAssumption
      <4>3. QED BY <1>1, <2>1, <2>2, <3>1, <4>1, <4>2 DEF Progress, Finished
    <3>5. QED BY <3>3, <3>4
  <2>6. CASE FormatVerdict
    <3>1. UNCHANGED <<vblock, lbn>> /\ lbn = Len(used[bank]) /\ lbn \in Nat /\ pc \in {"verdict", "loop"}
          /\ lbn <= LogBlks /\ lbn \in Int
      BY <2>6, SizesAssumption DEF FormatVerdict, Progress, TypeOK
    <3>2. CASE lbn < LogBlks
      <4>1. pc = "verdict" /\ pc' = "error" /\ UNCHANGED bank
        BY <2>6, <3>1, <3>2, SizesAssumption DEF FormatVerdict
      <4>2. UsedSet(bank) = Good(bank) /\ FirstGood(bank)
        BY <1>1, <4>1 DEF Progress
      <4>3. Cardinality(Good(bank)) < LogBlks
        BY <3>1, <3>2, <4>2 DEF FirstGood
      <4>4. Good(bank)' = Good(bank)
        BY <1>1, <2>2, <4>1
      <4>5. QED BY <2>1, <2>2, <4>1, <4>3, <4>4 DEF Progress, Finished
    <3>3. CASE lbn = LogBlks /\ bank + 1 < NumBanks
      <4>1. pc' = "erase0" /\ bank' = bank + 1
        BY <2>6, <3>1, <3>3, SizesAssumption DEF FormatVerdict
      <4>2. bank + 1 \in Banks /\ bank + 1 > bank /\ used'[bank'] = <<>>
        BY <1>1, <2>1, <3>1, <3>3, <4>1, SizesAssumption DEF Banks, Progress
      <4>3. \A b \in Banks : b < bank' <=> (b < bank \/ b = bank)
        BY <1>1, <4>1, SizesAssumption DEF Banks
      <4>4. \A b \in Banks : Finished(b)' => Len(used'[b]) = LogBlks
        BY <1>1, <2>1, <3>1, <3>3, <4>1, <4>3, SizesAssumption DEF Finished, Progress, Banks
      <4>5. \A b \in Banks : b > bank' => b > bank
        BY <1>1, <4>1, SizesAssumption DEF Banks
      <4>6. QED BY <2>1, <2>2, <3>1, <4>1, <4>2, <4>4, <4>5 DEF Progress
    <3>4. CASE lbn = LogBlks /\ ~ (bank + 1 < NumBanks)
      <4>1. pc' = "serve" /\ UNCHANGED bank
        BY <2>6, <3>1, <3>4, SizesAssumption DEF FormatVerdict
      <4>2. \A b \in Banks : b < bank \/ b = bank
        BY <1>1, <3>4, SizesAssumption DEF Banks
      <4>3. \A b \in Banks : Len(used'[b]) = LogBlks
        BY <1>1, <2>1, <3>1, <3>4, <4>2, SizesAssumption DEF Finished, Progress, Banks
      <4>4. QED BY <2>1, <2>2, <4>1, <4>3 DEF Progress
    <3>5. QED BY <3>1, <3>2, <3>3, <3>4, SizesAssumption
  <2>7. QED BY <1>3, <2>3, <2>4, <2>5, <2>6
<1>4. ASSUME NEW b \in Banks, NEW c \in Commands, Serve(b, c) PROVE Progress'
  BY <1>4, OthersProgress DEF Serve
<1>5. QED
  BY <1>2, <1>3, <1>4 DEF Format

LEMMA ProgressStep == TypeOK /\ InRange /\ Kept /\ Erasing /\ Progress /\ Next => Progress'
<1> SUFFICES ASSUME TypeOK, InRange, Kept, Erasing, Progress, Next PROVE Progress'
  OBVIOUS
<1>1. CASE Accept \/ Isr \/ \E b \in Banks : Complete(b) \/ Stick(b) \/ Recover(b)
  <2>1. UNCHANGED <<bad, bank, vblock, lbn, used, pc>>
    BY <1>1 DEF Accept, Isr, Complete, Stick, Recover, IsrEnter, IsrScan, IsrClear, IsrReport,
                IsrLeave, still, main
  <2>2. QED BY <2>1, OthersProgress
<1>2. QED
  BY <1>1, MainProgress DEF Next

-----------------------------------------------------------------------------
(* The invariant. *)

LEMMA InitInv == Init => IInv
BY InitTypes, InitErases, InitProgress DEF IInv, Erasing

LEMMA StepInv == IInv /\ [Next]_vars => IInv'
<1> SUFFICES ASSUME IInv, [Next]_vars PROVE IInv'
  OBVIOUS
<1>1. CASE UNCHANGED vars
  <2>1. Progress'
    BY <1>1, OthersProgress DEF IInv, vars, still, main
  <2>2. TypeOK' /\ InRange' /\ Kept'
    BY <1>1 DEF IInv, vars, still, hw, main, TypeOK, InRange, Kept, Handling
  <2>3. OneErase' /\ Found' /\ Reported'
    BY <1>1 DEF IInv, vars, still, hw, main, OneErase, Found, Reported, Evidence, Calm, Waiting,
                Asked, Handling
  <2>4. QED BY <2>1, <2>2, <2>3 DEF IInv
<1>2. CASE Next
  BY <1>2, TypeStep, KeptStep, EraseStep, ProgressStep DEF IInv, Erasing
<1>3. QED
  BY <1>1, <1>2

\* The inductive invariant of the interrupt path and of format.
THEOREM Invariant == Spec => []IInv
<1>1. QED
  BY InitInv, StepInv, PTL DEF Spec

\* Every variable keeps its type: no bank or block number leaves its array.
THEOREM TypeCorrect == Spec => []TypeOK
<1>1. IInv => TypeOK
  BY DEF IInv
<1>2. QED
  BY <1>1, Invariant, PTL

\* A flag that ftl_isr has not cleared brings it back, on whatever bank and at whatever
\* step of the handler it was raised; a recovery, which starts with no interrupt
\* pending, wipes none.
THEOREM FlagsBringIsr == Spec => []NoInterruptLost
<1>1. IInv => NoInterruptLost
  BY DEF IInv, Kept, NoInterruptLost
<1>2. QED
  BY <1>1, Invariant, PTL

\* While format runs, the block in g_bsp_isr_flag is the one whose erase failed.
THEOREM BlameCorrect == Spec => []FormatBlame
<1>1. IInv => FormatBlame
  BY DEF IInv, Reported, FormatBlame
<1>2. QED
  BY <1>1, Invariant, PTL

\* format uses exactly the first LOG_BLK_PER_BANK good blocks of every bank, whichever
\* blocks are bad, and stops the drive only when a bank has fewer.
THEOREM FormatCorrect == Spec => []FormatExact
<1>1. IInv => FormatExact
  BY DEF IInv, Progress, FirstGood, FormatExact
<1>2. QED
  BY <1>1, Invariant, PTL

-----------------------------------------------------------------------------
(* format comes to its end: it never waits in vain, and no step takes it back. *)

Over == pc \in {"serve", "error"}

\* Some step can be taken: the bank takes the erase or ends it, ftl_isr goes on, or format does.
FormatGoesOn == ~Over =>
  \/ wr # <<>> /\ wr[1] = bank /\ ~busy[bank] /\ flags[bank] = {}
  \/ busy[bank] /\ bank \notin stuck
  \/ irq /\ isr.at = "out"
  \/ Handling \/ (isr.at = "scan" /\ (isr.bank = NumBanks \/ ~busy[isr.bank]))
  \/ MainRuns /\ wr = <<>> /\ (Waiting => ~busy[bank])

\* Steps of format left on the bank, of the controller in the erase, and of ftl_isr in its scan.
ToGo == IF pc = "erase0" THEN 2 * VBlks + 2
        ELSE IF pc = "wait0" THEN 2 * VBlks + 1
        ELSE IF pc = "wait" THEN 2 * (VBlks - vblock) + 1
        ELSE IF pc = "loop" THEN 2 * (VBlks - vblock)
        ELSE 0
Ahead == IF wr # <<>> THEN 2 ELSE IF busy[bank] THEN 1 ELSE 0
ToScan == IF isr.at = "out" THEN 0
          ELSE 3 * (NumBanks - isr.bank)
                 + (IF isr.at = "scan" THEN 3 ELSE IF isr.at = "clear" THEN 2 ELSE 1)

\* The next bank, or less to go in the first of these that changes.
Closer == \/ bank' > bank
          \/ bank' = bank /\ ToGo' < ToGo
          \/ UNCHANGED <<bank, ToGo>> /\ Ahead' < Ahead
          \/ UNCHANGED <<bank, ToGo, Ahead>> /\ irq /\ ~irq'
          \/ UNCHANGED <<bank, ToGo, Ahead, irq>> /\ ToScan' < ToScan

Finite == bank < NumBanks /\ ToGo \in Nat /\ Ahead \in Nat /\ ToScan \in Nat

LEMMA MeasureIsFinite == TypeOK /\ InRange => Finite
<1> SUFFICES ASSUME TypeOK, InRange PROVE Finite
  OBVIOUS
<1>1. bank < NumBanks /\ ToGo \in Nat /\ Ahead \in Nat
  BY SizesAssumption DEF TypeOK, Banks, ToGo, Ahead
<1>2. isr.bank \in 0 .. NumBanks
  BY DEF TypeOK
<1>3. 3 * (NumBanks - isr.bank) \in Nat
  BY <1>2, SizesAssumption
<1>4. ToScan \in Nat
  BY <1>3 DEF ToScan
<1>5. QED
  BY <1>1, <1>4 DEF Finite

LEMMA ControllerCloser ==
  ASSUME IInv, ~Over, NEW b \in Banks, Accept \/ Complete(b)
  PROVE  Closer
<1> USE DEF IInv, TypeOK, Over
<1>1. /\ wr = <<>> \/ wr[1] = bank
      /\ busy[bank] => wr = <<>>
      /\ busy[b] => b = bank
  BY DEF OneErase
<1>2. UNCHANGED <<bank, ToGo>>
  BY DEF Accept, Complete, main, ToGo
<1>3. CASE Accept
  <2>1. wr # <<>> /\ wr' = <<>>
    BY <1>3 DEF Accept
  <2>2. QED BY <1>2, <2>1 DEF Closer, Ahead
<1>4. CASE Complete(b)
  <2>1. wr' = wr /\ busy[b] /\ busy' = [busy EXCEPT ![b] = FALSE]
    BY <1>4 DEF Complete
  <2>2. b = bank /\ wr = <<>> /\ ~busy'[bank]
    BY <1>1, <2>1
  <2>3. Ahead = 1 /\ Ahead' = 0
    BY <1>2, <2>1, <2>2 DEF Ahead
  <2>4. QED BY <1>2, <2>3 DEF Closer
<1>5. QED BY <1>3, <1>4

LEMMA ScanCloser ==
  ASSUME TypeOK, IsrScan \/ IsrClear \/ IsrReport \/ IsrLeave
  PROVE  ToScan' < ToScan
<1>1. /\ isr.bank \in 0 .. NumBanks /\ NumBanks \in Nat
      /\ isr \in [at : {"out", "scan", "clear", "report"}, bank : 0 .. NumBanks,
                  seen : SUBSET Flags, fc : {"NONE", "ERASE", "PROG", "READ"}]
  BY SizesAssumption DEF TypeOK
<1>2. ASSUME IsrScan PROVE ToScan' < ToScan
  <2>1. /\ isr.at = "scan" /\ isr.bank < NumBanks
        /\ isr' = (IF flags[isr.bank] = {}
                   THEN [isr EXCEPT !.bank = @ + 1]
                   ELSE [isr EXCEPT !.at = "clear", !.seen = flags[isr.bank],
                                    !.fc = bsp[isr.bank].fc])
    BY <1>2 DEF IsrScan
  <2>2. \/ isr'.at = "scan" /\ isr'.bank = isr.bank + 1
        \/ isr'.at = "clear" /\ isr'.bank = isr.bank
    BY <1>1, <2>1
  <2>3. QED BY <1>1, <2>1, <2>2 DEF ToScan
<1>3. ASSUME IsrClear PROVE ToScan' < ToScan
  <2>1. isr.at = "clear" /\ isr'.at = "report" /\ isr'.bank = isr.bank
    BY <1>1, <1>3 DEF IsrClear
  <2>2. QED BY <1>1, <2>1 DEF ToScan
<1>4. ASSUME IsrReport PROVE ToScan' < ToScan
  <2>1. isr.at = "report" /\ isr'.at = "scan" /\ isr'.bank = isr.bank + 1
    BY <1>1, <1>4 DEF IsrReport
  <2>2. QED BY <1>1, <2>1 DEF ToScan
<1>5. ASSUME IsrLeave PROVE ToScan' < ToScan
  <2>1. isr.at = "scan" /\ isr'.at = "out" /\ isr.bank = NumBanks
    BY <1>1, <1>5 DEF IsrLeave
  <2>2. QED BY <1>1, <2>1 DEF ToScan
<1>6. QED
  BY <1>2, <1>3, <1>4, <1>5

LEMMA IsrCloser == ASSUME IInv, ~Over, Isr PROVE Closer
<1> USE DEF IInv
<1>1. UNCHANGED <<bank, ToGo, Ahead>>
  BY DEF Isr, IsrEnter, IsrScan, IsrClear, IsrReport, IsrLeave, hw, main, ToGo, Ahead
<1>2. CASE IsrEnter
  <2>1. irq /\ ~irq'
    BY <1>2 DEF IsrEnter
  <2>2. QED BY <1>1, <2>1 DEF Closer
<1>3. CASE IsrScan \/ IsrClear \/ IsrReport \/ IsrLeave
  <2>1. irq' = irq
    BY <1>3 DEF IsrScan, IsrClear, IsrReport, IsrLeave
  <2>2. ToScan' < ToScan
    BY <1>3, ScanCloser
  <2>3. QED BY <1>1, <2>1, <2>2 DEF Closer
<1>4. QED BY <1>2, <1>3 DEF Isr

LEMMA FormatCloser == ASSUME IInv, ~Over, Format PROVE Closer \/ Over'
<1> USE DEF IInv, Over
<1>1. /\ VBlks \in Nat \ {0} /\ vblock \in 0 .. VBlks /\ bank \in Nat
      /\ pc \in {"loop", "wait"} => vblock < VBlks
  BY SizesAssumption DEF TypeOK, Banks, Blocks, InRange
<1>2. CASE FormatErase0
  BY <1>1, <1>2 DEF FormatErase0, ToGo, Closer
<1>3. CASE FormatStart
  BY <1>1, <1>3 DEF FormatStart, ToGo, Closer
<1>4. CASE FormatErase
  <2>1. /\ bank' = bank /\ vblock' = vblock + 1 /\ pc = "loop" /\ pc' \in {"wait", "verdict"}
    BY <1>4 DEF FormatErase
  <2>2. ToGo = 2 * (VBlks - vblock)
        /\ ToGo' = IF pc' = "wait" THEN 2 * (VBlks - (vblock + 1)) + 1 ELSE 0
    BY <2>1 DEF ToGo
  <2>3. ToGo' < ToGo
    BY <1>1, <2>1, <2>2
  <2>4. QED BY <2>1, <2>3 DEF Closer
<1>5. CASE FormatCheck
  BY <1>1, <1>5 DEF FormatCheck, ToGo, Closer
<1>6. CASE FormatVerdict
  BY <1>1, <1>6 DEF FormatVerdict, Closer
<1>7. QED BY <1>2, <1>3, <1>4, <1>5, <1>6 DEF Format

\* format never waits in vain (ftl.c:68-117): while an erase is under way its bank is neither
\* stuck nor paused by a flag, or ftl_isr is about to clear the flag; the first half of FormatEnds.
THEOREM FormatNeverStuck == Spec => []FormatGoesOn
<1>1. IInv => FormatGoesOn
  <2> SUFFICES ASSUME IInv, ~Over PROVE FormatGoesOn
    BY DEF FormatGoesOn
  <2> USE DEF IInv, Over
  <2>1. CASE wr # <<>>
    BY <2>1 DEF OneErase, Calm, FormatGoesOn
  <2>2. CASE busy[bank]
    BY <2>2 DEF OneErase, FormatGoesOn
  <2>3. CASE wr = <<>> /\ ~busy[bank]
    <3>1. /\ \A b \in Banks : ~busy[b]
          /\ isr.at \in {"out", "scan", "clear", "report"} /\ isr.bank \in 0 .. NumBanks
      BY <2>3 DEF OneErase, TypeOK
    <3>2. CASE isr.at = "out"
      BY <2>3, <3>2 DEF FormatGoesOn, MainRuns
    <3>3. CASE isr.at = "scan"
      BY <3>1, <3>3, SizesAssumption DEF FormatGoesOn, Banks
    <3>4. CASE isr.at \in {"clear", "report"}
      BY <3>4 DEF FormatGoesOn, Handling
    <3>5. QED BY <3>1, <3>2, <3>3, <3>4
  <2>4. QED BY <2>1, <2>2, <2>3
<1>2. QED
  BY <1>1, Invariant, PTL

\* Every step of format, of the banks and of ftl_isr brings format closer to its end, in an order
\* without infinite descent: the second half of FormatEnds, which then needs only the fairness.
THEOREM FormatComesCloser == Spec => []Finite /\ [][~Over => Closer \/ Over']_vars
<1>1. IInv => Finite
  BY MeasureIsFinite DEF IInv
<1>2. IInv /\ [Next]_vars => [~Over => Closer \/ Over']_vars
  <2> SUFFICES ASSUME IInv, Next, ~Over PROVE Closer \/ Over'
    OBVIOUS
  <2>1. ~ \E b \in Banks : Stick(b) \/ Recover(b)
    BY DEF Over, Stick, Recover
  <2>2. ~ \E b \in Banks, c \in Commands : Serve(b, c)
    BY DEF Over, Serve
  <2>3. 0 \in Banks
    BY SizesAssumption DEF Banks
  <2>4. QED BY <2>1, <2>2, <2>3, ControllerCloser, IsrCloser, FormatCloser DEF Next
<1>3. QED
  BY <1>1, <1>2, Invariant, PTL DEF Spec

\* What keeps ftl_isr, of which no call of the main program comes in between: the command in
\* Waiting Room, the banks at work, its scan.
Working == {b \in Banks : busy[b]}
HandlerCloser == \/ wr # <<>> /\ wr' = <<>>
                 \/ wr' = wr /\ Working' \subseteq Working /\ Working' # Working
                 \/ UNCHANGED <<wr, Working>> /\ ToScan' < ToScan

\* While ftl_isr runs (ftl.c:119-199), during format or later, each step of it or of the banks
\* brings it closer to its end, unless a bank gets stuck.  Of these Finite gives no infinite
\* descent, and a bank it waits for ends its command: the fairness is all that IsrReturns adds.
THEOREM HandlerComesCloser ==
  Spec => [][isr.at # "out" => HandlerCloser \/ stuck' # {}]_vars
<1>1. IInv /\ [Next]_vars => [isr.at # "out" => HandlerCloser \/ stuck' # {}]_vars
  <2> SUFFICES ASSUME IInv, Next, isr.at # "out" PROVE HandlerCloser \/ stuck' # {}
    OBVIOUS
  <2> USE DEF IInv
  <2>1. CASE Accept
    BY <2>1 DEF Accept, HandlerCloser
  <2>2. ASSUME NEW b \in Banks, Complete(b) PROVE HandlerCloser
    <3>1. wr' = wr /\ busy[b] /\ busy' = [busy EXCEPT ![b] = FALSE]
      BY <2>2 DEF Complete
    <3>2. b \in Working /\ b \notin Working' /\ Working' \subseteq Working
      BY <3>1 DEF TypeOK, Working
    <3>3. QED BY <3>1, <3>2 DEF HandlerCloser
  <2>3. ASSUME NEW b \in Banks, Stick(b) PROVE stuck' # {}
    BY <2>3 DEF Stick
  <2>4. CASE Isr
    <3>1. IsrScan \/ IsrClear \/ IsrReport \/ IsrLeave
      BY <2>4 DEF Isr, IsrEnter
    <3>2. UNCHANGED <<wr, busy>>
      BY <3>1 DEF IsrScan, IsrClear, IsrReport, IsrLeave, hw
    <3>3. ToScan' < ToScan
      BY <3>1, ScanCloser
    <3>4. QED BY <3>2, <3>3 DEF HandlerCloser, Working
  <2>5. ~Format /\ ~(\E b \in Banks : Recover(b)) /\ ~(\E b \in Banks, c \in Commands : Serve(b, c))
    BY DEF Format, FormatErase0, FormatStart, FormatErase, FormatCheck, FormatVerdict, Recover,
           Serve, MainRuns
  <2>6. QED BY <2>1, <2>2, <2>3, <2>4, <2>5 DEF Next
<1>2. QED
  BY <1>1, Invariant, PTL DEF Spec
=============================================================================
