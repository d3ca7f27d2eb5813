---------------------------- MODULE AtaCommands ----------------------------
(***************************************************************************)
(* ATA commands from the frame to the answer: handle_got_cfis decodes a    *)
(* frame with the class table, the Event Queue or the mailbox carries the  *)
(* command to Main, which calls the FTL or the function the code table     *)
(* gives.  Functions read the frame registers again, and a PIO transfer    *)
(* takes the SATA engine over with the FIQ off.  (SataCmd has the host's   *)
(* resets, the full queue and the races for the mailbox; here the host     *)
(* sends its next command when it has the answer to the last.)             *)
(*                                                                         *)
(* Numbers keep their relations and not their sizes: a word has Word       *)
(* values for 2^32, and the fields of a frame are smaller in proportion.   *)
(***************************************************************************)
EXTENDS Integers, FiniteSets

CONSTANTS
  LowValues,    \* of the LBA bits 23:0; the CHS sector is their low end
  SectValues,   \* of the CHS sector number
  DevValues,    \* of the device nibble: LBA bits 27:24, or the head
  HighValues,   \* of the LBA bits 31:24, all a word takes of bits 47:24 of an extended one
  NorValues, ExtValues,       \* of a sector count of 8 and of 16 bits
  SataFeature,  \* the count that says which SATA feature is meant (0x02)
  MAX_LBA,
  Codes, Lows, Devs, Highs, Counts   \* bound: the values the host sends

Word == LowValues * HighValues
TrimMark == (Word \div 4) - 1                 \* 0x3FFFFFFF

ASSUME FieldsAssumption ==
  /\ {LowValues, SectValues, DevValues, HighValues, NorValues, ExtValues} \subseteq Nat \ {0}
  /\ LowValues % SectValues = 0 /\ DevValues < HighValues /\ Word % 4 = 0
  /\ NorValues <= LowValues /\ NorValues <= ExtValues
  /\ MAX_LBA \in ExtValues..TrimMark - 1 /\ SataFeature \in 1..NorValues - 1
  /\ Lows \subseteq 0..LowValues - 1 /\ Devs \subseteq 0..DevValues - 1
  /\ Highs \subseteq Nat /\ Counts \subseteq 0..ExtValues - 1
  /\ 0 \in Codes /\ Codes \subseteq 0..255

Features == {"write_cache_on", "write_cache_off", "look_ahead_on", "look_ahead_off",
             "SATA_on", "SATA_off", "transfer_mode", "other"}

----------------------------------------------------------------------------
\* ata_cmd_class_table, by attribute; without one, lba and count are 0.
LBA_NOR == {\h20, \h30, \h40, \h92, \hC4, \hC5, \hC8, \hCA, \hF9, \hFC}
LBA_EXT == {\h24, \h25, \h29, \h2F, \h34, \h35, \h37, \h39, \h3F, \h42, \hFD}
LBA_SECT_CNT == {\h06}
NO_SECT == {\h37, \hF9, \hFF}
FTL_D2H == {\h20, \h24, \h25, \h29, \h60, \hC4, \hC8}
FTL_H2D == {\h30, \h34, \h35, \h39, \h61, \hC5, \hCA}
TRIM == \h06
FPDMA == {\h60, \h61}

\* search_ata_function over ata_command_code_table and ata_function_table; codes
\* whose entry is INVALID32 fare like those not in the table.
Function(code) ==
  CASE code \in {\h27, \hF8}                              -> "read_native_max_address"
    [] code \in {\h10, \h40, \h42, \h99, \hC6, \hE6}      -> "success"
    [] code \in {\h94, \h95, \h96, \h97, \hE0, \hE1, \hE2, \hE3, \hE7, \hEA} -> "flush"
    [] code \in {\h98, \hE5}                              -> "check_power_mode"
    [] code = \h70                                        -> "seek"
    [] code = \h91                                        -> "initialize_device_parameters"
    [] code = \hEF                                        -> "set_features"
    [] code \in {\hE4, \hEC}                              -> "PIO_in"
    [] code = \hE8                                        -> "PIO_out"
    [] code \in {\h90, \hFF}                              -> "signature"
    [] OTHER                                              -> "abort"   \* NOP too

\* What the host may send: fields that neither the decoding nor a function of the
\* code looks at are 0.
Frames ==
  LET None == {0} IN
  UNION {[code : {c}, lbaMode : IF c \in LBA_NOR THEN BOOLEAN ELSE {TRUE},
          low  : IF c \in LBA_NOR \cup LBA_EXT \cup LBA_SECT_CNT THEN Lows ELSE None,
          dev  : IF c \in LBA_NOR \cup LBA_SECT_CNT \cup {\h91} THEN Devs ELSE None,
          high : IF c \in LBA_EXT THEN Highs ELSE None,
          count : IF c \in LBA_NOR \cup LBA_EXT \cup LBA_SECT_CNT \cup {\h91, \hEF} THEN Counts ELSE None,
          feature : IF c = \hEF THEN Features ELSE {"other"}] : c \in Codes}

VARIABLES
  fis,       \* SATA_FIS_H2D_*: the last command frame
  cmdRecv,   \* SATA_INT_STAT has CMD_RECV
  waiting,   \* the host has no answer to fis yet
  told,      \* the answer to the command before, or to this one
  context,   \* g_sata_context: features and CHS translation
  slow,      \* g_sata_context.slow_cmd
  eq,        \* the Event Queue, empty or its one entry
  engine,    \* the SATA engine: what it transfers, and in which mode it was started
  fiq,       \* the FIQ is enabled
  manual,    \* SATA_CTRL_3: Manual Mode
  pc, run    \* Main: next step, and the command it runs

regs == <<fis, cmdRecv>>
host == <<waiting, told>>
main == <<pc, run>>
vars == <<regs, host, context, slow, eq, engine, fiq, manual, main>>

NoEntry == [write |-> FALSE, lba |-> 0, count |-> 0, some |-> FALSE]
Idle == [what |-> "nothing", sectors |-> 0, write |-> FALSE, manual |-> FALSE]
NoSlow == [status |-> "NONE", code |-> 0, lba |-> 0, count |-> 0]
NoRun == [function |-> "none", code |-> 0, lba |-> 0, count |-> 0]

\* sata_reset, and the start of the host's first command.
Init ==
  /\ fis = CHOOSE f \in Frames : f.code = 0
  /\ cmdRecv = FALSE /\ waiting = FALSE /\ told = "none"
  /\ context = [writeCache |-> TRUE, lookAhead |-> TRUE, autoActivate |-> FALSE,
                heads |-> 0, sectors |-> 0]
  /\ slow = NoSlow
  /\ eq = NoEntry /\ engine = Idle /\ fiq = TRUE /\ manual = FALSE
  /\ pc = "poll" /\ run = NoRun

\* Bound: a host slower than ftl_write (SataCmd has queued writes).
SendCommand(f) ==
  /\ ~waiting /\ ~eq.some /\ pc # "ftl" /\ engine = Idle
  /\ fis' = f /\ cmdRecv' = TRUE /\ waiting' = TRUE
  /\ UNCHANGED <<told, context, slow, eq, engine, fiq, manual, main>>

Answer(what) == waiting' = FALSE /\ told' = what

----------------------------------------------------------------------------
(* handle_got_cfis. *)

\* The LBA of a frame, in a word: CHS, 28 bits, or 48 bits, of which the shift of
\* SATA_FIS_H2D_2 by 24 loses bits 47:32.
Lba(f) ==
  CASE f.code \in LBA_NOR /\ ~f.lbaMode ->
         (((f.low \div SectValues) * context.heads + f.dev) * context.sectors
            + (f.low % SectValues) - 1) % Word
    [] f.code \in LBA_NOR /\ f.lbaMode -> f.dev * LowValues + f.low
    [] f.code \in LBA_EXT -> (f.high * LowValues + f.low) % Word
    [] f.code \in LBA_SECT_CNT -> f.dev * LowValues + f.low
    [] OTHER -> 0

Whole(f, count, all) == IF count = 0 /\ f.code \notin NO_SECT THEN all ELSE count
SectorCount(f) ==
  CASE f.code \in LBA_NOR -> Whole(f, f.count % NorValues, NorValues)
    [] f.code \in LBA_EXT -> Whole(f, f.count, ExtValues)
    [] f.code \in LBA_SECT_CNT -> f.count
    [] OTHER -> 0

\* The sum is a word.
Beyond(f) == (Lba(f) + SectorCount(f)) % Word > MAX_LBA + 1

Rejected(f) == Beyond(f) /\ f.code \notin NO_SECT

GotCfis == fiq /\ cmdRecv /\ cmdRecv' = FALSE

RejectCommand ==
  /\ GotCfis /\ Rejected(fis)
  /\ Answer("IDNF")
  /\ UNCHANGED <<fis, context, slow, eq, engine, fiq, manual, main>>

\* SATA_LBA has room for 30 bits, SATA_SECT_CNT for 16.
Queue(write, lba, count) ==
  eq' = [write |-> write, lba |-> lba % (Word \div 4), count |-> count % ExtValues, some |-> TRUE]
Start(write, sectors) ==
  engine' = [what |-> "queue", sectors |-> sectors, write |-> write, manual |-> manual]

QueueReadWrite ==
  /\ GotCfis /\ ~Rejected(fis) /\ fis.code \in FTL_D2H \cup FTL_H2D
  /\ Queue(fis.code \in FTL_H2D, Lba(fis), SectorCount(fis))
  /\ Start(fis.code \in FTL_H2D, SectorCount(fis))
  /\ UNCHANGED <<fis, host, context, slow, fiq, manual, main>>

QueueTrim ==
  /\ GotCfis /\ ~Rejected(fis) /\ fis.code = TRIM
  /\ Queue(TRUE, TrimMark, SectorCount(fis))
  /\ Start(TRUE, SectorCount(fis))
  /\ UNCHANGED <<fis, host, context, slow, fiq, manual, main>>

PostSlow ==
  /\ GotCfis /\ ~Rejected(fis) /\ fis.code \notin FTL_D2H \cup FTL_H2D \cup {TRIM}
  /\ slow' = [status |-> "PENDING", code |-> fis.code, lba |-> Lba(fis), count |-> SectorCount(fis)]
  /\ UNCHANGED <<fis, host, context, eq, engine, fiq, manual, main>>

Fiq == RejectCommand \/ QueueReadWrite \/ QueueTrim \/ PostSlow

----------------------------------------------------------------------------
(* Main: the queue. *)

\* Slip: a count of 0 stays 0
CountUnread(entry) == entry.count
CountRead(entry) == IF entry.count = 0 THEN ExtValues ELSE entry.count

EventqGet ==
  /\ pc = "poll" /\ eq.some
  /\ run' = [function |-> IF ~eq.write THEN "ftl_read"
                          ELSE IF eq.lba = TrimMark THEN "ftl_trim" ELSE "ftl_write",
             code |-> fis.code,      \* for the properties: the code keeps none
             lba |-> eq.lba, count |-> CountRead(eq)]
  /\ eq' = NoEntry
  /\ pc' = "ftl"
  /\ UNCHANGED <<regs, host, context, slow, engine, fiq, manual>>

RunFtl ==
  /\ pc = "ftl" /\ pc' = "poll" /\ run' = NoRun
  /\ UNCHANGED <<regs, host, context, slow, eq, engine, fiq, manual>>

\* The engine ends the transfer of a queued command with its answer; a read waits
\* for the FTL.
TransferDone ==
  /\ engine.what = "queue"
  /\ engine.write \/ (~eq.some /\ pc # "ftl")
  /\ engine' = Idle
  /\ Answer("ok")
  /\ UNCHANGED <<regs, context, slow, eq, fiq, manual, main>>

(* Main: the mailbox. *)

FetchSlow ==
  /\ pc = "poll" /\ ~eq.some /\ slow.status = "PENDING"
  /\ slow' = [NoSlow EXCEPT !.status = "BUSY"]       \* the rest is not read again
  /\ run' = [function |-> Function(slow.code), code |-> slow.code,
             lba |-> slow.lba, count |-> slow.count]
  /\ pc' = "run"
  /\ UNCHANGED <<regs, host, context, eq, engine, fiq, manual>>

\* Whatever the FIQ has posted meanwhile.
ClearSlow ==
  /\ pc = "clear" /\ pc' = "poll"
  /\ slow' = NoSlow
  /\ UNCHANGED <<regs, host, context, eq, engine, fiq, manual, run>>

Runs(functions) == pc = "run" /\ run.function \in functions
Done == pc' = "clear" /\ run' = NoRun /\ UNCHANGED <<regs, slow, eq, engine, fiq, manual>>

\* Functions that send a Register FIS and do nothing else (ftl_flush is a call).
JustAnswer(function, what) ==
  /\ Runs({function})
  /\ Answer(what)
  /\ UNCHANGED context
  /\ Done

CheckPowerMode == JustAnswer("check_power_mode", "ok")
Succeed == JustAnswer("success", "ok")
Seek == JustAnswer("seek", IF run.lba > MAX_LBA THEN "IDNF" ELSE "ok")
Flush == JustAnswer("flush", "ok")
ReadNativeMaxAddress == JustAnswer("read_native_max_address", "ok")
NotSupported == JustAnswer("abort", "ABRT")
ata_srst == JustAnswer("signature", "ok")

\* Slip: a look-ahead command is taken for one about the write cache
FeatureSetMixed(feature, count) ==
  CASE feature \in {"write_cache_on", "look_ahead_on"} -> [context EXCEPT !.writeCache = TRUE]
    [] feature \in {"write_cache_off", "look_ahead_off"} -> [context EXCEPT !.writeCache = FALSE]
    [] OTHER                       -> context

\* The feature comes from the frame registers, the count from the mailbox.
FeatureSet(feature, count) ==
  CASE feature = "write_cache_on"  -> [context EXCEPT !.writeCache = TRUE]
    [] feature = "write_cache_off" -> [context EXCEPT !.writeCache = FALSE]
    [] feature = "look_ahead_on"   -> [context EXCEPT !.lookAhead = TRUE]
    [] feature = "look_ahead_off"  -> [context EXCEPT !.lookAhead = FALSE]
    [] feature \in {"SATA_on", "SATA_off"} /\ count % NorValues = SataFeature ->
         [context EXCEPT !.autoActivate = (feature = "SATA_on")]
    [] OTHER                       -> context

SetFeatures ==
  /\ Runs({"set_features"})
  /\ context' = FeatureSet(fis.feature, run.count)
  /\ Answer(IF fis.feature = "other" THEN "ABRT" ELSE "ok")
  /\ Done

InitializeDeviceParameters ==
  /\ Runs({"initialize_device_parameters"})
  /\ LET sectors == run.count % NorValues IN
       /\ context' = IF sectors = 0 THEN context
                     ELSE [context EXCEPT !.heads = fis.dev + 1, !.sectors = sectors]
       /\ Answer(IF sectors = 0 THEN "ABRT" ELSE "ok")
  /\ Done

(* pio_sector_transfer *)

PioStart ==
  /\ Runs({"PIO_in", "PIO_out"})
  /\ fiq' = FALSE /\ manual' = TRUE
  /\ engine' = [what |-> "PIO", sectors |-> 1, write |-> run.function = "PIO_out", manual |-> TRUE]
  /\ pc' = "pio"
  /\ UNCHANGED <<regs, host, context, slow, eq, run>>

\* The engine; a host that has read its sector is done with the command.
PioTransfer ==
  /\ engine.what = "PIO"
  /\ engine' = Idle
  /\ IF engine.write THEN UNCHANGED host ELSE Answer("ok")
  /\ UNCHANGED <<regs, context, slow, eq, fiq, manual, main>>

PioEnd ==
  /\ pc = "pio" /\ engine = Idle
  /\ fiq' = TRUE
  /\ pc' = "mode"
  /\ UNCHANGED <<regs, host, context, slow, eq, engine, manual, run>>

\* Slip: a status frame ends both directions
StatusAlways == "status"
AfterPio == IF run.function = "PIO_out" THEN "status" ELSE "clear"

LeaveManualMode ==
  /\ pc = "mode"
  /\ manual' = FALSE
  /\ pc' = AfterPio
  /\ run' = IF pc' = "clear" THEN NoRun ELSE run
  /\ UNCHANGED <<regs, host, context, slow, eq, engine, fiq>>

PioStatus ==
  /\ pc = "status"
  /\ Answer("ok")
  /\ UNCHANGED context
  /\ Done

\* A pending FIQ is taken before the next step of Main.
Main ==
  /\ ~(fiq /\ cmdRecv)
  /\ \/ EventqGet \/ RunFtl \/ FetchSlow \/ ClearSlow
     \/ CheckPowerMode \/ Succeed \/ Seek \/ Flush \/ ReadNativeMaxAddress \/ NotSupported \/ ata_srst
     \/ SetFeatures \/ InitializeDeviceParameters
     \/ PioStart \/ PioEnd \/ LeaveManualMode \/ PioStatus

Next == \/ \E f \in Frames : SendCommand(f)
        \/ Fiq \/ TransferDone \/ PioTransfer \/ Main

Spec == Init /\ [][Next]_vars

----------------------------------------------------------------------------
(* What a frame means, in numbers without end.  Exceptions, each a frame   *)
(* for which the code does something else:                                 *)

Sectors(f) == IF f.code \in LBA_NOR THEN (IF f.count % NorValues = 0 THEN NorValues ELSE f.count % NorValues)
                                    ELSE IF f.count = 0 THEN ExtValues ELSE f.count
First(f) == (IF f.code \in LBA_EXT THEN f.high ELSE f.dev) * LowValues + f.low
Within(f) == First(f) + Sectors(f) <= MAX_LBA + 1

\* CHS: INITIALIZE DEVICE PARAMETERS has no attribute in the class table, finds a
\* count of 0 and always aborts, so there are no heads and no sectors to translate with.
Untranslated(f) == f.code \in LBA_NOR /\ ~f.lbaMode
\* Extended addresses beyond a word: the drive takes the low end for the address.
Truncated(f) == f.code \in LBA_EXT /\ First(f) >= Word
\* Extended addresses at the end of the word: lba + sector_count is a word again.
Wraps(f) == f.code \in LBA_EXT /\ (First(f) % Word) + Sectors(f) >= Word
\* FPDMA commands, which the drive does not claim to know, are queued as commands
\* of no sectors at 0, and read as such of ExtValues; so are TRIMs of no blocks.
Empty(f) == f.code \in FPDMA \/ (f.code = TRIM /\ f.count = 0)
Odd(f) == Untranslated(f) \/ Wraps(f) \/ Empty(f)

\* Whatever the FTL is told to read, write or trim is what the frame of the host's
\* last command asks for, inside the drive, and as many sectors as the engine was
\* told to transfer: for all commands and counts (0 included) but the odd ones.  Of
\* an address beyond a word it is the low end that is asked for.
FtlAskedRight ==
  (pc = "ftl" /\ ~Odd(fis)) =>
    /\ run.function = IF fis.code = TRIM THEN "ftl_trim"
                      ELSE IF fis.code \in FTL_H2D THEN "ftl_write" ELSE "ftl_read"
    /\ run.count = Sectors(fis) /\ (engine.what = "queue" => engine.sectors = run.count)
    /\ fis.code # TRIM =>
         /\ run.lba = IF Truncated(fis) THEN First(fis) % Word ELSE First(fis)
         /\ run.lba + run.count <= MAX_LBA + 1

\* What the host is told of its last command.  IDNF: the range of the frame is not of
\* the drive (of a TRIM, the range its LBA field would make), or it was CHS.  Success
\* of a read or write: the range is of the drive, or the frame is odd, or its address
\* was cut to a word.  Success of SET FEATURES: the setting of the caches is in effect
\* (of the SATA features the class table drops the count, and nothing happens).  And
\* no command without a function succeeds; SEEK, whose LBA the class table drops,
\* does for any address.
ToldRight ==
  ~waiting =>
    /\ told = "IDNF" => ~Within(fis) \/ Untranslated(fis)
    /\ told = "ok" /\ fis.code \in FTL_D2H \cup FTL_H2D =>
         Within(fis) \/ Odd(fis) \/ Truncated(fis)
    /\ told = "ok" /\ fis.code = \hEF =>
         /\ fis.feature \in {"write_cache_on", "write_cache_off"} =>
              context.writeCache = (fis.feature = "write_cache_on")
         /\ fis.feature \in {"look_ahead_on", "look_ahead_off"} =>
              context.lookAhead = (fis.feature = "look_ahead_on")
    /\ told = "ok" => fis.code \in FTL_D2H \cup FTL_H2D \cup {TRIM} \/ Function(fis.code) # "abort"

\* Until a command is answered its frame stays in the registers its function reads,
\* and no transfer but that of PIO is started in Manual Mode, except by a command the
\* host sends when it has its PIO data: enable_fiq comes before the end of the mode.
PioExclusive ==
  /\ pc \in {"run", "status"} => waiting /\ fis.code = run.code
  /\ pc = "pio" => ~cmdRecv \/ run.function = "PIO_in"
  /\ engine.what = "queue" /\ engine.manual => pc # "pio" /\ run.function # "PIO_out"
=============================================================================
