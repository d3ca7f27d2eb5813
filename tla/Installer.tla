----------------------------- MODULE Installer -----------------------------
(***************************************************************************)
(* The firmware installer: the menu of main() and everything it calls.     *)
(* A program on the host drives the ROM code of a drive in factory mode:   *)
(* it collects the list of initial bad blocks (by scanning the marks that  *)
(* the flash maker left in the blocks, from page 0 of block 0 of each      *)
(* bank, or from files), erases, and writes list, stamp and firmware to    *)
(* block 0 of each bank.  The host program may exit at any command         *)
(* (ERR_EXIT, a lost drive, a user's ^C) and be started again.             *)
(*                                                                         *)
(* installer-linux.c and installer.c are one program for two systems; only *)
(* the way the drive is found and the memory is allocated differ.          *)
(***************************************************************************)
EXTENDS Integers, Sequences, FiniteSets, SequencesExt

CONSTANTS
  AllBanks,           \* 0 .. NUM_BANKS_MAX - 1
  Bmp,                \* BANK_BMP: the banks the firmware was built for
  PblksPerBank,       \* blocks 0 .. PblksPerBank - 1 of a bank
  STAMP_PAGE_OFFSET, FW_PAGE_OFFSET,
  PagesPerBlk,        \* PAGES_PER_VBLK: pages 0 .. PagesPerBlk - 1 of a block
  Images,             \* what firmware.bin may hold
  NumFwPages,         \* pages of an image, Images -> Nat
  Dirs,               \* directories the user saves scan lists to
  BadPatterns,        \* the sets of initial bad blocks considered
  IdReads,            \* what FC_READ_ID may return, bank by bank
  NAND_SPEC_MF, NAND_SPEC_ID,   \* maker; id bytes that matter, by position
  BuiltSize,          \* the SDRAM size the firmware was built for
  MaxFaults,          \* bound: exits in the middle, failed programs and erases
  SCAN_LIST_ITEMS     \* entries a list has room for; bound: no scan overflows it

Chips == {"H", "L"}
Pages == 0..PagesPerBlk - 1
Blocks == 1..PblksPerBank - 1          \* the scan starts at block 1

ASSUME BanksAssumption ==
  Bmp # {} /\ Bmp \subseteq AllBanks /\ AllBanks \subseteq Nat
ASSUME BlocksAssumption ==
  /\ PblksPerBank \in Nat \ {0}
  /\ \A bads \in BadPatterns : bads \subseteq AllBanks \X Blocks \X Chips
\* jasmine.h: 4 and 5
ASSUME LayoutAssumption ==
  /\ {STAMP_PAGE_OFFSET, FW_PAGE_OFFSET, PagesPerBlk} \subseteq Nat
  /\ 1 < STAMP_PAGE_OFFSET /\ STAMP_PAGE_OFFSET < FW_PAGE_OFFSET
\* load_firmware_image refuses what has more than 48 pages; a block has 128 or 256.
ASSUME ImageAssumption ==
  /\ Images # {} /\ NumFwPages \in [Images -> Nat \ {0}]
  /\ \A i \in Images : FW_PAGE_OFFSET + NumFwPages[i] <= PagesPerBlk
ASSUME DirsAssumption == Dirs # {}

VARIABLES
  up, loaded, list, image,   \* the installer_context_t of the host program
  pc, bl, endBl, bk, pg, ok, dir, \* where it is, and its loop variables
  faults,                    \* counter for the bound
  made, file,                \* directories that exist, and their files
  bad, marks,                \* bad blocks, and those still marked as such
  block0,                    \* block 0 of each bank, page by page
  dram, strong, sdram,       \* drive: DRAM buffer, ECC mode, SDRAM wiring
  untrusted, appended, cut, unerased   \* history, for the properties

host   == <<up, loaded, list, image>>
loops  == <<bl, endBl, bk, pg, ok, dir>>
disk   == <<made, file>>
drive  == <<marks, block0, dram, strong>>
hist   == <<untrusted, appended, cut, unerased>>
fixed  == <<bad, sdram>>
vars   == <<host, pc, loops, faults, disk, drive, hist, fixed>>

(***************************************************************************)
(* Flash pages.  A page is blank, unreadable, or holds a value written     *)
(* with one of the two ECC settings, and can only be read with the same.   *)
(***************************************************************************)
Blank   == <<"blank", 0, FALSE>>
Garbage == <<"garbage", 0, FALSE>>
Written(value, ecc) == <<value[1], value[2], ecc>>
ReadOut(page, ecc) == IF page = Blank \/ page[3] = ecc THEN <<page[1], page[2]>>
                                                        ELSE <<"garbage", 0>>

ListOf(b)  == <<"list", list[b]>>
Fill       == <<"fill", 0>>
Stamp      == <<"stamp", NumFwPages[image]>>        \* only the size, as buf[1]
FwPage(i, p) == <<"fw", <<i, p>>>>

\* Programming page p of bank b: over anything but a blank page, or itself, it
\* leaves garbage, and otherwise when it fails.
Program(b, p, new) ==
  \/ /\ block0[b][p] \in {Blank, new}
     /\ block0' = [block0 EXCEPT ![b][p] = new]
     /\ UNCHANGED faults
  \/ /\ IF block0[b][p] \in {Blank, new} THEN faults < MaxFaults /\ faults' = faults + 1
                                         ELSE UNCHANGED faults
     /\ block0' = [block0 EXCEPT ![b][p] = Garbage]

FirstBank == CHOOSE b \in Bmp : \A c \in Bmp : b <= c
Later(b)  == {c \in Bmp : c > b}
NextBank(b) == CHOOSE c \in Later(b) : \A d \in Later(b) : c <= d
Goto(where) == /\ pc' = where
               /\ bk' = FirstBank

----------------------------------------------------------------------------
(***************************************************************************)
(* The SDRAM, initialized as if it had 64 MB.  A 16 MB part ignores        *)
(* address bit 10; of a 32 MB part the upper half repeats the lower one or *)
(* answers nothing of what was written.                                    *)
(***************************************************************************)
Wirings == {"16MB", "32MB_alias", "32MB_open", "64MB"}
SizeOf(w) == IF w = "16MB" THEN 16 ELSE IF w = "64MB" THEN 64 ELSE 32
Cell(w, a) == IF <<w, a>> \in {<<"16MB", "base16">>, <<"32MB_alias", "base32">>} THEN "base"
              ELSE IF <<w, a>> = <<"32MB_open", "base32">> THEN "none" ELSE a
Store(w, mem, a, v) == IF Cell(w, a) = "none" THEN mem ELSE [mem EXCEPT ![Cell(w, a)] = v]

\* Slip: what was written to the upper half is not read back first
DetectUnread(w) ==
  LET start == [c \in {"base", "base16", "base32", "none"} |-> "junk"]
      m16 == Store(w, Store(w, start, "base", "zero"), "base16", "v16")
      m32 == Store(w, Store(w, m16, "base", "zero"), "base32", "v32")
  IN  IF m16[Cell(w, "base")] = "v16" THEN 16
      ELSE IF m32[Cell(w, "base")] = "v32" THEN 32 ELSE 64

DetectSdramSize(w) ==
  LET start == [c \in {"base", "base16", "base32", "none"} |-> "junk"]
      m16 == Store(w, Store(w, start, "base", "zero"), "base16", "v16")
      m32 == Store(w, Store(w, m16, "base", "zero"), "base32", "v32")
  IN  IF m16[Cell(w, "base")] = "v16" THEN 16
      ELSE IF m32[Cell(w, "base32")] # "v32" THEN 32
      ELSE IF m32[Cell(w, "base")] = "v32" THEN 32 ELSE 64

(***************************************************************************)
(* The identity of a bank: five pairs of bytes, of its high and low chip.  *)
(***************************************************************************)
CheckFlashId(id) ==
  CASE \E i \in 1..5 : id[i][1] # id[i][2]                      -> "ERROR"
    [] \A i \in 1..5 : id[i] = id[1]                            -> "VOID"
    [] id[1][2] # NAND_SPEC_MF
       \/ \E i \in DOMAIN NAND_SPEC_ID : id[i][2] # NAND_SPEC_ID[i] -> "ERROR"
    [] OTHER                                                    -> "OK"

----------------------------------------------------------------------------
Init ==
  /\ up = FALSE /\ loaded = FALSE /\ list = [b \in AllBanks |-> <<>>]
  /\ image = CHOOSE i \in Images : TRUE
  /\ pc = "exited" /\ bl = 0 /\ endBl = 0 /\ bk = FirstBank /\ pg = 0 /\ ok = TRUE
  /\ dir = CHOOSE d \in Dirs : TRUE
  /\ faults = 0
  /\ made = {} /\ file = [d \in Dirs |-> [b \in Bmp |-> <<"none">>]]
  /\ bad \in BadPatterns /\ marks = bad
  /\ block0 = [b \in Bmp |-> [p \in Pages |-> Blank]]
  /\ dram = [b \in AllBanks |-> <<"garbage", 0>>]
  /\ strong \in BOOLEAN /\ sdram \in Wirings
  /\ untrusted = FALSE /\ appended = FALSE /\ cut = FALSE
  /\ unerased = {}

\* The end of the program: the next one starts with a fresh context (main).
Exit ==
  /\ Goto("exited")
  /\ up' = FALSE /\ loaded' = FALSE /\ list' = [b \in AllBanks |-> <<>>]
  /\ bl' = 0 /\ endBl' = 0 /\ pg' = 0 /\ ok' = TRUE
  /\ dram' = [b \in AllBanks |-> <<"garbage", 0>>]
  /\ UNCHANGED <<image, dir>>

(***************************************************************************)
(* main: a fresh context, then open_target_drv, which leaves the program   *)
(* when the SDRAM is not the one the firmware was built for.               *)
(***************************************************************************)
OpenTargetDrv ==
  /\ pc = "exited"
  /\ IF DetectSdramSize(sdram) = BuiltSize THEN Goto("menu") ELSE UNCHANGED <<pc, bk>>
  /\ UNCHANGED <<host, bl, endBl, pg, ok, dir, faults, disk, drive, hist, fixed>>

(***************************************************************************)
(* ERR_EXIT of send_to_dev and recv_from_dev, or any other end of the      *)
(* program: its memory is gone, what the drive was told has been done.     *)
(***************************************************************************)
HostExit ==
  /\ pc \notin {"exited", "installed"}
  /\ faults < MaxFaults
  /\ faults' = faults + 1
  /\ Exit
  /\ cut' = (cut \/ pc \in {"stamp", "firmware"})
  /\ UNCHANGED <<disk, marks, block0, strong, untrusted, appended, unerased, fixed>>

MenuExit ==
  /\ pc = "menu"
  /\ Exit
  /\ UNCHANGED <<faults, disk, marks, block0, strong, hist, fixed>>

\* reset_fctrl: the flash controller with normal or strong ECC.
ResetFctrl(big) == strong' = big

\* MENU_INIT
InitDrive ==
  /\ pc = "menu"
  /\ ResetFctrl(FALSE)
  /\ \E id \in IdReads :
       LET bankBmp == {b \in AllBanks : CheckFlashId(id[b]) = "OK"} IN
       IF bankBmp = Bmp THEN up' = TRUE
       ELSE IF Bmp \subseteq bankBmp THEN up' \in BOOLEAN   \* "Proceed anyway?"
       ELSE up' = FALSE
  /\ UNCHANGED <<loaded, list, image, pc, loops, faults, disk, marks, block0, dram, hist, fixed>>

\* MENU_SCAN: the ROM reports the marked blocks, in an order on which nothing depends;
\* they are appended to the lists.
Marked(b) == {<<m[2], m[3]>> : m \in {n \in marks : n[1] = b}}
ScanResult(b) == SetToSeq(Marked(b))
\* Slip: an entry for both chips is taken for one of the high chip only
ScannedElse(b) == list[b] \o SelectSeq(ScanResult(b), LAMBDA e :
                               e[2] = "H" \/ ~Contains(ScanResult(b), <<e[1], "H">>))
Scanned(b) == list[b] \o ScanResult(b)

ScanBadBlks ==
  /\ pc = "menu" /\ up
  /\ \A b \in Bmp : Len(Scanned(b)) <= SCAN_LIST_ITEMS
  /\ list' = [b \in AllBanks |-> IF b \in Bmp THEN Scanned(b) ELSE list[b]]
  /\ loaded' = TRUE
  /\ appended' = (appended \/ \E b \in Bmp : list[b] # <<>>)
  /\ UNCHANGED <<up, image, pc, loops, faults, disk, drive, untrusted, cut, unerased, fixed>>

\* bank_read of page 0 of a bank, in the ECC mode the controller is in.
BankRead(b, row) == ReadOut(block0[b][row], strong)

\* MENU_LOAD_SCAN_DEV: banks with a readable page take it as their list.
LoadScanListFromNand ==
  /\ pc = "menu" /\ up
  /\ LET found == {b \in Bmp : BankRead(b, 0)[1] = "list"} IN
       /\ list' = [b \in AllBanks |-> IF b \in found THEN BankRead(b, 0)[2] ELSE list[b]]
       /\ loaded' = (loaded \/ found = Bmp)
  /\ UNCHANGED <<up, image, pc, loops, faults, disk, drive, hist, fixed>>

\* MENU_SAVE_SCAN: a new directory, then a file for each bank; a file is empty
\* until it is closed.
SaveScan ==
  /\ pc = "menu" /\ loaded
  /\ dir' \in Dirs \ made          \* mkdir fails for a directory that exists
  /\ made' = made \cup {dir'}
  /\ Goto("save")
  /\ UNCHANGED <<host, bl, endBl, pg, ok, faults, file, drive, hist, fixed>>

NextBankOr(where) == IF Later(bk) # {} THEN bk' = NextBank(bk) /\ pc' = pc
                                       ELSE Goto(where)

SaveOpen ==
  /\ pc = "save" /\ file[dir][bk] = <<"none">>
  /\ file' = [file EXCEPT ![dir][bk] = <<"empty">>]
  /\ UNCHANGED <<host, pc, loops, faults, made, drive, hist, fixed>>

SaveClose ==
  /\ pc = "save" /\ file[dir][bk] = <<"empty">>
  /\ file' = [file EXCEPT ![dir][bk] = ListOf(bk)]
  /\ NextBankOr("menu")
  /\ UNCHANGED <<host, bl, endBl, pg, ok, dir, faults, made, drive, hist, fixed>>

\* MENU_LOAD_SCAN: bank after bank until a file is missing; an empty file leaves
\* the list of its bank as it was, and one file is enough for scan_list_loaded.
FilesRead(d) == {b \in Bmp : \A c \in Bmp : c <= b => file[d][c] # <<"none">>}

LoadScanListFromFile ==
  /\ pc = "menu"
  /\ \E d \in Dirs :
       LET read == {b \in FilesRead(d) : file[d][b] # <<"empty">>} IN
       /\ FilesRead(d) # {}
       /\ list' = [b \in AllBanks |-> IF b \in read THEN file[d][b][2] ELSE list[b]]
       /\ loaded' = TRUE
       /\ untrusted' = (untrusted \/ (~loaded /\ read # Bmp))
  /\ UNCHANGED <<up, image, pc, loops, faults, disk, drive, appended, cut, unerased, fixed>>

----------------------------------------------------------------------------
(***************************************************************************)
(* erase_flash(first, last): blocks outside, banks inside.  A chip with a  *)
(* bad block at this offset is masked out by the option bits.              *)
(***************************************************************************)
StartErase(last) ==
  /\ bl' = 0 /\ endBl' = last
  /\ Goto("erase")

EraseAll ==
  /\ pc = "menu"
  /\ StartErase(PblksPerBank)          \* the loop runs to <= PBLKS_PER_BANK
  /\ untrusted' = (untrusted \/ ~loaded)     \* "initial bad blocks will also be erased"
  /\ UNCHANGED <<host, pg, ok, dir, faults, disk, drive, appended, cut, unerased, fixed>>

\* Slip: only the low chip is looked for
MasksLow(b, blk) == {c \in {"L"} : Contains(list[b], <<blk, c>>)}
Masks(b, blk) == {c \in Chips : Contains(list[b], <<blk, c>>)}

ErasedBlock0(b) == block0' = [block0 EXCEPT ![b] = [p \in Pages |-> Blank]]

Erased(b, blk, chips) ==
  \/ /\ blk = 0
     /\ ErasedBlock0(b)
     /\ UNCHANGED marks
  \/ /\ blk \in Blocks
     /\ marks' = marks \ {<<b, blk, c>> : c \in chips}
     /\ UNCHANGED block0
  \/ /\ blk = PblksPerBank             \* no such block: nothing, or block 0 again
     /\ ErasedBlock0(b) \/ UNCHANGED block0
     /\ UNCHANGED marks

NextErase ==
  IF Later(bk) # {} THEN bk' = NextBank(bk) /\ UNCHANGED <<pc, bl>>
  ELSE IF bl < endBl THEN bk' = FirstBank /\ bl' = bl + 1 /\ pc' = pc
  ELSE /\ Goto(IF endBl = 0 THEN "lists" ELSE "menu")     \* install or menu
       /\ UNCHANGED bl

\* One command, whose outcome nobody reads; none if both chips are masked.
EraseBlock ==
  /\ pc = "erase"
  /\ LET rest == Chips \ Masks(bk, bl) IN
       \/ /\ rest # {}
          /\ Erased(bk, bl, rest)
          /\ unerased' = unerased \ (IF bl = 0 THEN {bk} ELSE {})
          /\ UNCHANGED faults
       \/ /\ rest = {} \/ faults < MaxFaults
          /\ faults' = IF rest = {} THEN faults ELSE faults + 1
          /\ UNCHANGED <<marks, block0>>
          /\ unerased' = unerased \cup (IF bl = 0 THEN {bk} ELSE {})
  /\ NextErase
  /\ UNCHANGED <<host, endBl, pg, ok, dir, disk, dram, strong, untrusted, appended, cut, fixed>>

----------------------------------------------------------------------------
(***************************************************************************)
(* MENU_INSTALL: load_firmware_image, erase_flash(0, 0), then the steps of *)
(* install_block_zero.                                                     *)
(***************************************************************************)
Install ==
  /\ pc = "menu" /\ up /\ loaded
  /\ image' \in Images
  /\ StartErase(0)
  /\ UNCHANGED <<up, loaded, list, pg, ok, dir, faults, disk, drive, hist, fixed>>

\* Step 1: all lists to the drive's DRAM, from there to page 0 of each bank,
\* back to the same DRAM, and compared.
\* Slip: the lists are written in the ECC mode that happens to be set
SendListsAnyEcc ==
  /\ pc = "lists"
  /\ dram' = [b \in AllBanks |-> ListOf(b)]
  /\ Goto("program")
  /\ UNCHANGED <<host, bl, endBl, pg, ok, dir, faults, disk, marks, block0, strong, hist, fixed>>

SendLists ==
  /\ pc = "lists"
  /\ ResetFctrl(FALSE)
  /\ dram' = [b \in AllBanks |-> ListOf(b)]
  /\ Goto("program")
  /\ UNCHANGED <<host, bl, endBl, pg, ok, dir, faults, disk, marks, block0, hist, fixed>>

ProgramList ==
  /\ pc = "program"
  /\ Program(bk, 0, Written(dram[bk], strong))
  /\ NextBankOr("readback")
  /\ UNCHANGED <<host, bl, endBl, pg, ok, dir, disk, marks, dram, strong, hist, fixed>>

ReadList ==
  /\ pc = "readback"
  /\ dram' = [dram EXCEPT ![bk] = BankRead(bk, 0)]
  /\ NextBankOr("compare")
  /\ UNCHANGED <<host, bl, endBl, pg, ok, dir, faults, disk, marks, block0, strong, hist, fixed>>

CompareLists ==
  /\ pc = "compare"
  /\ Goto(IF \A b \in Bmp : dram[b] = ListOf(b) THEN "fill" ELSE "menu")
  /\ pg' = 1
  /\ dram' = [b \in AllBanks |-> <<"garbage", 0>>]    \* not used again
  /\ UNCHANGED <<host, bl, endBl, ok, dir, faults, disk, marks, block0, strong, hist, fixed>>

\* Slip: nothing is compared
WriteUnchecked(value, good) ==
  /\ Program(bk, pg, Written(value, strong))
  /\ good

\* write_to_flash: program a page, read it back, compare.
WriteToFlash(value, good) ==
  /\ Program(bk, pg, Written(value, strong))
  /\ good <=> ReadOut(block0'[bk][pg], strong) = value

\* Step 2: the pages up to the stamp.
FillPages ==
  /\ pc = "fill"
  /\ \/ /\ WriteToFlash(Fill, FALSE)
        /\ Goto("menu")
        /\ UNCHANGED <<pg, ok, strong>>
     \/ /\ WriteToFlash(Fill, TRUE) /\ pg + 1 < STAMP_PAGE_OFFSET
        /\ pg' = pg + 1
        /\ UNCHANGED <<pc, bk, ok, strong>>
     \/ /\ WriteToFlash(Fill, TRUE) /\ pg + 1 = STAMP_PAGE_OFFSET /\ Later(bk) # {}
        /\ bk' = NextBank(bk) /\ pg' = 1
        /\ UNCHANGED <<pc, ok, strong>>
     \/ /\ WriteToFlash(Fill, TRUE) /\ pg + 1 = STAMP_PAGE_OFFSET /\ Later(bk) = {}
        /\ Goto("stamp") /\ pg' = STAMP_PAGE_OFFSET /\ ok' = TRUE /\ ResetFctrl(TRUE)
  /\ UNCHANGED <<host, bl, endBl, dir, disk, marks, dram, hist, fixed>>

\* Step 3: the stamps, in strong ECC; a failure is acted upon after the last bank.
WriteStamp ==
  /\ pc = "stamp"
  /\ \E good \in BOOLEAN :
       /\ WriteToFlash(Stamp, good)
       /\ ok' = (ok /\ good)
  /\ NextBankOr(IF ok' THEN "firmware" ELSE "menu")
  /\ pg' = IF Later(bk) = {} THEN FW_PAGE_OFFSET ELSE pg
  /\ cut' = (cut \/ (Later(bk) = {} /\ ~ok'))
  /\ UNCHANGED <<host, bl, endBl, dir, disk, marks, dram, strong, untrusted, appended, unerased, fixed>>

\* Step 4: the image, bank after bank.
EndFw == FW_PAGE_OFFSET + NumFwPages[image]
WriteFirmware ==
  /\ pc = "firmware"
  /\ LET page == FwPage(image, pg - FW_PAGE_OFFSET) IN
       \/ /\ WriteToFlash(page, FALSE)
          /\ Goto("menu") /\ cut' = TRUE
          /\ UNCHANGED <<pg, strong>>
       \/ /\ WriteToFlash(page, TRUE) /\ pg + 1 < EndFw
          /\ pg' = pg + 1
          /\ UNCHANGED <<pc, bk, strong, cut>>
       \/ /\ WriteToFlash(page, TRUE) /\ pg + 1 = EndFw /\ Later(bk) # {}
          /\ bk' = NextBank(bk) /\ pg' = FW_PAGE_OFFSET
          /\ UNCHANGED <<pc, strong, cut>>
       \/ /\ WriteToFlash(page, TRUE) /\ pg + 1 = EndFw /\ Later(bk) = {}
          /\ Goto("installed") /\ ResetFctrl(FALSE) /\ cut' = FALSE
          /\ UNCHANGED pg
  /\ UNCHANGED <<host, bl, endBl, ok, dir, disk, marks, dram, untrusted, appended, unerased, fixed>>

\* ROM_CMD_RESET, the message, exit(0).
Complete ==
  /\ pc = "installed"
  /\ Exit
  /\ UNCHANGED <<faults, disk, marks, block0, strong, hist, fixed>>

InstallBlockZero == SendLists \/ ProgramList \/ ReadList \/ CompareLists
                    \/ FillPages \/ WriteStamp \/ WriteFirmware

Next == \/ OpenTargetDrv \/ HostExit \/ MenuExit
        \/ InitDrive \/ ScanBadBlks \/ LoadScanListFromNand
        \/ SaveScan \/ SaveOpen \/ SaveClose \/ LoadScanListFromFile
        \/ EraseAll \/ EraseBlock
        \/ Install \/ InstallBlockZero \/ Complete

Spec == Init /\ [][Next]_vars

----------------------------------------------------------------------------
BadOf(b) == {<<m[2], m[3]>> : m \in {n \in bad : n[1] = b}}

\* An initial bad block is never erased (which would destroy its mark), unless
\* the user went on after the warning that no list was read (MENU_ERASE_ALL), or
\* scan_list_loaded was set by the files of only some of the banks.
BadBlocksSpared == marks # bad => untrusted

\* With scan_list_loaded set, and the same two reservations, the lists name the
\* bad blocks of every bank, whether scanned, read from block 0 after any number
\* of interrupted installations, or from files of an interrupted save; and each
\* once, unless a scan ran with a list in memory (scan_bad_blks appends).
ListTrusted ==
  loaded /\ ~untrusted =>
    \A b \in Bmp : /\ ToSet(list[b]) = BadOf(b)
                   /\ ~appended => Len(list[b]) = Cardinality(BadOf(b))

\* "firmware installation complete" is only printed when block 0 of every bank
\* holds the list, in normal ECC, the stamp and the whole image, in strong ECC,
\* also when erases failed silently and whatever was there before.
InstalledIsComplete ==
  pc = "installed" =>
    \A b \in Bmp :
      /\ block0[b][0] = Written(ListOf(b), FALSE)
      /\ \A p \in 1..STAMP_PAGE_OFFSET - 1 : block0[b][p] = Written(Fill, FALSE)
      /\ block0[b][STAMP_PAGE_OFFSET] = Written(Stamp, TRUE)
      /\ \A p \in 0..NumFwPages[image] - 1 :
           block0[b][FW_PAGE_OFFSET + p] = Written(FwPage(image, p), TRUE)

\* What the ROM relies on when it finds a stamp: the image behind it is whole,
\* but for an installation that was cut off while it wrote stamps and image; and
\* page 0 holds a list.  Both only for a block 0 whose last erase has worked.
Stamped(b) == ReadOut(block0[b][STAMP_PAGE_OFFSET], TRUE)[1] = "stamp"
BootBlock ==
  \A b \in Bmp \ unerased : Stamped(b) =>
    /\ ReadOut(block0[b][0], FALSE)[1] = "list"
    /\ pc \notin {"stamp", "firmware"} /\ ~cut =>
         \E i \in Images :
           /\ NumFwPages[i] = block0[b][STAMP_PAGE_OFFSET][2]
           /\ \A p \in 0..NumFwPages[i] - 1 :
                block0[b][FW_PAGE_OFFSET + p] = Written(FwPage(i, p), TRUE)

\* The menu is only reached on a drive with the SDRAM the firmware was built
\* for, however a smaller part answers to addresses it does not have.
SdramMatches == pc # "exited" => SizeOf(sdram) = BuiltSize
=============================================================================
