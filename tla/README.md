# A TLA+ model of the OpenSSD (Jasmine) firmware and its emulator

The repository holds the firmware framework of the Jasmine OpenSSD board
(`src/openSSD`: an ARM7 controller, a SATA device front end, up to 32 banks of
NAND behind one flash command port) and an emulator (`src/emulator`) that runs
the same FTL-side interface on a host computer, with a file for the flash and an
array for the DRAM. The FTL in the tree is a template: `ftl_read`, `ftl_write`,
`ftl_trim` and `ftl_flush` are empty; `ftl_open`, `format` and `ftl_isr` are not.
What the framework promises to an FTL is therefore what is worth specifying:
when a flash command is really finished, which failures are reported and on
which block, and when a command of the host can get lost.

## 1. Inventory

Three flows of control share the ARM: **Main** (`sata_main.c`), the **IRQ**
(`misc.c irq_handler`: timers, flash, SDRAM), and the **FIQ** (`sata_isr.c
fiq_handler`), which preempts both. The flash controller (FCP, Waiting Room,
one state machine per bank), the SATA link and its Event Queue, and the DRAM
buffer pointers run beside them in hardware; the host does as it likes.

| component | state | operations | modelled in |
|---|---|---|---|
| flash command port (`flash.c`) | FCP registers, `WR_STAT`/`WR_BANK`, `BSP_FSM(b)` | `flash_issue_cmd` with its three sync levels and its time-out recovery `flash_reset_one_bank`, `flash_finish`, `waitBusyBank`, direct polls | `FlashPort` |
| bank interrupts, format (`ftl.c`, `misc.c`) | `APB_INT_STS`, `BSP_INTR(b)`, `BSP_CMD`, `BSP_ROW_H`, `g_bsp_isr_flag[b]`, the per-bank pause | `ftl_open`, `format`, `ftl_isr`, `irq_handler` | `FlashIsr` |
| SATA command intake (`sata_isr.c`, `sata_main.c`) | Event Queue, `eq_full`, `g_sata_action_flags`, `slow_cmd`, `srst`, interrupt status and enables | `handle_got_cfis`, `handle_srst`, `fiq_handler`, `eventq_get`, `Main` | `SataCmd` |
| SATA buffer rings (`flash_wrapper.c`, `dram_layout.h`) | `g_ftl_read_buf_id`, `g_ftl_write_buf_id`, `SATA_RBUF_PTR`, `SATA_WBUF_PTR`, `BM_*_LIMIT` | host page transfers of `nand_page_*_to_host` / `_from_host` | `ReadRing` (read half) |
| NAND operations (`flash_wrapper.c`, `flash.h`) | FCP registers left by the call before, cell contents | page program/read, copyback, erase, in issue-only and waiting forms | `NandOps` |
| ATA commands (`sata_isr.c`, `sata_table.c`, `sata_cmd.c`) | the class and code tables, feature flags, CHS translation, Manual Mode | decoding and range check, queue entry, the functions of slow commands, `pio_sector_transfer` | `AtaCommands` |
| memory utility (`mem_util.c`) | the MU's registers, DRAM with its ECC words, SRAM | copies, fills, 8/16/32-bit and bit accesses, searches | `MemUtil` |
| boards and DRAM layout (`bank.h`, `dram_layout.h`, `ftl_parameters.h`) | none | bank tables; addresses and sizes of the buffers | `Boards` |
| block test (`misc.c`) | sticky bank flags, `bad`, `g_test_result` | `test_nand_blocks` | `TestNand` |
| emulator (`mock.c`, `main.c`) | the file, the DRAM array | the flash functions, `writeToOpenSSD`, `readFromOpenSSD` | `EmuFlash` |
| installer (`installer.c`, `installer-linux.c`) | scan lists, their files, block 0 of each bank, the marks of bad blocks | the menu: identify, scan, load, save, erase, install | `Installer` |
| SATA primitives (`sata_isr.c`) | timer, `OPERATION_OK`/`_ERR`, retry count | `send_primitive_R_XX` | not modelled |
| UART, boot | | output only; straight-line set-up | not modelled |

How they interact. Main calls the FTL, which calls `flash_wrapper.c`, which
calls `flash_issue_cmd`; it shares the bank flags with `ftl_isr` through
`BSP_INTR` and `g_bsp_isr_flag`. The FIQ hands work to Main through two
channels: the Event Queue (fast: read, write, TRIM) and the one-entry mailbox
`slow_cmd` (everything else, resets included). The transfer of a fast command is
started by the FIQ, or by `eventq_get` when the queue was full; the hardware
then moves data between the host and the buffer rings by itself. The FTL's data
structures in DRAM go through the memory utility, which all routines share. On
the emulator the same FTL headers and the same `format` run over a file.
Before any of this runs, the installer, a program on a host, writes block 0 of
each bank through the ROM.

What is hard:

* One command may wait in Waiting Room for a bank, and it blocks all the others;
  the poll loops contain a recovery which itself issues commands through the
  same registers.
* A bank whose failure flag is up takes no command until `ftl_isr` clears the
  flag; `format` and `ftl_isr` talk through a single word per bank.
* The routines of `flash_wrapper.c` write only some registers before each command;
  their banks run concurrently, finish in any order, and share the DRAM.
* The FIQ runs between any two instructions of Main, the host may reset the
  drive or lose the link at any time, and only part of the state is reset.
* The functions of slow commands read registers of the frame long after it came.
* The memory utility keeps the registers of the routine before, and has other
  addresses for a word of DRAM than the bus, over which part of it is read.
* The installer may die at any command, and what it erases by mistake (the marks
  of bad blocks) cannot be found again.

The hazards worth a property are in `PROJECT.json` under `hazards`, at their line,
with the property that covers them or the reason why none does. Smaller ones that
were met and are not listed there: `ftl_isr` wipes an erase error when a read fails
(ftl.c 155; nobody reads it after `format` in this tree); SDRAM events between the
read and the clearing of `SDRAM_INTSTATUS` (misc.c 106; statistics only); a flush
that overtakes a write (sata_main.c 102-135) and a slow command with the arguments of
a reset (142), of which no state shows anything here; the interrupt controller
cleared before the FIQ is enabled (sata_cmd.c 346; taken as a level); waits for
`(GETREG(PHY_DEBUG) & BIT30) == 1`, which is never true (initialize.c 72, sata_main.c
191); 16-bit writes at offset 3 of a word (mem_util.c 534); the emulator's erase
ignoring a short write (mock.c 360), and its search that never finds anything (124).

## 2. The modules

### FlashPort: the flash command port

*State.* `fcp` is the command the FCP registers describe, `wr` the one in Waiting
Room (or `NoCommand`), `fsm[b]` and `run[b]` the state machine of bank `b` and
what it executes, `stuck` the banks that will not leave `BANK_TAKE`. `pc` is the
polling loop the firmware is in, `call` the call it belongs to (with `hit`: a
recovery intervened), `rst` the bank and the return address of
`flash_reset_one_bank`; `issued`, `done` and `lost` are history. Commands have ids
which the code does not have; 0 is the id of the recovery's own.

*Actions.* A spin that changes nothing is a stutter, leaving a loop an action,
and the 1 000 000th spin a `Timeout...` action, possible whenever the code would
find a bank to reset. `IssueCmd` is the entry of `flash_issue_cmd`, `LeaveRoom`
the issue after its first loop, `LeaveAccept` and `LeaveIdle` its other loops;
`DirectCmd` stands for `flash_copy`, `flash_modify_copy` and `flash_erase`, which
poll by themselves; `FlashFinish` and `WaitBusyBank` issue nothing.
`StartReset`, `ResetGeneric`, `ResetWait` and `ResetFinish` are
`flash_reset_one_bank`. The controller moves by itself: `Accept`, `Shift` (in and
out of `BANK_TAKE`), `Stick` and `Complete`.

*Abstraction.* `FlashQueue` is what an FTL may rely on: a FIFO per bank, with
one shared place to wait, from which the recovery may drop commands.
`FlashPort` implements it (`ImplementsQueue`).

### FlashIsr: bank interrupts and format

*State.* What the cells are like (`bad`, chosen in `Init`: every pattern is
tried), per bank the running command, the sticky flag `BSP_INTR`, `BSP_ROW_H`,
the command waiting for the bank, `g_bsp_isr_flag`, and the steps of `format`
and of `ftl_isr` (which runs in the middle of `format`, never the other way
round).

*Actions.* `format`'s search for good blocks bank by bank (ftl.c 68-117), the
scan of `ftl_isr` with its separate reads of `BSP_INTR`, `BSP_CMD`, the clearing
of the flags, and the reading of `BSP_ROW_H` (119-199), `irq_handler` (80-101);
after `format`, reads, programs and erases that fail at run time. A bank may then
get stuck (`Stick`), and `Recover` is `flash_reset_one_bank` in one step: no
interrupt is pending when it starts, and its last act clears every flag. `pause`
is `FCONF_PAUSE`, which the recovery may or may not leave set.

### SataCmd: command intake

*State.* The host (`req`, what it waits for; `since`, its last reset), the link,
`SATA_INT_STAT`, `slow_cmd`, the Event Queue, `eq_full` with the command whose
flags are in `g_sata_action_flags`, the command the hardware transfers, and
Main's program counter. Commands carry an id which the code does not have: ids
serve the properties only.

*Actions.* `RejectCommand`, `QueueReadWrite`, `QueueTrim` and `PostSlow` are the
four ways through `handle_got_cfis`, `HandleSrst` is `handle_srst`, `PhyOnline`
the third branch of `fiq_handler`. Main takes eight steps: `eventq_get` is
atomic as it runs with the FIQ off; the reading of the mailbox status, its
setting to BUSY, the fetch of the code, the run of the function and the store of
NONE are separate, for the FIQ can come between any two. A frame that is pending
and enabled is handled before Main's next step, as the FIQ is never masked there
but in `eventq_get`.

*Assumed of the host and the link.* One command is outstanding; a soft reset or
the loss of the link may come at any time; a frame is delivered when the one
before has been taken; SRST is not asserted while the PHY_ONLINE interrupt is
pending; retraining takes longer than the handler; the loss of the link and
the release of SRST abort a transfer and do not flush the Event Queue; a
Register FIS is taken as the answer to whatever the host waits for.

*Abstraction.* `CommandServer` is what the drive promises a host that has one
command or reset outstanding. It has one place, `inside`, for what was sent
since the last reset; what is inside is answered once, while the host waits for
it, and leaves with the answer. Two things can go wrong, and are actions of
their own: a slow command or a reset may be forgotten (`Forget`), and after a
reset the host may take a late answer for a new one (`Confuse`; all is in
doubt from there to its next reset). `SataCmd` implements it
(`ImplementsServer`): `inside` is what any of the five places, or the reset
being made, holds of that kind.

### ReadRing: the read buffers

*State.* `readId` is `g_ftl_read_buf_id`, `rbufPtr` is `SATA_RBUF_PTR`, `buf` the read
buffers, `fcp` the command being prepared and `inFlight` those in the flash
controller; `asked` and `sent` count pages, which are numbered in the order of
the calls; `lost` is history.

*Actions.* `ReadToHost` is `nand_page_read_to_host` or `nand_page_ptread_to_host` up
to its loop (the buffer is taken and the id advanced there), `LeaveSpin` the end
of the loop, `Issue` the command, `IssueRecovers` the same with the recovery of
`FlashPort`, which drops what is in the controller and does not touch the ring.
`FlashOut` and `SataSend` are the hardware: banks finish in any order, buffers are
sent one after the other.

*Abstraction.* `PageStream` is the ring as a bounded stream: pages are asked for one
at a time, arrive in any order and leave in the order of the calls; a call
returns only when there is room for its page; no page is lost but by a recovery,
which loses all that have not arrived. `ReadRing` implements it
(`ImplementsStream`).

### NandOps and NandPages: the page operations

*State.* `todo` is the rest of the routine in progress, a sequence of register
updates each of which ends in an issue; `fcp` and `row` are the registers, with
what earlier commands left in them; `queue[b]` the commands of a bank; `page`, `open`
and `nand` the page register, the write sequence begun and the cells of each
chip; `dram` the copy buffers and two buffers of the FTL. Values say which cell
or word of DRAM they come from.

*Actions.* `Begin` calls one of the routines (`ReadOut`, `InProg`, `Copyback`,
`ModifiedCopyback`, `BlockErase` give its register writes), `Issue` writes the
registers of the next command and issues it, `Execute` lets a bank run its oldest
command. The options of a command and the recovery are left out; the `_from_host`
and `_to_host` forms differ from the others in the options and in where their
buffer comes from (`ReadRing`). `NandPages` is the abstract specification: a page
operation takes effect at once, in the order of the calls on its bank. `EmuFlash`
implements the same specification.

### EmuFlash: the emulator

*State.* `file` and its length `eof`, the array `dram`, `rd` and `wr` for the buffer ids,
`fmt` for where `format` is, `pend` the page operation in progress, `host` the
request of the host program. The file has a sector for each position that
`getPositionInFile` can tell apart in its 32 bits.

*Actions.* `Format` erases blocks 0 to `LOG_BLK_PER_BANK` of each bank, as
`ftl.c` does; the file has room for one block less per bank, so block
`LOG_BLK_PER_BANK` of a bank is block 0 of the next, which the FTL never uses.
`Call` is any operation of an FTL; `writeToOpenSSD` and `readFromOpenSSD` are the
host's entry points, each served by one `FromHost` or `ToHost` operation, as the
comments in the template `ftl_read` and `ftl_write` show. `Perform` is the effect.
The two copybacks of `mock.c` only print, and an FTL must not call them.

### MemUtil: the memory utility

*State.* `cells` is DRAM as the bus sees it, each ECC unit followed by its word
of ECC; `sram`; `mu` the registers of the MU; `busy` and `result` are
`MU_RESULT`; `op` and `phase` the routine in progress. `ref` and `rsram` are
history: what the arrays of the emulator hold.

*Actions.* `Fetch` reads a word over the bus at its real address (address / 128 *
132), for the routines that write less than a word; `Issue` writes the registers
a routine writes and leaves the rest; `Return` is the end of a poll, or the next
chunk of a `mem_set`; `Look` stands for the reads over the bus, and for the search of
no items, which `_mem_search_equ` answers with 1 at once. `Run` is the MU,
`Dma` a word that arrives in a host buffer in between. That no word is written
both by DMA and by the FTL is a premise: the buffers are whole ECC units.

### Boards: tables and layout

No state: the tables of `bank.h` for all its 33 settings of `BANK_BMP`, the buffer
counts of `ftl_parameters.h`, the addresses of `dram_layout.h` and what
`init_jasmine` clears. `bank.h` is the same file in firmware and emulator. One
of its settings is wrong: `BMAP_2CH_2WY_E`, for 0x000C000C, lists the chips C0, D0,
C1, D1, where the bit mask, and its reverse table, say C4 and D4. It is excepted
by name (`WrongMap`). The reverse tables are one formula here (0, 1, 2, ... in the places
of the chips in the bit mask); each of the 33 was compared with it by hand, so a
later change of one would not show in a run.

### AtaCommands: from frame to answer

*State.* `fis`, the frame registers with the host's last command; `slow`, `eq`, the
SATA `engine`; `context`, the features and the CHS translation; `fiq` and
`manual`; Main's step and the command it runs. All numbers keep their
relations and lose their size: a word has 128 values, a 16-bit count 8. An
extended address may exceed a word: of its bits 47:24 the shift of `sata_isr.c` 151
keeps the low 8.

*Actions.* `RejectCommand`, `QueueReadWrite`, `QueueTrim`, `PostSlow` are
`handle_got_cfis` with the decoding of LBA and count by the class table and the
range check in a word. `EventqGet` reads an entry back, with its count of 0 for
65536; each function of `sata_cmd.c` is an action; `PioStart` to `PioStatus`
are `pio_sector_transfer`, with the FIQ off, back on, and out of Manual Mode in
this order. Where `SataCmd` asks if a command is lost, this module asks if it
is understood; resets and the full queue are left to `SataCmd`.

### TestNand: the block test

*State.* The step and loop variables of `test_nand_blocks`, its set `bad` and
counters, Waiting Room, the banks and their sticky flags. The routine runs with
`FCONF_PAUSE` off, so flags stop nothing. *Actions.* One per step of the routine
and bank; the banks complete or fail by themselves.

### Installer: the firmware installer

*State.* The host program's context (`up`, `loaded`, `list`, `image`), its place in
the menu and in its loops; the directories and files it saves scan lists to;
of the drive the marks of bad blocks, every page of block 0 with the ECC mode
it was written in, the ECC mode of the controller, the DRAM buffer. History:
what the properties make reservations for.

*Actions.* One per command to the ROM where its failure or the end of the program
would make a difference: each erase, each page written to block 0, each file
opened and closed. `HostExit` is the end of the program anywhere, `ERR_EXIT`
included; its memory is gone and files and flash stay. `installer-linux.c` and
`installer.c` are one program for two systems; the model maps parts to either.

## 3. What is checked

| run | question | bounds |
|---|---|---|
| `flash_port` | what has been established when each call returns; recovery; FIFO | 3 banks, 4 requests |
| `flash_port_done` | is a command that `flash_issue_cmd` returned from as done, done? | 2 banks, 2 requests |
| `flash_isr` | format exact, no failure missed, blame right during format | 2 banks of 4 blocks, 2 logical, 2 later commands |
| `flash_isr_blame` | is the block that `ftl_isr` names the one that failed? | the same |
| `read_ring` | are pages sent in order, and all of them? | ring of 5, 3 banks, 12 pages |
| `nand_ops` | do the command sequences do what their names say? | 2 banks of 3 rows of 3 sectors, 2 calls |
| `sata_cmd` | where a host's command can get lost | queue full at 2, 5 commands of which 2 resets |
| `ata` | is a command understood, and the answer true? | one command after the other, fields at their boundaries |
| `memory` | do the memory routines do what the emulator's do? are the boards right? | 2 calls, 1 word by DMA; 3 ECC units of 2 words; every board |
| `emu_flash` | is the file a flash? | 2 banks of 2 blocks, 1 page each, of 2 sectors, 3 calls |
| `test_nand` | is the right block charged? | 2 banks of 3 blocks of 2 pages, 3 failures |
| `installer` | bad blocks spared, block 0 whole | 3 banks of which 2 are used, 2 blocks, 2 faults |

**flash_port.** `TypeOK`; `SyncContract`: when a call returns, RETURN_ON_ACCEPT
has left Waiting Room empty, RETURN_WHEN_DONE has its command finished or, if a
recovery hit the call, lost, `flash_finish` has every command ever issued
finished or lost, and `waitBusyBank` has nothing left on its bank;
`RecoveryNeverNests`: while a loop of the recovery finds Waiting Room full no bank
is in `BANK_TAKE`, so the recovery does not call itself; `RoomNeverOverwritten`:
no routine overwrites a command that waits; `ImplementsQueue`; and under fairness
`IssueCmdReturns`: `flash_issue_cmd` ends whatever bank is stuck. Three banks
are the caller's, a stuck one, and one that neither is; four requests fill a
bank, Waiting Room and the registers and leave one to meet the recovery.
Deadlock is not checked: `flash_finish`, `waitBusyBank` and the routines that
poll by themselves have no recovery, and with a stuck bank they do wait for ever.

**flash_isr.** `FormatExact`: format ends with exactly the first good blocks as
it counts them, erased, and refuses a bank with too few; `FormatBlame`: while it
runs, the handler only blames blocks that are bad; `NoInterruptLost`: a flag
that is up is pending in the interrupt controller or ahead of the scan;
`FormatEnds` (liveness). Four blocks per bank with two needed give a bank that is
fine, that is just enough, that has one too few; two banks let an interrupt
of one arrive while the other is scanned. `IsrReturns` (liveness): the handler,
which waits with interrupts off, ends unless a bank is stuck, even when the
command in Waiting Room waits for a bank that the handler has to release.
The recovery is one step here, taken with no interrupt pending, and clears the
flags itself: that its `flash_clear_irq` wipes no failure the handler has not
seen rests on the interrupt being taken at once, and is not checked.

**read_ring.** `ImplementsStream`: the ring implements `PageStream`; the host gets
page after page, though banks finish in any order and the ring wraps, so that no
buffer is filled again before it is sent. `ReadsServed` (liveness): every page is sent, up to the
first one that a recovery has thrown away: there the ring stops for good,
because `flash_reset_one_bank` does not touch the buffer pointers (the writes to
`BM_STACK_RESET` and `FTL_READ_PTR` are commented out), and one lap later the
firmware stops too. Four commands may be in the controller (a bank each and
Waiting Room) and the ring holds four pages, so either can be the limit; twelve
pages wrap it twice. Deadlock is not checked as the reads are bounded and the
ring does stop after a loss.

**nand_ops.** `ImplementsPages`: the sequences implement `NandPages`, whatever
registers they inherit and however the banks interleave on the copy buffers;
`WriteSequences`: the rules 1 and 3 of flash.h on write sequences hold on every
bank; `TypeOK`, with the fact that no transfer leaves its page. Three sectors give
a modified copyback parts before, inside and after; three rows in blocks of two
give a copyback within a plane and one across (`NumPlanes = 2`; with the
configured 2-plane mode, `NumPlanes = 1`, all are internal); two calls give every
pair of routines, so every inheritance of registers, and two banks at once. A
transfer of 0 bytes is taken to move nothing. Deadlock is not checked as the
calls are bounded.

**sata_cmd.** `EqBounded`: the queue exceeds its full mark only by TRIMs, which
do not look at it, and by one entry for each untimely answer after a reset;
`HeldCommand`: a withheld transfer always has an entry left in the queue that
will release it; `ImplementsServer`: the intake implements `CommandServer`, so that a
command is in the device once and is answered once, while the host waits for it;
`Accounted`: what the host waits for is somewhere in the
device *or was in the mailbox when Main cleared it* - this is the one place
where a command is lost, and the model shows there is no other; `Answered` is
the same as liveness. A queue that is full at two reaches full, over-full by a
TRIM and over-full by a reset; five commands with two resets let the second
reset meet the left-overs of the first. Deadlock is not checked as the host may
have sent all it may send under the bounds.

**ata.** `FtlAskedRight`: what the FTL is told to read, write or trim is the
function, address and count of the frame, inside the drive, and as many sectors
as the engine transfers; `ToldRight`: IDNF is only said of ranges that are not of
the drive and of CHS addresses, a read or write that succeeds had a range of the
drive, an accepted setting of the caches is in effect, and nothing without a
function succeeds; `PioExclusive`: the frame a function reads is that of its own
command, and no queued transfer starts in Manual Mode but by a command the host
sends when it has its PIO data (which does happen: `enable_fiq` comes before the end
of the mode, sata_cmd.c 348-351). The properties name the frames for which the code
does something else:

* `Untranslated`: CHS addresses (INITIALIZE DEVICE PARAMETERS never gets its count
  from the class table, so there are no heads and sectors to translate with);
* `Truncated`: extended addresses beyond a word. Bits 47:32 are dropped by the
  shift at sata_isr.c 151, before the range check, and a read at 2^32 + n is
  answered, without an error, with the sectors at n. What is checked of these is that the
  low 32 bits are what is asked for;
* `Wraps`: extended addresses whose low 32 bits and count add up to more than 32 bits,
  which pass the range check too;
* `Empty`: FPDMA commands (queued as 0 sectors at 0, read back as 65536) and
  TRIMs of no blocks (read back as 65536).

Of SEEK, whose address the class table drops, and of the SATA features of SET FEATURES,
whose count it drops, nothing is said: both succeed whatever they ask. Every code of both
tables is sent, with the low, middle and last value of each field, high parts of an
extended address within a word and beyond it, and counts of
0, 1, 2 and the largest. Deadlock is not checked: a command that the FIQ posts
while Main clears the mailbox is lost and the host waits (`Accounted` of `sata_cmd`).

**memory.** `SameAsEmulator`: between two calls DRAM and SRAM hold what the same
calls leave in the emulator, whose fills are a `memset` of the low byte (so the
fills compared have four equal bytes), and whose stubs of the bit operations are
replaced by the macros for SRAM; `Answered`: searches, reads and comparisons say
what the contents say, in spite of the registers left by the call before;
`BoardsRight`: on every
board the banks are the chips of its bit mask, the tables are inverse, and the
buffers are apart and inside the DRAM that the boot has cleared. Two ECC units of
the FTL and one of DMA show the gap between units; two calls give every pair of
routines, so every inheritance of registers. Deadlock is not checked as the
calls are bounded.

**emu_flash.** `ImplementsPages`: the emulator implements `NandPages`, with all pages
erased at first; `NoShortRead`: the assertion of mock.c 237 holds also on a new
image; `HostTransfers`: the host gets what its pages hold. The file just fits
its positions, as it does with 4 GB: with the block beyond the last wrapping to the first.
Deadlock is not checked as the calls are bounded.

**test_nand.** `Charged`: a block is charged with a failure of its own, or with
that of an erase of step 7, which is never checked, of the block before; only such
an erase can fail unseen, since the waits of steps 4 and 6 (`MON_CHABANKIDLE` is
zero) end with Waiting Room empty and all banks idle, as flash.c 275 says of it; no
failure in time goes uncharged and none counts twice; and a block that is done with is erased unless it was charged or failed.
Three failures put two on one block and one on the next. The routine
ends, so deadlock is not checked.

**installer.** `BadBlocksSpared`: a marked block is never erased unless the user
confirmed to go on without a list, or `scan_list_loaded` was set by only some of
the files; `ListTrusted`: otherwise the lists name exactly the bad blocks, after
any number of interrupted saves and installations; `InstalledIsComplete`: the
final message is true of every page, silent erase failures or not; `BootBlock`: a
stamp in block 0 has its image, but for an installation cut off while it wrote
them; `SdramMatches`. Three banks with a hole, a bank with a bad block in one
chip and one with both, two images, and two faults (the second can hit what the
first has left behind).

Two disagreements between the code and its comments or messages are kept as
runs that must fail:

* `flash_port_done`: the recovery inside `flash_issue_cmd` reloads the FCP
  registers and then resets the chip; the caller's command is gone while the
  call returns as if it were done.
* `flash_isr_blame`: `ftl_isr` reads the row address after it has cleared the
  flags; a command waiting for that bank starts in between and its block is
  blamed.

Every property of a passing run has a mutant in `PROJECT.json` (a definition
next to the one it replaces, marked "Slip"), a small mistake in the code
that the property catches.

### Fairness

`FlashPort`: a polling loop goes on (`WF(Polling)`), a waiting command is
accepted by an idle bank (`WF(Accept)`) and a bank that is not stuck completes
(`WF(Complete(b))`); nothing obliges the program to make another call.
`FlashIsr`: the processor runs, and commands complete on banks that are not
stuck. `ReadRing`: a call in
progress goes on, commands in the controller finish, and the host takes what is
sent; nothing obliges the program to call again or a recovery to happen. `SataCmd`: Main and the
FIQ run, the hardware finishes a transfer it can finish, and the host completes
a reset it has begun. All are weak, and none says that the host sends anything.

## 4. What is proved

**`FlashPortProofs`** holds, for every number of banks and requests, under the
assumptions named in `FlashPort` (there is a bank; the bounds are numbers):

* `TypeCorrect`: `Spec => []TypeOK`.
* `Invariant`: `Spec => []IInv`. The contract of a call speaks of the state in
  which it returns, so it is not inductive. `IInv` adds to it `HwInv` (a bank is
  idle exactly when it runs nothing, it runs what was sent to it, and an issued
  command is finished, lost, waiting or running), `FlowInv` (which calls can be in
  which loop, and what the FCP registers hold there with and without a recovery in
  between), `CallInv` (where the command of the call is while the call is still
  in one of its loops) and `ResetInv` (the recovery has found Waiting Room empty
  and all banks idle up to its second command).
* `RoomSafe`, `CallsKeepTheirContract`, `RecoveryIsOneLevelDeep`: the three
  properties from `IInv`; the first is an action property.
* `PortImplementsQueue`: `Spec => FlashQueue!Spec` under the mapping of
  `ImplementsQueue`; initial states map to initial states, every action maps to
  an action of the queue or a stutter.
* `LoopsHaveAWayOut`: a loop of `flash_issue_cmd` that goes on finds a bank that will
  take the waiting command or end its own, or a bank in `BANK_TAKE`, which its time-out
  recovers; the loops of the recovery always find a bank of the first kind. Behind it is
  `Stranded`: a stuck bank holds the command of a caller, and while a recovery runs there
  are none of those. The loops without recovery are left out: with a stuck bank they
  do wait for ever.

**`ReadRingProofs`** holds, for every size of the ring above 1, number of banks
and number of pages:

* `Invariant`: `Spec => []IInv`. The order of the pages is not inductive: `IInv`
  says that `readId` is `asked` and `rbufPtr` is `sent` modulo `NumRd`; that a page
  on its way (in a buffer, in the controller, or being issued) comes after `sent`
  and has the buffer of its number modulo `NumRd`; that it is in one of the three
  places only; and that at most `NumRd` pages have been asked for and not sent,
  fewer once the loop is left. Two pages less than a lap apart have different
  buffers (lemmas `EuclideanDivision` to `OnePageEach`).
* `TypeCorrect`, `PagesInOrder` (the next page sent is the one after the last), and
  `NoOverrun`: no step replaces a page that waits in a buffer by another.
* `NothingForgotten`: each page asked for was sent, is on its way, or was thrown away by a
  recovery, and the host never gets past one thrown away (`Kept`, inductive with `IInv`).
* `LoopHasReason`: while the loop finds the ring full, the next page to be sent is in its
  buffer, or is on its way, or was thrown away (`NeverStuck`, from the two before).
* `RingImplementsStream` (`ImplementsStream`), from `IInv` and `Kept`.

**`FlashIsrProofs`** holds for every number of banks, every size of a bank and every
set of bad blocks. `IInv` is the conjunction of `TypeOK` and

* `Kept`: if no interrupt is pending, a flag that is up is on a bank the handler's scan
  has not passed, and what it is about to clear is what it has read. This alone is the
  argument for `FlagsBringIsr` (`NoInterruptLost`).
* `OneErase`, `Found`, `Reported`: while `format` runs its erase is the only command in
  the controller, so a flag, what the handler has read of it, and the row address it
  reads later are about that erase; and an erase that failed is in a flag, in the
  handler's hands or in `g_bsp_isr_flag` when `format` looks. `FormatBlame` says this of the last
  only, and is not inductive without the other two.
* `InRange` and `Progress`: where the loop variables are, and which blocks of the bank
  the list holds at each step of `format`. `FormatExact` speaks of the finished banks.

`FormatEnds` is liveness, but what it rests on is not. `FormatGoesOn`: until `format` is
over, some step of it, of `ftl_isr` or of the bank can be taken. `Closer`: each step
of any of them brings `format` closer to its end, in a lexicographic order of natural numbers
(`Finite`): the bank it has reached, its steps left on that bank (`ToGo`), the steps of the
bank left in the erase (`Ahead`), the interrupt pending, and the steps of the handler left in
its scan (`ToScan`). With the fairness of the processor and the banks the two are `FormatEnds`.

The handler alone (`HandlerCloser`): while it runs nobody issues a command, so that each step
uses up the command in Waiting Room, a bank at work, or some of its scan, or a bank gets stuck.

Theorems: `TypeCorrect`, `FlagsBringIsr`, `BlameCorrect` (`FormatBlame`),
`FormatCorrect` (`FormatExact`), `FormatNeverStuck`, `FormatComesCloser` and `HandlerComesCloser`.

**`SataCmdProofs`** holds for every length of the Event Queue and every number of
commands and resets. What the host waits for is in the frame registers, withheld
beside a full queue, in the engine, in the mailbox, or run by Main (`Places`).

* `One` and `Numbered`: as long as the host has taken no answer from before its last
  reset (`spoilt`), at most one place holds something sent since that reset, and it is
  what the host waits for. `AnswersRight` is about single steps and follows from this.
* `Resets`: what holds while a reset or a loss of the link is under way. In an early
  version it did not say that the engine holds nothing while the interrupts are disabled,
  which every run satisfied and the proof refuted; with it, it is inductive.
* `Account`: each entry beyond the full mark is paid for by `extra`, and so is every
  way in which the host can become free to send while another command is in the
  device. `EqBounded` is what this says of the queue alone.
* `Lost`: a command lost in the mailbox is not mistaken for a later one.

Theorems: `TypeCorrect`, `NothingForgotten` (`Accounted`), `QueueBounded` (`EqBounded`),
`HeldIsCurrent` (`HeldCommand`), `AnswersRight` (an action property: the command answered is
the one the host waits for), and `IntakeImplementsServer` (`ImplementsServer`). By `One` and
`Resets` what is inside the server is what the host waits for or nothing (`InsideIs`), so that a
step is classified by whether it `Has` anything before and after: the steps that move a
command from place to place are stutters, an answer is `Answer`, `Confuse` or, while a reset
is due, nothing, and what the mailbox takes while Main ends the entry before is `Forget`.

`IntakeNeverStuck` and `AnswerComesNearer` are what `Answered` rests on. Until the host
has its answer or sends a reset it sends nothing, so that the frames and interrupts to be
handled (`ToHear`), the entries of the queue, the transfer in the engine and Main's way
through the mailbox (`ToRun`) are used up, in this order; only Main's looking at an empty queue
and mailbox uses up nothing, and then something else has a step to take.

**`AtaCommandsProofs`** holds for fields of every size in which a device number is
smaller than the high part of an address and the short forms no wider than the long ones
(4, 8, 24, 8 and 16 bits in the frame), for every drive size and every choice of frames.
`OnePlace` says that the command is in the frame registers, the mailbox, the queue with
its transfer and the FTL, or a function of Main; `HostWaits`, that the host cannot replace
the frame while one of the places that look at it has the command; `FromFrame` and
`Asked`, that what a place holds of the command was decoded from that frame. The
properties speak only of the last place. Theorems, with the exceptions of the properties
(section 3, **ata**):

* `FtlCorrect` (`FtlAskedRight`): but for `Untranslated`, `Wraps` and `Empty` frames the FTL gets
  function and count of the frame, and an address, that of the frame or its low 32 bits
  (`Truncated`), with which the range is inside the drive.
* `AnswersTrue` (`ToldRight`): the implications of the property and no more. A read or write
  of a `Truncated` address may succeed, and so does any SEEK.
* `PioAlone` (`PioExclusive`).

**`EmuFlashProofs`** holds for every geometry whose positions fit 32 bits
(`EmuAssumption`), any number of buffers and any number of calls. A block of a bank has a
slot in the file, counted modulo the number of slots: `InSlot` and `InPage` say that a page
lies in one piece within the slot of its block, `SlotsApart` and `PagesApart` that the blocks
of the FTL have slots of their own, although block `LOG_BLK_PER_BANK` of the last bank may
wrap to block 0 of the first. `IInv` is `HostTransfers` and

* `Formatting`: the slots the format has passed lie within the file and, until the FTL
  starts, are erased. It is what makes the file long enough (`NoShortRead`) and all pages
  erased at the first call (the initial state of `NandPages`).
* `Shapes` and `Requests`: the operation in progress is one the FTL may call, and one on
  a buffer of the rings serves the request the host program waits for.

Theorems: `Invariant`, `ReadsWithinFile` (`NoShortRead`), `HostServed` (`HostTransfers`), and
`EmulatorImplementsPages` (`ImplementsPages`): the format's steps map to stutters, and each
`Perform` to the operation of `NandPages` with the same name.

**`NandOpsProofs`** holds for every number of banks, rows, planes and sectors and any number of
calls (`SizesAssumption`). A command has a place `<<i, k>>` in the work of its bank: command `k`
of the `i`-th operation called on it. `IInv` is the types (`Types`: no transfer leaves its
page) and `Work`, which says of each bank that for some `k`

* `Queues`: its queue and then what the routine has left to issue are consecutive places
  from `<<1, k>>` on. `Serves` says what a queued command must have in every register,
  `GoesOn` what is left to issue and which of the registers written before it counts on:
  this is where the registers a sequence inherits are accounted for.
* `LeftBy`: what the commands before `k` of the oldest operation have left, the source page in
  the copy buffer of the bank and the sectors loaded into its page register.

`CopyBufsApart` and `Areas` keep the copy buffers apart from each other and from the buffers of
the FTL; a lemma per command (`IssueRead` ... `IssueBack`, `RunRead` ... `RunErase`) says what
issuing it makes of the queue and what executing it makes of the chip (`Effect`). Theorems:
`Invariant`, `TypeCorrect` (`TypeOK`), `SequencesKept` (`WriteSequences`) and
`SequencesImplementPages` (`ImplementsPages`): the last command of an operation maps to
`Perform` of `NandPages`, a call to `Call`, and every other step to a stutter.

**`InstallerProofs`** holds for every set of banks, number of blocks, layout of block 0 with
the stamp after the first two pages and before the image, image that fits, sets of initial bad
blocks and number of faults and exits. None of the properties is inductive: whether the next
erase spares a bad block depends on a list that may have been on flash, or in a file, since
three runs of the program ago. `IInv` adds to them:

* `Types`, which also says that a page of block 0 is a triple and `block0` a function on
  banks and pages, since the drive is written page by page.
* `Lists`: wherever a list can be read from (memory, page 0 of a bank, a file that was
  closed) it is `Trusted`, unless `untrusted` is set; `loaded` holds where an erase or an
  installation relies on the lists; and the marks are those of the maker, so that a scan
  finds them all.
* `Progress`: for each step of `install_block_zero`, which pages hold what the step and those
  before it wrote and read back, and the ECC mode the controller is in.
* `Clean`: a bank whose erase has worked has no stamp before step 3. This is why an
  installation cut off before step 3 leaves no drive that boots, and why it does not
  matter to `BootBlock` that nobody looks at the outcome of an erase, except for the banks
  where it failed (`unerased`).

`ReadBack` is the lemma behind `write_to_flash`: what reads as the value written, in the
ECC mode set, is that value in that mode. `Listed` says that the sequence the scan
makes of a finite set holds each element once; `SizeFound` says that `DetectSdramSize` finds the size of each
wiring. `BadBlocksStaySpared` (`BadBlocksSpared`) and `ListsAreTrue` (`ListTrusted`) keep the
reservations of their properties: nothing is said of a history in which the user has erased
without a list after the warning, or in which files of only some of the banks have set
`scan_list_loaded` (`untrusted`); and a bad block may be listed more than once after a scan
that was appended to a list. The other theorems: `Invariant`, `ReportedIsComplete` (`InstalledIsComplete`), `BootBlockIsWhole`
(`BootBlock`) and `SdramIsRight` (`SdramMatches`).

Each inductive invariant was first checked by TLC, as an invariant of the run's
instance, before it was proved.

The model checker alone covers:

* The liveness properties `IssueCmdReturns`, `FormatEnds`, `IsrReturns`, `ReadsServed` and
  `Answered` of the command intake: fairness and ENABLED are out of the prover's reach.
  Their safety halves are proved: that somebody can always go on (`LoopsHaveAWayOut`,
  `FormatNeverStuck`, `LoopHasReason`, `IntakeNeverStuck`), and for `format`, `ftl_isr` and
  the command intake also that going on ends (`FormatComesCloser`, `HandlerComesCloser`,
  `AnswerComesNearer`). It does not follow by a proof that the liveness properties hold, as
  that takes ENABLED and an induction.
* `Boards`: tables and layouts of given boards, without parameters to generalize.
* `MemUtil`, and `Charged` of `TestNand`, of which no proof was attempted: both are
  sequential routines with one device, whose orders of events the runs exhaust.

## 5. Plan

The plan has been carried out: the parts of the system that carry logic of their own are
modelled; each safety property of the flash port, the bank interrupts, the command intake,
the read ring, the page operations, the emulator, the ATA handlers and the installer that
a run checks is also proved; each of the flash port, the read ring, the command intake, the page
operations and the emulator implements an abstract specification, checked and proved. What
one would do next:

1. Proofs about `MemUtil` and `TestNand`: the invariant would have to say what the
   registers of the MU inherit, as `NandOpsProofs` does for the flash controller.
2. A measure for `flash_issue_cmd` and for the pages of the ring, like the one
   `FormatComesCloser` has. The first has to see through banks that go in and out of
   `BANK_TAKE`.
3. The write ring, if the behaviour of its hardware side becomes known.

## 6. Not modelled

* UART and LED (output only); `initialize.c` but for the DRAM it clears, `init_gnu.s`
  and `syscalls.c` (their effect is the modules' `Init`); performance counters; the
  timer and SDRAM branches of `irq_handler`, on which only statistics depend.
* `send_primitive_R_XX`: one loop over a timer and two status bits of the SATA
  engine, of which the repository says nothing else.
* The write ring: the firmware advances `g_ftl_write_buf_id` and waits for nothing;
  when a write buffer is filled or free is decided by hardware the repository
  does not describe.
* The registers of the flash controller after a PMU reset, other than
  `FCONF_PAUSE`, for which both outcomes are tried.
* Of ATA, the identify data (a table) and the fields of answers other than status
  and error; of the mailbox's reset races, what `SataCmd` has.
* Of `mem_util.c`, 16-bit accesses at offset 3 of a word, and `mem_set_dram` and
  `mem_set_sram` of words with different bytes, where firmware and emulator differ (of
  the callers only those of flash.c 436 to 442 and 630 to 636 do so, and the emulator has none
  of them); a
  handler that uses the MU (none does). Of `mock.c`, the functions that have no body.
* Of the installers, `reset_banks`, which `init()` calls at its start
  (installer-linux.c 321, installer.c 371): it resets the chips, and no state of the model
  depends on it; lists that overflow; how
  the drive is found and opened. The ROM's side of a command is assumed to do what
  the installer expects of it, or to fail.
* In `SataCmd` the bits of a frame and the function bodies of slow commands, which
  are in `AtaCommands`, and the FTL's calls, which are one step.
