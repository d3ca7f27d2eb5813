------------------------------ MODULE MemUtil -------------------------------
(***************************************************************************)
(* mem_util.c on the target: the memory utility (MU), a device with one    *)
(* set of registers, and the routines of the FTL's data structures that    *)
(* are built from it and from the bus.  A routine writes some registers,   *)
(* the last of them MU_CMD, and polls MU_RESULT; the others keep what an   *)
(* earlier routine left there.  Writes smaller than a word, and bits, read *)
(* the word over the bus and copy it back with the MU.  On the bus each    *)
(* ECC unit is followed by a word of ECC, which MU and DMA do not see.     *)
(*                                                                         *)
(* The emulator (mock.c) copies, sets, writes and reads plain arrays: that *)
(* is what the firmware is compared with.  Of the bits, the comparison and *)
(* the searches but that of words in DRAM it has only stubs: these are     *)
(* compared with the macros for bits in SRAM and with their names.  Bytes  *)
(* have BPB bits.                                                          *)
(*                                                                         *)
(* DMA changes the last ECC unit at any time.  The buffers are whole units *)
(* and the FTL writes its data in others, so no word has both for writers: *)
(* that is a premise here, not a result.  Left out: 16-bit accesses at     *)
(* offset 3 of a word, of which the target does half; and words with       *)
(* different bytes given to mem_set_dram or mem_set_sram, which the target *)
(* repeats as words and the emulator, a memset, as their low byte (only    *)
(* flash.c, which the emulator does not have, gives mem_set_sram such).    *)
(***************************************************************************)
EXTENDS Integers, FiniteSetsExt

CONSTANTS WPU,       \* words of an ECC unit: SDRAM_ECC_UNIT / 4
          Units,     \* ECC units of DRAM
          SWords,    \* words of SRAM
          BPB,       \* bits of a byte
          MuMax,     \* MU_MAX_BYTES / 4
          MaxOps,    \* bound: calls
          MaxDma     \* bound: words written by DMA

ASSUME MemAssumption ==
  /\ {WPU, SWords, BPB, MuMax} \subseteq Nat \ {0} /\ Units \in Nat \ {0, 1}
  /\ {MaxOps, MaxDma} \subseteq Nat

Words == 0 .. Units * WPU - 1
DmaWords == (Units - 1) * WPU .. Units * WPU - 1
FtlWords == Words \ DmaWords
RealWords == 0 .. Units * (WPU + 1) - 1
Lanes == 0 .. 3

Same(v) == [l \in Lanes |-> v]
Pattern(w) == [l \in Lanes |-> (w + l) % 3]
Stack == -1                       \* address of a local variable
EccWord == [l \in Lanes |-> -1]   \* no byte of data

\* Slip: the ECC words forgotten.
real_addr_flat(w) == w
\* Where the bus has word w: DRAM_BASE + off / 128 * 132 + off % 128
real_addr(w) == ((w \div WPU) * (WPU + 1)) + (w % WPU)

\* Where the devices have it.
Cell(w) == ((w \div WPU) * (WPU + 1)) + (w % WPU)
WordAt(r) == ((r \div (WPU + 1)) * WPU) + (r % (WPU + 1))

VARIABLES
  cells,          \* DRAM as the bus sees it
  sram,
  mu,             \* registers of the MU
  busy, result,   \* MU_RESULT: 0xFFFFFFFF while the MU is busy
  op, phase,      \* the call in progress, or Idle, and where it is
  word,           \* local variable of the routine: a word
  at, left,       \* address and words that a mem_set has still to set
  ref, rsram,     \* what the memories should hold (history)
  answer,         \* of the last question: here, and what the contents say
  ops, dmas

device == <<mu, busy, result>>
ghost == <<ref, rsram>>
vars == <<cells, sram, device, op, phase, word, at, left, ghost, answer, ops, dmas>>

Idle == [kind |-> "idle"]

Init ==
  /\ ref = [w \in Words |-> Pattern(w)] /\ rsram = [w \in 0 .. SWords - 1 |-> Pattern(w)]
  /\ cells = [r \in RealWords |-> IF r % (WPU + 1) = WPU THEN EccWord
                                  ELSE Pattern(WordAt(r))]
  /\ sram = rsram
  /\ mu = [src |-> 0, dst |-> 0, value |-> Same(0), size |-> 0, unit |-> 4,
           cmd |-> "none", dram |-> FALSE]
  /\ busy = FALSE /\ result = 0
  /\ op = Idle /\ phase = "idle" /\ word = Same(0) /\ at = 0 /\ left = 0
  /\ answer = <<0, 0>> /\ ops = 0 /\ dmas = 0

-----------------------------------------------------------------------------
(* Words, bytes, bits and items *)

\* val shifted to byte off of the old word; what a shift of 32 bits moves out is lost.
Put(old, off, val) == [l \in Lanes |-> IF l - off \in DOMAIN val THEN val[l - off] ELSE old[l]]

\* The bit as 0 or 1 (_tst_bit_dram returns it in its place, a truth value).
BitOf(w, i) == (w[i \div BPB] \div 2^(i % BPB)) % 2
PutBit(old, i, bit) == [old EXCEPT ![i \div BPB] = @ + (bit - BitOf(old, i)) * 2^(i % BPB)]

Bytes(m, a, n) == [l \in 0 .. n - 1 |-> m[(a + l) \div 4][(a + l) % 4]]
Number(item) == MapThenSumSet(LAMBDA l : item[l] * (2^BPB)^l, DOMAIN item)

\* Index of the first item of a set, or the number of items, which is none of them.
First(found, n) == IF found = {} THEN n ELSE Min(found)

\* mem_cmp_dram: the first byte that differs decides.
Compare(x, y, n) ==
  LET diff == {i \in 0 .. n - 1 : x[i] # y[i]}
  IN IF diff = {} THEN 0 ELSE IF x[Min(diff)] > y[Min(diff)] THEN 1 ELSE -1

\* The searches of the MU (external): over bits, or over items of 1, 2 or 4 bytes.
Search(m, r) ==
  LET items == 0 .. r.size - 1
      item(i) == Bytes(m, 4 * r.src + i * r.unit, r.unit)
      least(i) == \A j \in items : Number(item(i)) <= Number(item(j))
      most(i) == \A j \in items : Number(item(i)) >= Number(item(j))
  IN CASE r.cmd = "SEARCH_EQU" ->
            First({i \in items : item(i) = [l \in 0 .. r.unit - 1 |-> r.value[l]]}, r.size)
       [] r.cmd = "SEARCH_MIN" -> Min({i \in items : least(i)})
       [] r.cmd = "SEARCH_MAX" -> Min({i \in items : most(i)})
       [] r.cmd = "FIND" ->
            First({i \in 0 .. r.size * 4 * BPB - 1 :
                     BitOf(m[r.src + (i \div (4 * BPB))], i % (4 * BPB)) = r.value[0]}, r.size * 4 * BPB)

Logical == [w \in Words |-> cells[Cell(w)]]

-----------------------------------------------------------------------------
(* The calls *)

Vals == {0, 2^BPB - 1}
SomeWords == {0, Units * WPU - WPU - 1}
Calls ==
  UNION {
    {[kind |-> "write_8", a |-> 4 * w + l, val |-> [i \in {0} |-> v]] : w \in SomeWords, l \in Lanes, v \in Vals},
    {[kind |-> "write_16", a |-> 4 * w + l, val |-> [i \in {0, 1} |-> IF i = 0 THEN v ELSE 1]] :
       w \in SomeWords, l \in 0 .. 2, v \in Vals},
    {[kind |-> "write_32", a |-> 4 * w, val |-> [Same(v) EXCEPT ![1] = 1]] : w \in FtlWords, v \in Vals},
    {[kind |-> "put_bit", a |-> l, n |-> i, val |-> v] :
       l \in {0, 3}, i \in {0, BPB + 1, 4 * BPB * WPU}, v \in {0, 1}},
    {[kind |-> "set_dram", a |-> 0, n |-> n * WPU, val |-> Same(v)] : n \in 1 .. Units - 1, v \in Vals},
    {[kind |-> "set_sram", a |-> 0, n |-> n, val |-> Same(v)] : n \in 1 .. SWords, v \in Vals},
    {[kind |-> "copy", a |-> 4 * u * WPU, src |-> v * WPU, n |-> WPU] :
       u \in 0 .. Units - 2, v \in 0 .. Units - 1} }

\* A search in SRAM or DRAM is over all of it, or one by _mem_search_equ over no items.
Questions ==
  UNION {
    {[kind |-> "read", a |-> 4 * w + l, n |-> n] :
       w \in SomeWords \cup DmaWords, l \in Lanes, n \in {1, 2, 4}},
    {[kind |-> "tst_bit", a |-> l, n |-> i] : l \in {0, 3}, i \in {0, BPB + 1, 4 * BPB * WPU}},
    {[kind |-> "cmp_dram", a |-> 0, src |-> 4 * w + 1, n |-> 3] : w \in FtlWords},
    [kind : {"search"}, cmd : {"SEARCH_EQU", "SEARCH_MIN", "SEARCH_MAX"}, dram : BOOLEAN,
     unit : {1, 2, 4}, val : {[Same(2) EXCEPT ![1] = 0, ![2] = 1]}, all : {TRUE}],
    [kind : {"search"}, cmd : {"SEARCH_EQU"}, dram : BOOLEAN, unit : {1}, val : {Same(0)}, all : {FALSE}],
    [kind : {"find"}, dram : BOOLEAN, val : {Same(0), Same(1)}] }

\* Within a word: the target takes the part of a 16-bit or 32-bit value that is.
Fits(c) == c.kind = "read" => (c.a % 4) + c.n <= 4

SizeOf(dram) == IF dram THEN Units * WPU ELSE SWords
Items(c) == IF c.all THEN SizeOf(c.dram) * (4 \div c.unit) ELSE 0
\* What a caller makes of an index: those past the items are all one.
Index(c, i) == IF c.kind = "search" /\ i > Items(c) THEN Items(c) ELSE i

\* The DRAM after a call: mock.c, and for bits set_bit_sram and clr_bit_sram
EmuWrite(c) == [w \in Words |-> [l \in Lanes |-> IF 4 * w + l - c.a \in DOMAIN c.val
                                                THEN c.val[4 * w + l - c.a] ELSE ref[w][l]]]
\* memset: the low byte of the value
EmuSet(m, c) == [w \in DOMAIN m |-> IF 4 * w - c.a \in 0 .. 4 * c.n - 1 THEN Same(c.val[0]) ELSE m[w]]
EmuCopy(c) == [w \in Words |-> IF 4 * w - c.a \in 0 .. 4 * c.n - 1 THEN ref[c.src + w - c.a \div 4] ELSE ref[w]]
SramBit(c) ==
  LET byte == c.a + (c.n \div BPB)
  IN [w \in Words |-> IF w = byte \div 4 THEN PutBit(ref[w], (byte % 4) * BPB + (c.n % BPB), c.val) ELSE ref[w]]

Meant(c) ==
  CASE c.kind \in {"write_8", "write_16", "write_32"} -> EmuWrite(c)
    [] c.kind = "put_bit" -> SramBit(c)
    [] c.kind = "set_dram" -> EmuSet(ref, c)
    [] c.kind = "copy" -> EmuCopy(c)
    [] OTHER -> ref

\* What a question should be answered.
Expected(c) ==
  LET m == IF c.kind \in {"search", "find"} /\ ~c.dram THEN rsram ELSE ref
  IN CASE c.kind = "read" -> Number(Bytes(m, c.a, c.n))
       [] c.kind = "tst_bit" ->
            (m[(c.a + (c.n \div BPB)) \div 4][(c.a + (c.n \div BPB)) % 4] \div 2^(c.n % BPB)) % 2
       [] c.kind = "cmp_dram" -> Compare(Bytes(m, c.a, c.n), Bytes(m, c.src, c.n), c.n)
       [] c.kind = "search" -> Search(m, [cmd |-> c.cmd, src |-> 0, unit |-> c.unit, value |-> c.val,
                                          size |-> Items(c)])
       [] c.kind = "find" -> Search(m, [cmd |-> "FIND", src |-> 0, value |-> c.val, size |-> SizeOf(c.dram)])

FirstPhase(c) ==
  CASE c.kind \in {"write_8", "write_16", "put_bit"} -> "fetch"
    [] c.kind \in {"read", "tst_bit", "cmp_dram"} -> "look"
    [] c.kind = "search" /\ ~c.all -> "look"
    [] OTHER -> "issue"

Call(c) ==
  /\ phase = "idle" /\ ops < MaxOps /\ Fits(c)
  /\ op' = c /\ phase' = FirstPhase(c) /\ ops' = ops + 1
  /\ IF c.kind \in {"set_dram", "set_sram"} THEN at' = c.a \div 4 /\ left' = c.n ELSE UNCHANGED <<at, left>>
  /\ word' = IF c.kind = "write_32" THEN c.val ELSE word
  /\ ref' = Meant(c)
  /\ rsram' = IF c.kind = "set_sram" THEN EmuSet(rsram, c) ELSE rsram
  /\ UNCHANGED <<cells, sram, device, answer, dmas>>

-----------------------------------------------------------------------------
(* The routines *)

\* aligned_addr: the word that holds the byte, or the bit.
Target == (IF op.kind \in {"put_bit", "tst_bit"} THEN op.a + (op.n \div BPB) ELSE op.a) \div 4
new_bit_offset == (op.a * BPB + op.n) % (4 * BPB)

BusWord(w) == cells[real_addr(w)]
BusBytes(a, n) == [l \in 0 .. n - 1 |-> BusWord((a + l) \div 4)[(a + l) % 4]]

\* The first half of _write_dram_8, _write_dram_16, _set_bit_dram and _clr_bit_dram.
Fetch ==
  /\ phase = "fetch"
  /\ word' = IF op.kind = "put_bit" THEN PutBit(BusWord(Target), new_bit_offset, op.val)
             ELSE Put(BusWord(Target), op.a % 4, op.val)
  /\ phase' = "issue"
  /\ UNCHANGED <<cells, sram, device, op, at, left, ghost, answer, ops, dmas>>

\* _read_dram_8, _16, _32, _tst_bit_dram, _mem_cmp_dram: over the bus only; and
\* _mem_search_equ, which returns 1 when there are no items.
Look ==
  /\ phase = "look"
  /\ answer' = <<CASE op.kind = "read" -> Number(BusBytes(op.a, op.n))
                   [] op.kind = "tst_bit" -> BitOf(BusWord(Target), new_bit_offset)
                   [] op.kind = "cmp_dram" -> Compare(BusBytes(op.a, op.n), BusBytes(op.src, op.n), op.n)
                   [] op.kind = "search" -> Index(op, 1),
                 Expected(op)>>
  /\ op' = Idle /\ phase' = "idle"
  /\ UNCHANGED <<cells, sram, device, word, at, left, ghost, ops, dmas>>

Chunk == IF left < MuMax THEN left ELSE MuMax

\* Slip: MU_VALUE left as it is when the items are words.
SearchValueStale == IF op.cmd = "SEARCH_EQU" /\ op.unit < 4 THEN op.val ELSE mu.value
\* _mem_search_equ and _mem_search_equ_4_bytes; _mem_search_min_max does not set it.
SearchValue == IF op.cmd = "SEARCH_EQU" THEN op.val ELSE mu.value

\* What each routine writes to the registers.
SearchRegisters == [mu EXCEPT !.src = 0, !.value = SearchValue, !.unit = op.unit,
                              !.size = Items(op), !.cmd = op.cmd, !.dram = op.dram]
FindRegisters == [mu EXCEPT !.src = 0, !.value = op.val, !.size = SizeOf(op.dram), !.cmd = "FIND", !.dram = op.dram]
SetRegisters == [mu EXCEPT !.value = op.val, !.dst = at, !.size = Chunk, !.cmd = "SET", !.dram = (op.kind = "set_dram")]
CopyRegisters == [mu EXCEPT !.src = op.src, !.dst = op.a \div 4, !.size = op.n, !.cmd = "COPY", !.dram = TRUE]
WriteRegisters == [mu EXCEPT !.src = Stack, !.dst = Target, !.size = 1, !.cmd = "COPY", !.dram = TRUE]

Registers ==
  CASE op.kind = "search" -> SearchRegisters
    [] op.kind = "find" -> FindRegisters
    [] op.kind \in {"set_dram", "set_sram"} -> SetRegisters
    [] op.kind = "copy" -> CopyRegisters
    [] OTHER -> WriteRegisters

\* Only _mem_copy and _mem_set_dram wait for the MU before they write to it.
Waits == op.kind \notin {"search", "find", "set_sram"}

Issue ==
  /\ phase = "issue" /\ (Waits => ~busy)
  /\ mu' = Registers /\ busy' = TRUE /\ phase' = "poll"
  /\ IF op.kind \in {"set_dram", "set_sram"} THEN at' = at + Chunk /\ left' = left - Chunk ELSE UNCHANGED <<at, left>>
  /\ UNCHANGED <<cells, sram, result, op, word, ghost, answer, ops, dmas>>

\* MU_RESULT is no longer 0xFFFFFFFF: the next turn of a mem_set, or the end.
Return ==
  /\ phase = "poll" /\ ~busy
  /\ IF left > 0 THEN phase' = "issue" /\ UNCHANGED <<op, answer>>
     ELSE /\ phase' = "idle" /\ op' = Idle
          /\ answer' = IF op.kind \in {"search", "find"} THEN <<Index(op, result), Expected(op)>> ELSE answer
  /\ UNCHANGED <<cells, sram, device, word, at, left, ghost, ops, dmas>>

-----------------------------------------------------------------------------
(* The devices (external). MU_CMD says which memory a SET, a search or a FIND is for. *)

Source(i) == IF mu.src = Stack THEN word ELSE Logical[mu.src + i]
Written(w, old) ==
  IF w - mu.dst \in 0 .. mu.size - 1
  THEN (IF mu.cmd = "SET" THEN mu.value ELSE Source(w - mu.dst)) ELSE old

Run ==
  /\ busy /\ busy' = FALSE
  /\ IF mu.cmd \in {"SET", "COPY"}
     THEN /\ cells' = IF ~mu.dram THEN cells
                      ELSE [r \in RealWords |->
                              IF r % (WPU + 1) = WPU THEN cells[r] ELSE Written(WordAt(r), cells[r])]
          /\ sram' = IF mu.dram THEN sram ELSE [w \in DOMAIN sram |-> Written(w, sram[w])]
          /\ result' = 0
     ELSE /\ result' = Search(IF mu.dram THEN Logical ELSE sram, mu)
          /\ UNCHANGED <<cells, sram>>
  /\ UNCHANGED <<mu, op, phase, word, at, left, ghost, answer, ops, dmas>>

\* A page or a sector of the host arrives.
Dma(w) ==
  /\ dmas < MaxDma /\ dmas' = dmas + 1
  /\ op.kind \notin {"copy", "search", "find"}   \* a buffer that is being read is not being filled
  /\ cells' = [cells EXCEPT ![Cell(w)] = Same(1)]
  /\ ref' = [ref EXCEPT ![w] = Same(1)]
  /\ UNCHANGED <<sram, device, op, phase, word, at, left, rsram, answer, ops>>

Next ==
  \/ \E c \in Calls \cup Questions : Call(c)
  \/ Fetch \/ Look \/ Issue \/ Return \/ Run
  \/ \E w \in DmaWords : Dma(w)

Spec == Init /\ [][Next]_vars

-----------------------------------------------------------------------------
(* Properties. *)

\* Between two calls the memories hold what the same calls leave in the emulator (for bits:
\* what the macros for SRAM would leave), whatever DMA writes to the buffers meanwhile: the
\* word that a byte is put into is read over the bus, which has the ECC words, and written
\* back by the MU, which has not, and a set that is longer than the MU takes goes in turns.
SameAsEmulator == phase = "idle" => Logical = ref /\ sram = rsram

\* A routine that asks is told of its own items, not of those of an earlier one, though it
\* sets only some of the registers and does not wait for the MU before it does.
Answered == phase = "idle" => answer[1] = answer[2]
=============================================================================
