------------------------------- MODULE Boards -------------------------------
(***************************************************************************)
(* What the settings of a board fix before anything runs: which chips the  *)
(* banks are (bank.h), how the DRAM is divided (ftl_parameters.h,          *)
(* dram_layout.h), and which part of it the boot clears (initialize.c).    *)
(* The emulator has copies of bank.h and jasmine.h and uses the same FTL   *)
(* headers.  A chip is numbered as in bank.h: its way times 4, plus its    *)
(* channel.  Sizes are in bytes.                                           *)
(***************************************************************************)
EXTENDS Integers, Sequences, FiniteSets

NUM_BANKS_MAX == 32
DRAM_SIZE == 65075200
MU_MAX_BYTES == 32768

\* BANK_BMP in two halves, the channels and the ways that its BANK_MAP lists, NUM_BANKS
Setting(hi, lo, chns, ways, banks) ==
  [hi |-> hi, lo |-> lo, chns |-> chns, ways |-> ways, banks |-> banks]

Settings == {
  Setting(\hFFFF, \hFFFF, <<0, 1, 2, 3>>, <<0, 1, 2, 3, 4, 5, 6, 7>>, 32),
  Setting(\h00FF, \hFFFF, <<0, 1, 2, 3>>, <<0, 1, 2, 3, 4, 5>>, 24),
  Setting(\h000F, \hFFFF, <<0, 1, 2, 3>>, <<0, 1, 2, 3, 4>>, 20),
  Setting(\h0F0F, \h0F0F, <<0, 1, 2, 3>>, <<0, 2, 4, 6>>, 16),
  Setting(\h00FF, \h00FF, <<0, 1, 2, 3>>, <<0, 1, 4, 5>>, 16),
  Setting(\h3333, \h3333, <<0, 1>>, <<0, 1, 2, 3, 4, 5, 6, 7>>, 16),
  Setting(\h0033, \h3333, <<0, 1>>, <<0, 1, 2, 3, 4, 5>>, 12),
  Setting(\h0003, \h3333, <<0, 1>>, <<0, 1, 2, 3, 4>>, 10),
  Setting(\h0033, \h0033, <<0, 1>>, <<0, 1, 4, 5>>, 8),
  Setting(\h0303, \h0303, <<0, 1>>, <<0, 2, 4, 6>>, 8),
  Setting(\h0000, \hFFFF, <<0, 1, 2, 3>>, <<0, 1, 2, 3>>, 16),
  Setting(\h0000, \h7777, <<0, 1, 2>>, <<0, 1, 2, 3>>, 12),
  Setting(\h0000, \h0077, <<0, 1, 2>>, <<0, 1>>, 6),
  Setting(\h0000, \h0707, <<0, 1, 2>>, <<0, 2>>, 6),
  Setting(\h0000, \h0FFF, <<0, 1, 2, 3>>, <<0, 1, 2>>, 12),
  Setting(\h0000, \h00FF, <<0, 1, 2, 3>>, <<0, 1>>, 8),
  Setting(\h0000, \h0F0F, <<0, 1, 2, 3>>, <<0, 2>>, 8),
  Setting(\h0000, \h000F, <<0, 1, 2, 3>>, <<0>>, 4),
  Setting(\h0000, \h3333, <<0, 1>>, <<0, 1, 2, 3>>, 8),
  Setting(\h0000, \hCCCC, <<2, 3>>, <<0, 1, 2, 3>>, 8),
  Setting(\h0000, \h5555, <<0, 2>>, <<0, 1, 2, 3>>, 8),
  Setting(\h0000, \h9999, <<0, 3>>, <<0, 1, 2, 3>>, 8),
  Setting(\h0000, \h0333, <<0, 1>>, <<0, 1, 2>>, 6),
  Setting(\h0000, \h0033, <<0, 1>>, <<0, 1>>, 4),
  Setting(\h0000, \h0303, <<0, 1>>, <<0, 2>>, 4),
  Setting(\h0000, \h0C0C, <<2, 3>>, <<0, 2>>, 4),
  Setting(\h0000, \h0003, <<0, 1>>, <<0>>, 2),
  Setting(\h0000, \h1111, <<0>>, <<0, 1, 2, 3>>, 4),
  Setting(\h0000, \h0011, <<0>>, <<0, 1>>, 2),
  Setting(\h0000, \h0101, <<0>>, <<0, 2>>, 2),
  Setting(\h0000, \h0001, <<0>>, <<0>>, 1),
  Setting(\h0003, \h0003, <<0, 1>>, <<0, 4>>, 4),
  Setting(\h000C, \h000C, <<2, 3>>, <<0, 1>>, 4)}

\* c_bank_map: the ways in turn, in each of them the channels.
REAL_BANK(s, bank) == 4 * s.ways[1 + (bank \div Len(s.chns))] + s.chns[1 + (bank % Len(s.chns))]

Banks(s) == 0 .. s.banks - 1
BitsOf(half, first) == {i \in first .. first + 15 : (half \div 2^(i - first)) % 2 = 1}
BANK_BMP(s) == BitsOf(s.lo, 0) \cup BitsOf(s.hi, 16)

\* The table of the other direction: each of the 33 has 0, 1, 2 ... in the places of the
\* chips of its BANK_BMP and _X_ in the others.
BANK_RMAP(s, chip) == Cardinality({c \in BANK_BMP(s) : c < chip})

\* BYTES_PER_PAGE: 2 planes of either chip of nand.h, or 1 plane of the larger one.
PageSizes == {16384, 32768}

-----------------------------------------------------------------------------
(* ftl_parameters.h and dram_layout.h, of DRAM_SIZE, BYTES_PER_PAGE and NUM_BANKS *)

\* Buffers other than those of the host: copy, FTL, HIL and temporary ones
OtherBuffers(banks) == NUM_BANKS_MAX + banks + 1 + 1
NUM_RW_BUFFERS(dram, page, banks) == ((dram - OtherBuffers(banks) * page) \div page) - 1

\* Half of them, as a multiple of the banks
NUM_RD_BUFFERS(dram, page, banks) ==
  (((NUM_RW_BUFFERS(dram, page, banks) \div 2) + banks - 1) \div banks) * banks
NUM_WR_BUFFERS(dram, page, banks) ==
  NUM_RW_BUFFERS(dram, page, banks) - NUM_RD_BUFFERS(dram, page, banks)

\* Offsets from DRAM_BASE
RD_BUF(page, id) == id * page
WR_BUF(dram, page, banks, id) == (NUM_RD_BUFFERS(dram, page, banks) + id) * page
WR_BUF_END(dram, page, banks) == WR_BUF(dram, page, banks, NUM_WR_BUFFERS(dram, page, banks))
COPY_BUF(dram, page, banks, rbank) == WR_BUF_END(dram, page, banks) + rbank * page
\* Slip: as many copy buffers as banks, though they are found by chip.
FtlBufLow(dram, page, banks, bank) == COPY_BUF(dram, page, banks, banks) + bank * page
FTL_BUF(dram, page, banks, bank) == COPY_BUF(dram, page, banks, NUM_BANKS_MAX) + bank * page
HIL_BUF(dram, page, banks) == FTL_BUF(dram, page, banks, banks)
END(dram, page, banks) == HIL_BUF(dram, page, banks) + 2 * page

\* init_jasmine clears the DRAM in steps of what a mem_set may take, and no rest.
Cleared(dram) == (dram \div MU_MAX_BYTES) * MU_MAX_BYTES

-----------------------------------------------------------------------------
\* The buffers of s with pages of this size, by their offsets
Buffers(s, page) ==
  LET b == s.banks IN
    {RD_BUF(page, i) : i \in 0 .. NUM_RD_BUFFERS(DRAM_SIZE, page, b) - 1}
      \cup {WR_BUF(DRAM_SIZE, page, b, i) : i \in 0 .. NUM_WR_BUFFERS(DRAM_SIZE, page, b) - 1}
      \cup {COPY_BUF(DRAM_SIZE, page, b, REAL_BANK(s, k)) : k \in Banks(s)}
      \cup {FTL_BUF(DRAM_SIZE, page, b, k) : k \in Banks(s)}
      \cup {HIL_BUF(DRAM_SIZE, page, b), HIL_BUF(DRAM_SIZE, page, b) + page}

\* bank.h:142 gives this map for 0x000C000C, whose chips are those of ways 0 and 4; it lists
\* ways 0 and 1.
WrongMap == Setting(\h000C, \h000C, <<2, 3>>, <<0, 1>>, 4)

\* The banks of the board are the chips of its BANK_BMP, and the two tables are inverse to
\* each other, but for WrongMap.
BanksAreChips(s) ==
  s # WrongMap => /\ {REAL_BANK(s, k) : k \in Banks(s)} = BANK_BMP(s)
                  /\ \A k \in Banks(s) : BANK_RMAP(s, REAL_BANK(s, k)) = k

\* The buffers of dram_layout.h, found by bank, by chip or by number, are apart and in the
\* DRAM that the boot has cleared, so that its ECC is right; the host has some to write to.
BuffersApart(s, page) ==
  LET b == s.banks
      rd == NUM_RD_BUFFERS(DRAM_SIZE, page, b)
      wr == NUM_WR_BUFFERS(DRAM_SIZE, page, b)
  IN /\ wr > 0 /\ rd % b = 0
     /\ END(DRAM_SIZE, page, b) <= Cleared(DRAM_SIZE)
     /\ \A buf \in Buffers(s, page) : buf >= 0 /\ buf + page <= END(DRAM_SIZE, page, b)
     /\ Cardinality(Buffers(s, page)) = rd + wr + 2 * b + 2
=============================================================================
