----------------------------- MODULE MCMemUtil ------------------------------
(* Bytes of two bits; three ECC units of two words, of which a set takes two in two turns. *)
(* Every board of bank.h is looked at, and the memory of one of them runs.                *)
EXTENDS MemUtil, Boards
VARIABLE board
ASSUME BoardAssumption == WrongMap \in Settings
MCInit == Init /\ board \in Settings
MCNext == board.banks = 32 /\ Next /\ UNCHANGED board
MCSpec == MCInit /\ [][MCNext]_<<vars, board>>

\* Whatever board the firmware and the emulator are built for, when it boots its banks are its
\* chips and its buffers are apart.
BoardsRight ==
  ops = 0 => BanksAreChips(board) /\ \A page \in PageSizes : BuffersApart(board, page)
=============================================================================
