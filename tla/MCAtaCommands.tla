--------------------------- MODULE MCAtaCommands ---------------------------
(* Model checking of AtaCommands: every code of the tables, and two of none. *)
EXTENDS AtaCommands

MCCodes ==
  {\h00, \h01, \h06, \h08, \h10, \h27, \h60, \h61, \h70, \hB0, \hB1, \hC6, \hD0, \hFF}
    \cup LBA_NOR \cup LBA_EXT \cup \h90..\h99 \cup \hE0..\hF8
=============================================================================
