----------------------------- MODULE MCEmuFlash -----------------------------
(* Two banks of two blocks fill a position exactly: the last block of the last bank wraps. *)
EXTENDS EmuFlash
=============================================================================
