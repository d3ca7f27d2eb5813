------------------------------- MODULE MCSataCmd -------------------------------
(***************************************************************************)
(* Instance of SataCmd for TLC.                                            *)
(***************************************************************************)
EXTENDS SataCmd
=============================================================================
