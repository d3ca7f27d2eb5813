---------------------------- MODULE MCFlashPort -----------------------------
(* Model-checking instance of FlashPort. *)
EXTENDS FlashPort
=============================================================================
