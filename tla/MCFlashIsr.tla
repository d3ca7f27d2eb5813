----------------------------- MODULE MCFlashIsr -----------------------------
(* Model-checking instance of FlashIsr. *)
EXTENDS FlashIsr
=============================================================================
