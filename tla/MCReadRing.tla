----------------------------- MODULE MCReadRing -----------------------------
(* The ring wraps twice, and all banks and Waiting Room can be full. *)
EXTENDS ReadRing
=============================================================================
