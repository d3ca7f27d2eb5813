----------------------------- MODULE MCNandOps ------------------------------
(* Three rows of which two share a plane, so that both ways of copyback occur. *)
EXTENDS NandOps
=============================================================================
