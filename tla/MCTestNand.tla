----------------------------- MODULE MCTestNand -----------------------------
(* Model-checking instance of TestNand. *)
EXTENDS TestNand
=============================================================================
