----------------------------- MODULE MCTEPlugin -----------------------------
(* TEPlugin on a small instance; the cfg files give the constants. *)
EXTENDS TEPlugin
=============================================================================
