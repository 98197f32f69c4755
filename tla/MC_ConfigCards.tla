--------------------------- MODULE MC_ConfigCards ---------------------------
(* A small instance of ConfigCards. *)
EXTENDS ConfigCards

CONSTANTS e1, e2
=============================================================================
