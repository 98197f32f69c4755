---------------------------- MODULE MC_Sessions ----------------------------
(* A small instance of Sessions. *)
EXTENDS Sessions

CONSTANTS t1, t2
=============================================================================
