------------------------------ MODULE MC_Access -----------------------------
(* A small instance of Access. *)
EXTENDS Access

CONSTANTS a, b, prod
=============================================================================
