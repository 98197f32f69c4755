----------------------------- MODULE MC_Storage -----------------------------
(* A small instance of Storage. *)
EXTENDS Storage

CONSTANTS p1, prod, dev, k, v1, v2, t
=============================================================================
