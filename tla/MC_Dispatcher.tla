--------------------------- MODULE MC_Dispatcher ---------------------------
(* A small instance of Dispatcher. *)
EXTENDS Dispatcher

CONSTANTS a, b, w1
=============================================================================
