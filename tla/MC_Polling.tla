----------------------------- MODULE MC_Polling -----------------------------
(* A small instance of Polling, with its history. *)
EXTENDS SnapshotHistory

CONSTANTS c1, t, b0, b1

Polled == [endpoint : {"snapshot"}, filter : {NoTag, t}]
              \cup {[endpoint |-> "getFlag", filter |-> NoTag]}
=============================================================================
