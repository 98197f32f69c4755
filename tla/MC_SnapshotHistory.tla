------------------------- MODULE MC_SnapshotHistory -------------------------
(* A small instance of SnapshotHistory. *)
EXTENDS SnapshotHistory

CONSTANTS c1, t, b0, b1

OneSnapshot == [endpoint : {"snapshot"}, filter : {t}]
=============================================================================
