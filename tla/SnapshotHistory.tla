-------------------------- MODULE SnapshotHistory --------------------------
(***************************************************************************)
(* Polling, with a history variable: which documents the environment held  *)
(* while a request ran.  BuildSnapshot lists the flags and the configs in  *)
(* two statements, each of which sees its own commit.                      *)
(***************************************************************************)
EXTENDS Polling

VARIABLE seen

HistoryInit == Init /\ seen = [c \in Clients |-> {}]

HistoryNext ==
    /\ Next
    /\ seen' = [c \in Clients |->
                   IF req'[c].at = "idle" THEN {} ELSE seen[c] \cup {content'}]

HistorySpec == HistoryInit /\ [][HistoryNext]_<<vars, seen>>

HistoryLiveSpec == HistorySpec /\ Fairness

\* While the request ran, the environment went from one document to another at most.
OneChange(c) == \E before, after \in seen[c] : seen[c] = {before, after}

\* What the request answers is one of these documents.
Whole(c) == \E document \in seen[c] : req[c].body = Answer(document, req[c].url)

\* The request is complete, and its environment is still there.
Complete(c) == req[c].at = "reply" /\ alive /\ req[c].generation = generation

\* README, Durability: "A reader never sees a half-finished write: WAL gives
\* each read a consistent snapshot, and a transaction becomes visible only on
\* commit."  When the environment went from one document to another while a
\* request ran, the request answers one of the two.
NeverHalfAWrite == \A c \in Clients : Complete(c) /\ OneChange(c) => Whole(c)

\* The same of a request without ?tag=, for which it is true: a transaction that
\* both listings of such a request can see changes one of the two tables.
UnfilteredIsWhole ==
    \A c \in Clients :
       Complete(c) /\ OneChange(c) /\ req[c].url.filter = NoTag => Whole(c)
=============================================================================
