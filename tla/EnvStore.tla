------------------------------ MODULE EnvStore ------------------------------
(***************************************************************************)
(* What the storage layer promises about ONE environment id to whoever     *)
(* only reads it: a document of two tables, shown under every ?tag=        *)
(* filter, and a stamp that stands for it.  Storage implements this for    *)
(* every id (module EnvView); Polling is written against it.               *)
(***************************************************************************)
EXTENDS Integers

CONSTANTS
    Filters,    \* the ?tag= values, NoTag among them
    NoTag,      \* no filter
    Bodies,     \* what a listing of one table may show
    EmptyBody,
    MaxStamp    \* bound: environment stamps

ASSUME EnvStoreConstants ==
    /\ NoTag \in Filters
    /\ EmptyBody \in Bodies
    /\ MaxStamp \in Nat

VARIABLES
    alive,    \* an environment with this id exists
    stamp,    \* its updated_at
    content   \* content[kind][filter]: what a listing of the table shows

storeVars == <<alive, stamp, content>>

Kinds   == {"flag", "config"}
Stamps  == 0 .. MaxStamp
Views   == [Filters -> Bodies]
Nothing == [kind \in Kinds |-> [filter \in Filters |-> EmptyBody]]

StoreTypeOK ==
    /\ alive \in BOOLEAN
    /\ stamp \in Stamps
    /\ content \in [Kinds -> Views]

StoreInit ==
    /\ alive = FALSE
    /\ stamp = 0
    /\ content = Nothing

\* The id is given to a new environment: it is empty, and its stamp has no
\* relation to the stamp of an earlier holder of the id.
Create ==
    /\ ~ alive
    /\ alive' = TRUE
    /\ stamp' \in Stamps
    /\ UNCHANGED content

Delete ==
    /\ alive
    /\ alive' = FALSE
    /\ stamp' = 0
    /\ content' = Nothing

\* A variant of Change: the stamp is the wall clock's, which was set back.
ChangeToClock(kind) ==
    /\ alive
    /\ \E view \in Views : content' = [content EXCEPT ![kind] = view]
    /\ stamp' \in {s \in Stamps : s < stamp}
    /\ UNCHANGED alive

\* A variant of Change: a flag and the config of its key are written together.
ChangeTogether(kind) ==
    /\ alive
    /\ stamp' \in {s \in Stamps : s > stamp}
    /\ content' \in {[other \in Kinds |-> view] : view \in Views}
    /\ UNCHANGED alive

\* A committed write under the environment: one of its two tables may show
\* something else, under any filter.
Change(kind) ==
    /\ alive
    /\ stamp' \in {s \in Stamps : s > stamp}
    /\ content' \in {[content EXCEPT ![kind] = view] : view \in Views}
    /\ UNCHANGED alive

\* A tag is deleted from the project: both tables stop showing it at once.
RemoveTag(filter) ==
    /\ alive
    /\ filter # NoTag
    /\ content' = [kind \in Kinds |-> [content[kind] EXCEPT ![filter] = EmptyBody]]
    /\ stamp' \in {s \in Stamps : s > stamp}
    /\ UNCHANGED alive

StoreNext ==
    \/ Create
    \/ Delete
    \/ \E kind \in Kinds : Change(kind)
    \/ \E filter \in Filters : RemoveTag(filter)

StoreSpec == StoreInit /\ [][StoreNext]_storeVars
=============================================================================
