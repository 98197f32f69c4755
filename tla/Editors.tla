------------------------------ MODULE Editors ------------------------------
(***************************************************************************)
(* Several editors of one flag or config under optimistic locking: callers *)
(* of the management API (PUT, DELETE with expectedVersion) and pages of   *)
(* the panel, whose toggle reads the flag first and then writes its        *)
(* negation.  An editor acts on the page it has, the page gets old, and an *)
(* answer may be lost after the write has committed, so that the request is*)
(* repeated.  value is a flag's enabled; of a config's document two        *)
(* different ones are enough.                                              *)
(***************************************************************************)
EXTENDS Integers

CONSTANTS
    Editors,
    MaxVersion,       \* bound: versions of one record
    MaxIncarnations   \* bound: records that have this key one after another

ASSUME EditorsBounds ==
    /\ MaxVersion \in Nat \ {0}
    /\ MaxIncarnations \in Nat

VARIABLES
    row,       \* the record's row; version 0 when there is none
    created,   \* rows created under this key so far; history
    page,      \* page[e]: the row as e last got to see it
    request,   \* request[e]: what e has asked for and got no answer to yet
    accepted   \* the write this step committed; history

vars == <<row, created, page, request, accepted>>

\* A row knows which of the key's incarnations it is; the program does not.
Rows  == [life : 1 .. MaxIncarnations, value : BOOLEAN, ver : 1 .. MaxVersion]
NoRow == [life |-> 0, value |-> FALSE, ver |-> 0]

\* A variant of Exists: the absence of a row goes unnoticed.
Found(r) == r.ver >= 0

Exists(r) == r.ver > 0

Verbs == {"create", "put", "toggle", "flip", "delete"}

\* base is the page the request was made from; its version is expectedVersion.
\* lives are the incarnations the request has already been applied to.
NoRequest == [verb |-> "none", value |-> FALSE, base |-> NoRow, lives |-> {}]
Requests  == [verb : Verbs, value : BOOLEAN, base : Rows \cup {NoRow},
              lives : SUBSET (1 .. MaxIncarnations)]

NoWrite == [verb |-> "none", base |-> NoRow, over |-> NoRow, new |-> NoRow,
            again |-> FALSE]
Writes  == [verb : Verbs, base : Rows \cup {NoRow}, over : Rows \cup {NoRow},
            new : Rows \cup {NoRow}, again : BOOLEAN]
-----------------------------------------------------------------------------
(* What an editor does. *)

Idle(e) == request[e].verb = "none"

\* GET /v1/flags/{key}, or a render of the panel.
Look(e) ==
    /\ Idle(e)
    /\ page' = [page EXCEPT ![e] = row]
    /\ accepted' = NoWrite
    /\ UNCHANGED <<row, created, request>>

\* A create needs no page; the others carry the version of the page, which is
\* positive: requireExpectedVersion insists on it, and the templates print the
\* version of the row they render.
Ask(e, verb, value) ==
    /\ Idle(e)
    /\ verb # "create" => Exists(page[e])
    /\ request' = [request EXCEPT ![e] =
          [verb |-> verb, value |-> value, base |-> page[e], lives |-> {}]]
    /\ accepted' = NoWrite
    /\ UNCHANGED <<row, created, page>>

\* No answer came and the editor does not try again.
GiveUp(e) ==
    /\ ~ Idle(e)
    /\ request' = [request EXCEPT ![e] = NoRequest]
    /\ accepted' = NoWrite
    /\ UNCHANGED <<row, created, page>>
-----------------------------------------------------------------------------
(* What the server does with a request. *)

\* The answer reaches the editor, who then sees r; or it is lost, and the same
\* request will be sent again.
Answer(e, r, lives) ==
    \/ /\ page' = [page EXCEPT ![e] = r]
       /\ request' = [request EXCEPT ![e] = NoRequest]
    \/ /\ request' = [request EXCEPT ![e].lives = @ \cup lives,
                                     ![e].verb = IF @ = "flip" THEN "toggle" ELSE @]
       /\ UNCHANGED page

Commit(e, verb, new) ==
    /\ row' = new
    /\ accepted' = [verb |-> verb, base |-> request[e].base, over |-> row,
                    new |-> new, again |-> row.life \in request[e].lives]

Refuse ==
    /\ accepted' = NoWrite
    /\ UNCHANGED <<row, created>>

\* Variants of VersionAccepted: any newer version will do; a retry finds its own
\* version; a toggle goes by the version it has just read.
NotOlder(e) == request[e].base.ver > 0 => row.ver >= request[e].base.ver
OwnVersionToo(e) ==
    request[e].base.ver > 0 => row.ver \in {request[e].base.ver, request[e].base.ver + 1}
FreshToggle(e) == request[e].verb # "flip" => row.ver = request[e].base.ver

\* VersionAccepted, as in UpdateFlag and DeleteFlag.
VersionAccepted(e) == request[e].base.ver > 0 => row.ver = request[e].base.ver

\* CreateFlag, CreateConfig; ErrDuplicate names nothing of the row that is there.
Create(e) ==
    /\ request[e].verb = "create"
    /\ IF Exists(row)
       THEN Refuse /\ Answer(e, page[e], {})
       ELSE /\ created < MaxIncarnations
            /\ created' = created + 1
            /\ LET new == [life |-> created + 1, value |-> request[e].value,
                           ver |-> 1]
               IN  Commit(e, "create", new) /\ Answer(e, new, {})

\* UpdateFlag, UpdateConfig: 404, 409 with the row as it stands, or the new row.
Update(e, verb, value) ==
    IF ~ Exists(row) THEN Refuse /\ Answer(e, page[e], {})
    ELSE IF ~ VersionAccepted(e) THEN Refuse /\ Answer(e, row, {})
    ELSE /\ row.ver < MaxVersion
         /\ UNCHANGED created
         /\ LET new == [row EXCEPT !.value = value, !.ver = @ + 1]
            IN  Commit(e, verb, new) /\ Answer(e, new, {row.life})

Put(e) == request[e].verb = "put" /\ Update(e, "put", request[e].value)

\* toggleFlag reads the flag ...
ToggleRead(e) ==
    /\ request[e].verb = "toggle"
    /\ IF Exists(row)
       THEN /\ request' = [request EXCEPT ![e].verb = "flip",
                                          ![e].value = ~ row.value]
            /\ UNCHANGED page
       ELSE Answer(e, page[e], {})
    /\ Refuse

\* ... and then writes the negation of what it read.
ToggleWrite(e) ==
    request[e].verb = "flip" /\ Update(e, "toggle", request[e].value)

\* DeleteFlag, DeleteConfig.  The panel renders the table anew, gone or not.
Delete(e) ==
    /\ request[e].verb = "delete"
    /\ IF Exists(row) /\ VersionAccepted(e)
       THEN /\ Commit(e, "delete", NoRow)
            /\ Answer(e, NoRow, {row.life})
            /\ UNCHANGED created
       ELSE Refuse /\ Answer(e, row, {})
-----------------------------------------------------------------------------
Init ==
    /\ row = NoRow
    /\ created = 0
    /\ page = [e \in Editors |-> NoRow]
    /\ request = [e \in Editors |-> NoRequest]
    /\ accepted = NoWrite

Next ==
    \E e \in Editors :
       \/ Look(e)
       \/ \E verb \in Verbs \ {"flip"}, value \in BOOLEAN : Ask(e, verb, value)
       \/ GiveUp(e)
       \/ Create(e) \/ Put(e) \/ ToggleRead(e) \/ ToggleWrite(e) \/ Delete(e)

Spec == Init /\ [][Next]_vars
-----------------------------------------------------------------------------
(* Properties *)

TypeOK ==
    /\ row \in Rows \cup {NoRow}
    /\ created \in 0 .. MaxIncarnations
    /\ page \in [Editors -> Rows \cup {NoRow}]
    /\ request \in [Editors -> Requests \cup {NoRequest}]
    /\ accepted \in Writes \cup {NoWrite}

\* The write is made from a page that shows the record it replaces, in one of
\* its versions: not a record that was deleted since.
SameRecord(write) == write.base.life = write.over.life /\ Exists(write.base)

\* An update or a deletion that is accepted replaces exactly what its editor was
\* looking at, while the record was not deleted and made again: however old the
\* page, and however often the request was repeated.
NoBlindOverwrite == SameRecord(accepted) => accepted.over = accepted.base

\* A panel toggle writes the opposite of what the page showed, although it takes
\* the value from a read of its own and not from the page (ui/flags.go).
ToggleFlipsThePage ==
    accepted.verb = "toggle" /\ SameRecord(accepted)
       => accepted.new.value = ~ accepted.base.value

\* A request repeated after a lost answer is not applied to a record twice.
AppliedOnce == ~ accepted.again

\* README, Admin panel: "expectedVersion prevents overwriting someone else's
\* change": the value that an accepted update replaces is the one its editor was
\* looking at.
NeverOverwritesUnseen ==
    accepted.verb \in {"put", "toggle"}
       => accepted.over.value = accepted.base.value
=============================================================================
