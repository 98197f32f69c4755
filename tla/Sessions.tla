------------------------------ MODULE Sessions ------------------------------
(***************************************************************************)
(* The sessions of the admin panel.  The tabs of one browser share a cookie*)
(* jar; each has one request under way: a login, a page, a logout.  Between*)
(* the steps of a request the clock runs, other tabs change the jar and the*)
(* hourly janitor deletes rows; an answer, and with it its Set-Cookie, may *)
(* be lost.                                                                *)
(***************************************************************************)
EXTENDS Integers

CONSTANTS
    Tabs,
    SessionIds,   \* bound: ids that are ever drawn; 32 random bytes do not repeat
    SessionTTL,
    MaxClock      \* bound: seconds the model runs

ASSUME SessionsConstants ==
    /\ SessionTTL \in Nat \ {0}
    /\ MaxClock \in Nat
    /\ "none" \notin SessionIds

VARIABLES
    clock,
    sessions,   \* the table: expires_at of every id that has a row
    drawn,      \* ids drawn so far; history
    jar,        \* the value of confezy_session in the browser
    request,    \* request[t]: what tab t waits for
    janitor,    \* the second the janitor compares with while it waits to delete
    served      \* the request this step let through; history

vars == <<clock, sessions, drawn, jar, request, janitor, served>>

NoSession == [id |-> "none", expires |-> 0]
Seconds   == 0 .. MaxClock
Rows      == [id : SessionIds, expires : 0 .. MaxClock + SessionTTL]
Ids       == {s.id : s \in sessions}
None      == "none"

\* row is the session that was read, or that is about to be stored.
NoRequest == [step |-> "none", cookie |-> None, row |-> NoSession, sent |-> 0]
Requests  == [step : {"login", "start", "page", "compare", "over", "logout", "answer", "clear"},
              cookie : SessionIds \cup {None}, row : Rows \cup {NoSession}, sent : Seconds]

Idle == -1

Moves(t, step) == request' = [request EXCEPT ![t].step = step]
Ends(t)        == request' = [request EXCEPT ![t] = NoRequest]
-----------------------------------------------------------------------------
(* The two places that decide that a session is over. *)

\* A variant of IsOver: expiry is left to the janitor.
NeverOver(s) == FALSE

\* Current: sess.ExpiresAt < time.Now().Unix().
IsOver(s) == s.expires < clock

\* A variant of Expired: with the second of the expiry.
ExpiredToo(s, now) == s.expires <= now

\* DeleteExpiredSessions: expires_at < ?.
Expired(s, now) == s.expires < now
-----------------------------------------------------------------------------
(* Requests. *)

Ask(t) ==
    /\ request[t] = NoRequest
    /\ \E step \in {"login", "page", "logout"} :
          request' = [request EXCEPT ![t] = [step |-> step, cookie |-> jar,
                                             row |-> NoSession, sent |-> clock]]
    /\ served' = NoRequest
    /\ UNCHANGED <<clock, sessions, drawn, jar, janitor>>

\* A variant of ExpiresAt: a duration multiplied by its unit once more.
ExpiresUnitTwice == clock + SessionTTL * (SessionTTL + 1)

ExpiresAt == clock + SessionTTL

\* loginSubmit: the account is unknown or the password is wrong.
LoginRefused(t) ==
    /\ request[t].step = "login"
    /\ Ends(t)
    /\ served' = NoRequest
    /\ UNCHANGED <<clock, sessions, drawn, jar, janitor>>

\* Start draws an id and looks at the clock ...
LoginAccepted(t) ==
    /\ request[t].step = "login"
    /\ \E id \in SessionIds \ drawn :
          /\ drawn' = drawn \cup {id}
          /\ request' = [request EXCEPT ![t].step = "start",
                            ![t].row = [id |-> id, expires |-> ExpiresAt]]
    /\ served' = NoRequest
    /\ UNCHANGED <<clock, sessions, jar, janitor>>

\* ... and stores the session when the write connection is free.
CreateSession(t) ==
    /\ request[t].step = "start"
    /\ sessions' = sessions \cup {request[t].row}
    /\ Moves(t, "answer")
    /\ served' = NoRequest
    /\ UNCHANGED <<clock, drawn, jar, janitor>>

\* Current reads the row of the cookie; without one, or if the read fails, the request
\* is redirected to the login.
GetSession(t) ==
    /\ request[t].step = "page"
    /\ \/ \E s \in sessions :
             /\ s.id = request[t].cookie
             /\ request' = [request EXCEPT ![t].step = "compare", ![t].row = s]
       \/ Ends(t)
    /\ served' = NoRequest
    /\ UNCHANGED <<clock, sessions, drawn, jar, janitor>>

\* The row as it was read is compared with the clock as it is now.  The account of the
\* session is read after that, which may fail.
Compare(t) ==
    /\ request[t].step = "compare"
    /\ \/ /\ IsOver(request[t].row)
          /\ Moves(t, "over")
          /\ served' = NoRequest
       \/ /\ ~ IsOver(request[t].row)
          /\ Ends(t)
          /\ served' \in {request[t], NoRequest}
    /\ UNCHANGED <<clock, sessions, drawn, jar, janitor>>

\* The row of a session that is over is deleted, if that succeeds, when the write
\* connection is free.
DropExpired(t) ==
    /\ request[t].step = "over"
    /\ sessions' \in {sessions, {s \in sessions : s.id # request[t].cookie}}
    /\ Ends(t)
    /\ served' = NoRequest
    /\ UNCHANGED <<clock, drawn, jar, janitor>>

\* End: a cookie whose row is gone is cleared all the same.
DeleteSession(t) ==
    /\ request[t].step = "logout"
    /\ sessions' = {s \in sessions : s.id # request[t].cookie}
    /\ Moves(t, "clear")
    /\ served' = NoRequest
    /\ UNCHANGED <<clock, drawn, jar, janitor>>

\* A variant of DeleteSessionFails: the error is logged and the cookie cleared.
DeleteSessionFailsUnseen(t) ==
    /\ request[t].step = "logout"
    /\ request[t].cookie # None
    /\ Moves(t, "clear")
    /\ served' = NoRequest
    /\ UNCHANGED <<clock, sessions, drawn, jar, janitor>>

\* The row is not deleted: the cookie is left, the browser is redirected.
DeleteSessionFails(t) ==
    /\ request[t].step = "logout"
    /\ request[t].cookie # None
    /\ Ends(t)
    /\ served' = NoRequest
    /\ UNCHANGED <<clock, sessions, drawn, jar, janitor>>

\* The browser gets the Set-Cookie of a login or of a logout.
SetCookie(t) ==
    /\ request[t].step \in {"answer", "clear"}
    /\ jar' = IF request[t].step = "answer" THEN request[t].row.id ELSE None
    /\ Ends(t)
    /\ served' = NoRequest
    /\ UNCHANGED <<clock, sessions, drawn, janitor>>

LoseAnswer(t) ==
    /\ request[t].step \in {"answer", "clear"}
    /\ Ends(t)
    /\ served' = NoRequest
    /\ UNCHANGED <<clock, sessions, drawn, jar, janitor>>

\* Max-Age has passed, or the user clears it.
DropCookie ==
    /\ jar # None
    /\ jar' = None
    /\ served' = NoRequest
    /\ UNCHANGED <<clock, sessions, drawn, request, janitor>>
-----------------------------------------------------------------------------
(* The janitor and the clock. *)

\* A variant of Wake: the second is read once, when the server starts.
WakeAtStart ==
    /\ janitor = Idle
    /\ janitor' = 0
    /\ served' = NoRequest
    /\ UNCHANGED <<clock, sessions, drawn, jar, request>>

Wake ==
    /\ janitor = Idle
    /\ janitor' = clock
    /\ served' = NoRequest
    /\ UNCHANGED <<clock, sessions, drawn, jar, request>>

Prune ==
    /\ janitor # Idle
    /\ sessions' = {s \in sessions : ~ Expired(s, janitor)}
    /\ janitor' = Idle
    /\ served' = NoRequest
    /\ UNCHANGED <<clock, drawn, jar, request>>

\* The error is logged; there is a next hour.
PruneFails ==
    /\ janitor # Idle
    /\ janitor' = Idle
    /\ served' = NoRequest
    /\ UNCHANGED <<clock, sessions, drawn, jar, request>>

Tick ==
    /\ clock < MaxClock
    /\ clock' = clock + 1
    /\ served' = NoRequest
    /\ UNCHANGED <<sessions, drawn, jar, request, janitor>>
-----------------------------------------------------------------------------
Init ==
    /\ clock = 0
    /\ sessions = {} /\ drawn = {}
    /\ jar = None
    /\ request = [t \in Tabs |-> NoRequest]
    /\ janitor = Idle
    /\ served = NoRequest

Next ==
    \/ \E t \in Tabs :
          \/ Ask(t) \/ LoginRefused(t) \/ LoginAccepted(t) \/ CreateSession(t)
          \/ GetSession(t) \/ Compare(t) \/ DropExpired(t)
          \/ DeleteSession(t) \/ DeleteSessionFails(t)
          \/ SetCookie(t) \/ LoseAnswer(t)
    \/ DropCookie
    \/ Wake \/ Prune \/ PruneFails \/ Tick

Spec == Init /\ [][Next]_vars

\* The ticker of the janitor fires; not every one of its deletes fails.
LiveSpec == Spec /\ WF_vars(Wake) /\ SF_vars(Prune)
-----------------------------------------------------------------------------
(* Properties *)

TypeOK ==
    /\ clock \in Seconds
    /\ sessions \subseteq Rows
    /\ \A r, s \in sessions : r.id = s.id => r = s
    /\ drawn \subseteq SessionIds
    /\ jar \in SessionIds \cup {None}
    /\ request \in [Tabs -> Requests \cup {NoRequest}]
    /\ janitor \in Seconds \cup {Idle}
    /\ served \in Requests \cup {NoRequest}

\* A session the panel would still let in is ended by a logout of its own cookie and
\* by nothing else: the janitor and the request that finds an old row agree on the
\* second at which it is over, whatever they had read before the clock went on.
EndsByLogoutOrExpiry ==
    [][\A s \in sessions \ sessions' :
          \/ s.expires < clock
          \/ \E t \in Tabs : request[t].step = "logout" /\ request[t].cookie = s.id]_vars

\* A request that was sent when its session was over is not let in, though the row
\* is still there until the janitor comes.
NotServedAfterExpiry == served # NoRequest => served.row.expires >= served.sent

\* A browser is told to forget its cookie only when the session behind it is gone for
\* good: one whose DELETE failed keeps its cookie, and can log out again, instead of
\* leaving a session that works for whoever has its id and that nobody can end.
LogoutEndsTheSession ==
    \A t \in Tabs : request[t].step = "clear" => request[t].cookie \notin Ids

\* Rows of sessions that are over do not pile up, also those of browsers that never
\* come back or never got the cookie.
ExpiredIsPruned ==
    \A id \in SessionIds :
       (\E s \in sessions : s.id = id /\ s.expires < clock) ~> (id \notin Ids)
=============================================================================
