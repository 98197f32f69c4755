---------------------------- MODULE SessionsProofs ----------------------------
(* When a session of the panel is over, and who ends it: proved for Sessions,   *)
(* for every number of tabs, ids and seconds.                                   *)
EXTENDS Sessions, TLAPS

(***************************************************************************)
(* The inductive invariant.  An id is drawn once, so a row that is about   *)
(* to be stored shares its id with no row that is stored, was read, or is  *)
(* about to be stored by another tab; and a row that was read is still the *)
(* only one its cookie can name.  Nobody holds a second that has not come. *)
(* An id a browser has been given (Out) is one that was drawn, and none    *)
(* that is about to be stored: what a logout has deleted stays away.       *)
(***************************************************************************)
Read == {"compare", "over"}

Unstored(r) == r.step = "start" => r.row \in Rows /\ r.row.id \in drawn \ Ids

AsRead(r) ==
    r.step \in Read =>
       /\ r.row \in Rows /\ r.row.id \in drawn
       /\ r.row.id = r.cookie
       /\ \A s \in sessions : s.id = r.cookie => s = r.row
       /\ r.step = "over" => r.row.expires < clock

Holds(r) == Unstored(r) /\ AsRead(r) /\ r.sent <= clock

Apart(q, r) ==
    q.step = "start" /\ r.step \in {"start"} \cup Read => q.row.id # r.row.id

Out(id) ==
    \/ id = jar
    \/ \E t \in Tabs :
          \/ id = request[t].cookie
          \/ request[t].step = "answer" /\ id = request[t].row.id

GivenOut ==
    \A id : Out(id) =>
       /\ id \in drawn \cup {None}
       /\ \A t \in Tabs : request[t].step = "start" => request[t].row.id # id

Inv ==
    /\ TypeOK
    /\ \A s \in sessions : s.id \in drawn
    /\ janitor <= clock
    /\ \A t \in Tabs : Holds(request[t])
    /\ \A t, u \in Tabs : t # u => Apart(request[t], request[u])
    /\ GivenOut
    /\ NotServedAfterExpiry
    /\ LogoutEndsTheSession

LEMMA InitInv == Init => Inv
<1> SUFFICES ASSUME Init
             PROVE  Inv
  OBVIOUS
<1>1. clock = 0 /\ 0 \in Seconds /\ janitor = -1 /\ janitor <= clock
  BY SessionsConstants DEF Init, Seconds, Idle
<1>2. \A t \in Tabs : request[t] = NoRequest
  BY DEF Init
<1>3. NoRequest.step = "none" /\ NoRequest.sent = 0
  BY DEF NoRequest
<1>4. TypeOK
  BY <1>1 DEF Init, TypeOK
<1>5. \A t \in Tabs : Holds(request[t])
  <2>1. NoRequest.sent <= clock
    BY <1>1, <1>3
  <2>2. Unstored(NoRequest) /\ AsRead(NoRequest)
    BY <1>3 DEF Unstored, AsRead, Read
  <2> QED
    BY <1>2, <2>1, <2>2 DEF Holds
<1>6. \A t, u \in Tabs : Apart(request[t], request[u])
  BY <1>2, <1>3 DEF Apart
<1>7. GivenOut
  <2>1. NoRequest.cookie = None
    BY DEF NoRequest
  <2> QED
    BY <1>2, <1>3, <2>1 DEF GivenOut, Out, Init
<1>8. LogoutEndsTheSession
  BY <1>2, <1>3 DEF LogoutEndsTheSession
<1> QED
  BY <1>1, <1>4, <1>5, <1>6, <1>7, <1>8 DEF Inv, Init, NotServedAfterExpiry

LEMMA Times ==
    ASSUME TypeOK
    PROVE  /\ clock \in Int /\ janitor \in Int
           /\ \A t \in Tabs : request[t].sent \in Int /\ request[t].row.expires \in Int
           /\ \A s \in sessions : s.expires \in Int
           /\ served.row.expires \in Int /\ served.sent \in Int
<1>1. /\ Seconds \subseteq Int
      /\ \A s \in Rows : s.expires \in Int
      /\ \A r \in Requests : r.sent \in Int /\ r.row \in Rows \cup {NoSession}
  BY SessionsConstants DEF Seconds, Rows, Requests
<1>2. NoSession.expires \in Int /\ NoRequest.sent \in Int /\ NoRequest.row = NoSession
  BY DEF NoSession, NoRequest
<1>3. -1 \in Int
  OBVIOUS
<1> QED
  BY <1>1, <1>2, <1>3 DEF TypeOK, Idle

(***************************************************************************)
(* Most steps draw no id, store no row and read none: they end a request   *)
(* or move it to a step at which it holds no row that matters, delete      *)
(* rows, or move the clock and the janitor.                                *)
(***************************************************************************)
LEMMA QuietStep ==
    ASSUME Inv,
           sessions' \subseteq sessions, drawn' = drawn,
           clock' \in Seconds, clock <= clock',
           janitor' \in Seconds \cup {Idle}, janitor' <= clock',
           jar' \in SessionIds \cup {None},
           request' \in [Tabs -> Requests \cup {NoRequest}],
           \A t \in Tabs :
              \/ request'[t] = request[t]
              \/ /\ request'[t].step \notin {"start"} \cup Read /\ request'[t].sent <= clock'
                 /\ request'[t].step = "clear" => request'[t].cookie \notin Ids',
           \A id : Out(id)' => Out(id) \/ id = None,
           served' \in Requests \cup {NoRequest},
           NotServedAfterExpiry'
    PROVE  Inv'
<1>1. TypeOK'
  BY DEF Inv, TypeOK
<1>2. \A s \in sessions' : s.id \in drawn'
  BY DEF Inv
<1>3. \A t \in Tabs : Holds(request[t])'
  <2> SUFFICES ASSUME NEW t \in Tabs
               PROVE  Holds(request[t])'
    OBVIOUS
  <2>1. CASE request'[t].step \notin {"start"} \cup Read /\ request'[t].sent <= clock'
    BY <2>1 DEF Holds, Unstored, AsRead
  <2>2. CASE request'[t] = request[t]
    <3>1. Holds(request[t]) /\ Ids' \subseteq Ids
      BY DEF Inv, Ids
    <3>2. Unstored(request[t])'
      BY <2>2, <3>1 DEF Holds, Unstored, Rows
    <3>3. AsRead(request[t])'
      <4>1. /\ clock \in Int /\ clock' \in Int
            /\ request[t].row.expires \in Int
        BY <1>1, Times, SessionsConstants DEF Inv, Seconds
      <4> QED
        BY <2>2, <3>1, <4>1 DEF Holds, AsRead, Rows
    <3>4. request'[t].sent <= clock'
      <4>1. request[t].sent \in Int /\ clock \in Int /\ clock' \in Int
        BY <1>1, Times, SessionsConstants DEF Inv, Seconds
      <4>2. request[t].sent <= clock
        BY <3>1 DEF Holds
      <4> QED
        BY <4>1, <4>2, <2>2
    <3> QED
      BY <3>2, <3>3, <3>4 DEF Holds
  <2> QED
    BY <2>1, <2>2
<1>4. ASSUME NEW t \in Tabs, NEW u \in Tabs, t # u
      PROVE  Apart(request[t], request[u])'
  <2>1. Apart(request[t], request[u])
    BY <1>4 DEF Inv
  <2> QED
    BY <2>1 DEF Apart
<1>5. GivenOut'
  <2> SUFFICES ASSUME NEW id, Out(id)'
               PROVE  /\ id \in drawn \cup {None}
                      /\ \A t \in Tabs : request'[t].step = "start" => request'[t].row.id # id
    BY DEF GivenOut
  <2>1. Out(id) \/ id = None
    OBVIOUS
  <2>2. ASSUME NEW t \in Tabs, request'[t].step = "start"
        PROVE  request'[t].row.id # id
    <3>1. request[t] = request'[t] /\ request[t].row \in Rows
      BY <2>2 DEF Inv, Holds, Unstored
    <3>2. request[t].row.id # None
      BY <3>1, SessionsConstants DEF Rows, None
    <3> QED
      BY <2>1, <2>2, <3>1, <3>2 DEF Inv, GivenOut
  <2> QED
    BY <2>1, <2>2 DEF Inv, GivenOut
<1>6. LogoutEndsTheSession'
  <2>1. Ids' \subseteq Ids
    BY DEF Ids
  <2> QED
    BY <2>1 DEF Inv, LogoutEndsTheSession
<1> QED
  BY <1>1, <1>2, <1>3, <1>4, <1>5, <1>6 DEF Inv
-----------------------------------------------------------------------------
LEMMA RequestReplaced ==
    ASSUME TypeOK, NEW t \in Tabs, NEW new \in Requests \cup {NoRequest},
           request' = [request EXCEPT ![t] = new]
    PROVE  /\ request' \in [Tabs -> Requests \cup {NoRequest}]
           /\ request'[t] = new
           /\ \A u \in Tabs : u # t => request'[u] = request[u]
BY DEF TypeOK

LEMMA NoRequestHolds ==
    /\ NoRequest.step \notin {"start", "answer", "clear"} \cup Read
    /\ NoRequest.sent = 0 /\ NoRequest.cookie = None
BY DEF NoRequest, Read

\* What a request that is replaced has given out.
LEMMA OutOfRequest ==
    ASSUME Inv, NEW t \in Tabs, NEW new \in Requests \cup {NoRequest},
           request' = [request EXCEPT ![t] = new],
           jar' = None \/ Out(jar'),
           new.cookie = None \/ Out(new.cookie),
           new.step = "answer" => Out(new.row.id)
    PROVE  \A id : Out(id)' => Out(id) \/ id = None
<1>1. /\ request'[t] = new
      /\ \A u \in Tabs : u # t => request'[u] = request[u]
  BY RequestReplaced DEF Inv
<1> SUFFICES ASSUME NEW id, Out(id)'
             PROVE  Out(id) \/ id = None
  OBVIOUS
<1>2. CASE id = jar'
  BY <1>2
<1>3. ASSUME NEW u \in Tabs,
             \/ id = request'[u].cookie
             \/ request'[u].step = "answer" /\ id = request'[u].row.id
      PROVE  Out(id) \/ id = None
  <2>1. CASE u = t
    BY <1>1, <1>3, <2>1
  <2>2. CASE u # t
    BY <1>1, <1>3, <2>2 DEF Out
  <2> QED
    BY <2>1, <2>2
<1> QED
  BY <1>2, <1>3 DEF Out

\* A request ends, or moves to a step at which it holds no row.
LEMMA RequestStep ==
    ASSUME Inv, NEW t \in Tabs, NEW new \in Requests \cup {NoRequest},
           request' = [request EXCEPT ![t] = new],
           new.step \notin {"start"} \cup Read, new.sent <= clock,
           new.step = "clear" => new.cookie \notin Ids',
           new.cookie = None \/ Out(new.cookie),
           new.step = "answer" => Out(new.row.id),
           sessions' \subseteq sessions, jar' \in SessionIds \cup {None},
           jar' = None \/ Out(jar'),
           served' \in Requests \cup {NoRequest}, NotServedAfterExpiry',
           UNCHANGED <<clock, drawn, janitor>>
    PROVE  Inv'
<1>1. /\ request' \in [Tabs -> Requests \cup {NoRequest}]
      /\ request'[t] = new
      /\ \A u \in Tabs : u # t => request'[u] = request[u]
  BY RequestReplaced DEF Inv
<1>2. clock \in Int /\ clock <= clock
  BY Times DEF Inv
<1>3. \A id : Out(id)' => Out(id) \/ id = None
  BY OutOfRequest
<1> QED
  BY <1>1, <1>2, <1>3, QuietStep DEF Inv, TypeOK

LEMMA NothingServed == served' = NoRequest => NotServedAfterExpiry'
BY DEF NotServedAfterExpiry

LEMMA NoRequestTimely == Inv => NoRequest.sent <= clock
<1> SUFFICES ASSUME Inv
             PROVE  NoRequest.sent <= clock
  OBVIOUS
<1>1. clock \in Nat
  BY SessionsConstants DEF Inv, TypeOK, Seconds
<1> QED
  BY <1>1, NoRequestHolds

LEMMA JarIsOut == Out(jar)
BY DEF Out

LEMMA EndStep ==
    ASSUME Inv, NEW t \in Tabs, Ends(t),
           sessions' \subseteq sessions, jar' \in SessionIds \cup {None},
           jar' = None \/ Out(jar'),
           served' \in Requests \cup {NoRequest}, NotServedAfterExpiry',
           UNCHANGED <<clock, drawn, janitor>>
    PROVE  Inv'
BY RequestStep, NoRequestHolds, NoRequestTimely DEF Ends

LEMMA AskStep == ASSUME Inv, NEW t \in Tabs, Ask(t) PROVE Inv'
<1>1. PICK step \in {"login", "page", "logout"} :
         request' = [request EXCEPT ![t] = [step |-> step, cookie |-> jar,
                                            row |-> NoSession, sent |-> clock]]
  BY DEF Ask
<1> DEFINE new == [step |-> step, cookie |-> jar, row |-> NoSession, sent |-> clock]
<1>2. /\ new \in Requests /\ new.step \notin {"start", "answer", "clear"} \cup Read
      /\ new.sent <= clock /\ new.cookie = jar
  <2>1. clock \in Int /\ clock <= clock
    BY Times DEF Inv
  <2> QED
    BY <2>1 DEF Inv, TypeOK, Requests, Read
<1>3. request' = [request EXCEPT ![t] = new]
  BY <1>1
<1> HIDE DEF new
<1> QED
  BY <1>2, <1>3, RequestStep, JarIsOut, NothingServed DEF Ask, Inv, TypeOK

\* The row that was read is over, and so is the row its cookie names.
LEMMA OverStep ==
    ASSUME Inv, NEW t \in Tabs, Compare(t), IsOver(request[t].row)
    PROVE  Inv'
<1> DEFINE r == request[t]
           new == [r EXCEPT !.step = "over"]
<1>1. r \in Requests /\ Holds(r) /\ r.step = "compare"
  BY DEF Inv, TypeOK, Compare, NoRequest
<1>2. /\ new \in Requests /\ new.step = "over" /\ new.sent = r.sent
      /\ new.row = r.row /\ new.cookie = r.cookie
  BY <1>1 DEF Requests
<1>3. /\ request' = [request EXCEPT ![t] = new]
      /\ UNCHANGED <<clock, sessions, drawn, jar, janitor>> /\ served' = NoRequest
  BY DEF Compare, Moves
<1> HIDE DEF new
<1>4. /\ request' \in [Tabs -> Requests \cup {NoRequest}]
      /\ request'[t] = new
      /\ \A u \in Tabs : u # t => request'[u] = request[u]
  BY <1>2, <1>3, RequestReplaced DEF Inv
<1>5. TypeOK' /\ Ids' = Ids
  BY <1>3, <1>4 DEF Inv, TypeOK, Ids
<1>6. ASSUME NEW u \in Tabs
      PROVE  Holds(request[u])'
  <2>1. CASE u = t
    <3>1. AsRead(new) /\ Unstored(new)
      BY <1>1, <1>2 DEF Holds, AsRead, Unstored, Read, IsOver
    <3> QED
      BY <1>1, <1>2, <1>3, <1>4, <1>5, <2>1, <3>1 DEF Holds, AsRead, Unstored
  <2>2. CASE u # t
    <3>1. Holds(request[u])
      BY DEF Inv
    <3> QED
      BY <1>3, <1>4, <1>5, <2>2, <3>1 DEF Holds, AsRead, Unstored
  <2> QED
    BY <2>1, <2>2
<1>7. ASSUME NEW u \in Tabs, NEW v \in Tabs, u # v
      PROVE  Apart(request[u], request[v])'
  <2>1. Apart(request[u], request[v])
    BY <1>7 DEF Inv
  <2> QED
    BY <1>1, <1>2, <1>4, <2>1 DEF Apart, Read
<1>8. GivenOut'
  <2>1. \A id : Out(id)' => Out(id)
    BY <1>2, <1>3, <1>4 DEF Out
  <2>2. \A u \in Tabs : request'[u].step = "start" => request'[u] = request[u]
    BY <1>2, <1>4
  <2> QED
    BY <1>3, <2>1, <2>2 DEF Inv, GivenOut
<1>9. LogoutEndsTheSession'
  BY <1>2, <1>4, <1>5 DEF Inv, LogoutEndsTheSession
<1> QED
  BY <1>3, <1>5, <1>6, <1>7, <1>8, <1>9, NothingServed DEF Inv

LEMMA CompareStep == ASSUME Inv, NEW t \in Tabs, Compare(t) PROVE Inv'
<1>1. request[t] \in Requests /\ Holds(request[t])
  BY DEF Inv, TypeOK, Compare, NoRequest
<1>2. CASE IsOver(request[t].row)
  BY <1>2, OverStep
<1>3. CASE ~ IsOver(request[t].row)
  <2>1. served' \in {request[t], NoRequest} /\ sessions' = sessions
    BY <1>3 DEF Compare
  <2>2. request[t].row.expires >= request[t].sent
    <3>1. clock \in Int /\ request[t].sent \in Int /\ request[t].row.expires \in Int
      BY Times DEF Inv
    <3>2. ~ (request[t].row.expires < clock) /\ request[t].sent <= clock
      BY <1>1, <1>3 DEF IsOver, Holds
    <3> QED
      BY <3>1, <3>2
  <2>3. NotServedAfterExpiry'
    BY <2>1, <2>2 DEF NotServedAfterExpiry
  <2> QED
    BY <1>1, <1>3, <2>1, <2>3, EndStep, JarIsOut DEF Compare, Inv, TypeOK
<1> QED
  BY <1>2, <1>3

\* A logout, and the answers.
LEMMA AnswerStep ==
    ASSUME Inv, NEW t \in Tabs,
           LoginRefused(t) \/ DropExpired(t) \/ DeleteSession(t) \/ DeleteSessionFails(t)
           \/ SetCookie(t) \/ LoseAnswer(t)
    PROVE  Inv'
<1> DEFINE r == request[t]
<1>r. r \in Requests /\ r.sent <= clock
  BY DEF Inv, TypeOK, Holds, NoRequest, LoginRefused, DropExpired, DeleteSession,
         DeleteSessionFails, SetCookie, LoseAnswer
<1>1. CASE LoginRefused(t) \/ DropExpired(t) \/ DeleteSessionFails(t) \/ LoseAnswer(t)
  BY <1>1, EndStep, JarIsOut, NothingServed
     DEF LoginRefused, DropExpired, DeleteSessionFails, LoseAnswer, Inv, TypeOK
<1>2. CASE DeleteSession(t)
  <2> DEFINE new == [r EXCEPT !.step = "clear"]
  <2>1. /\ new \in Requests /\ new.step = "clear" /\ new.sent = r.sent
        /\ new.cookie = r.cookie
    BY <1>r DEF Requests
  <2>2. request' = [request EXCEPT ![t] = new]
    BY <1>2 DEF DeleteSession, Moves
  <2>3. new.cookie \notin Ids' /\ Out(new.cookie)
    BY <1>2, <2>1 DEF DeleteSession, Ids, Out
  <2> HIDE DEF new
  <2> QED
    BY <1>2, <1>r, <2>1, <2>2, <2>3, RequestStep, JarIsOut, NothingServed
       DEF DeleteSession, Inv, TypeOK, Read
<1>3. CASE SetCookie(t)
  <2>1. r.row.id \in SessionIds \cup {None}
    BY <1>r DEF Requests, Rows, NoSession, None
  <2>2. jar' = None \/ Out(jar')
    BY <1>3 DEF SetCookie, Out
  <2> QED
    BY <1>3, <2>1, <2>2, EndStep, NothingServed DEF SetCookie, Inv, TypeOK
<1> QED
  BY <1>1, <1>2, <1>3

LEMMA ClockStep ==
    ASSUME Inv, DropCookie \/ Wake \/ Prune \/ PruneFails \/ Tick
    PROVE  Inv'
<1>1. /\ clock \in Int /\ janitor \in Int /\ clock \in Nat
      /\ \A t \in Tabs : request'[t] = request[t]
  BY Times, SessionsConstants
     DEF Inv, TypeOK, Seconds, DropCookie, Wake, Prune, PruneFails, Tick
<1>2. clock' \in Seconds /\ clock <= clock'
  BY <1>1, SessionsConstants
     DEF Inv, TypeOK, Seconds, DropCookie, Wake, Prune, PruneFails, Tick
<1>3. janitor' \in Seconds \cup {Idle} /\ janitor' <= clock'
  BY <1>1 DEF Inv, TypeOK, DropCookie, Wake, Prune, PruneFails, Tick, Idle
<1>4. /\ sessions' \subseteq sessions
      /\ jar' \in SessionIds \cup {None}
      /\ served' = NoRequest
      /\ drawn' = drawn /\ request' = request
  BY DEF Inv, TypeOK, DropCookie, Wake, Prune, PruneFails, Tick
<1>5. \A id : Out(id)' => Out(id) \/ id = None
  BY DEF Out, DropCookie, Wake, Prune, PruneFails, Tick
<1> QED
  BY <1>1, <1>2, <1>3, <1>4, <1>5, QuietStep, NothingServed DEF Inv, TypeOK
-----------------------------------------------------------------------------
(* The three steps that matter: an id is drawn, a row is stored, a row is read. *)

LEMMA DrawStep == ASSUME Inv, NEW t \in Tabs, LoginAccepted(t) PROVE Inv'
<1> DEFINE r == request[t]
<1>1. PICK id \in SessionIds \ drawn :
         /\ drawn' = drawn \cup {id}
         /\ request' = [request EXCEPT ![t].step = "start",
                           ![t].row = [id |-> id, expires |-> ExpiresAt]]
  BY DEF LoginAccepted
<1> DEFINE row == [id |-> id, expires |-> ExpiresAt]
           new == [r EXCEPT !.step = "start", !.row = row]
<1>r. r \in Requests /\ Holds(r)
  BY DEF Inv, TypeOK, LoginAccepted, NoRequest
<1>2. row \in Rows /\ row.id = id
  BY SessionsConstants DEF Inv, TypeOK, Rows, Seconds, ExpiresAt
<1>3. request' = [request EXCEPT ![t] = new]
  BY <1>1, <1>r DEF Requests, Inv, TypeOK
<1> HIDE DEF row
<1>4. /\ new \in Requests /\ new.step = "start" /\ new.row = row /\ new.sent = r.sent
      /\ new.cookie = r.cookie
  BY <1>r, <1>2 DEF Requests
<1> HIDE DEF new
<1>5. /\ request' \in [Tabs -> Requests \cup {NoRequest}]
      /\ request'[t] = new
      /\ \A u \in Tabs : u # t => request'[u] = request[u]
  BY <1>3, <1>4, RequestReplaced DEF Inv
<1>6. UNCHANGED <<clock, sessions, jar, janitor>> /\ served' = NoRequest
  BY DEF LoginAccepted
<1>7. TypeOK'
  BY <1>1, <1>5, <1>6 DEF Inv, TypeOK
<1>8. id \notin Ids
  BY DEF Inv, Ids
<1>d. /\ drawn' = drawn \cup {id}
      /\ sessions' = sessions /\ Ids' = Ids
  BY <1>1, <1>6 DEF Ids
<1>9. \A u \in Tabs : Holds(request[u])'
  <2> SUFFICES ASSUME NEW u \in Tabs
               PROVE  Holds(request[u])'
    OBVIOUS
  <2>1. CASE u = t
    <3>1. Unstored(request[u])'
      BY <1>d, <1>2, <1>4, <1>5, <1>8, <2>1 DEF Unstored
    <3>2. AsRead(request[u])'
      BY <1>4, <1>5, <2>1 DEF AsRead, Read
    <3> QED
      BY <1>r, <1>4, <1>5, <1>6, <2>1, <3>1, <3>2 DEF Holds
  <2>2. CASE u # t
    <3>1. Holds(request[u]) /\ request'[u] = request[u]
      BY <1>5, <2>2 DEF Inv
    <3>2. Unstored(request[u])'
      BY <1>d, <3>1 DEF Holds, Unstored
    <3>3. AsRead(request[u])'
      BY <1>d, <1>6, <3>1 DEF Holds, AsRead
    <3> QED
      BY <1>6, <3>1, <3>2, <3>3 DEF Holds
  <2> QED
    BY <2>1, <2>2
<1>10. ASSUME NEW u \in Tabs, NEW v \in Tabs, u # v
       PROVE  Apart(request[u], request[v])'
  <2>1. \A w \in Tabs : request[w].step \in {"start"} \cup Read => request[w].row.id \in drawn
    BY DEF Inv, Holds, Unstored, AsRead
  <2>2. CASE u = t
    BY <1>1, <1>2, <1>4, <1>5, <1>10, <2>1, <2>2 DEF Apart
  <2>3. CASE v = t
    BY <1>1, <1>2, <1>4, <1>5, <1>10, <2>1, <2>3 DEF Apart
  <2>4. CASE u # t /\ v # t
    BY <1>5, <1>10, <2>4 DEF Inv, Apart
  <2> QED
    BY <2>2, <2>3, <2>4
<1>11. GivenOut'
  <2>1. \A i : Out(i)' => Out(i)
    BY <1>4, <1>5, <1>6 DEF Out
  <2>2. \A i : Out(i) => i # id
    BY SessionsConstants DEF Inv, GivenOut, None
  <2>3. \A u \in Tabs : request'[u].step = "start" =>
           \/ request'[u] = request[u]
           \/ request'[u].row.id = id
    BY <1>2, <1>4, <1>5
  <2> QED
    BY <1>d, <2>1, <2>2, <2>3 DEF Inv, GivenOut
<1>12. LogoutEndsTheSession'
  BY <1>d, <1>4, <1>5 DEF Inv, LogoutEndsTheSession
<1> QED
  BY <1>1, <1>6, <1>7, <1>9, <1>10, <1>11, <1>12, NothingServed DEF Inv

LEMMA StoreStep == ASSUME Inv, NEW t \in Tabs, CreateSession(t) PROVE Inv'
<1> DEFINE r == request[t]
           new == [r EXCEPT !.step = "answer"]
<1>1. r \in Requests /\ r.step = "start" /\ Holds(r)
  BY DEF Inv, TypeOK, CreateSession, NoRequest
<1>2. r.row \in Rows /\ r.row.id \in drawn /\ r.row.id \notin Ids
  BY <1>1 DEF Holds, Unstored
<1>3. /\ new \in Requests /\ new.step = "answer" /\ new.sent = r.sent
      /\ new.row = r.row /\ new.cookie = r.cookie
  BY <1>1 DEF Requests
<1>4. /\ request' = [request EXCEPT ![t] = new]
      /\ sessions' = sessions \cup {r.row}
      /\ UNCHANGED <<clock, drawn, jar, janitor>> /\ served' = NoRequest
  BY DEF CreateSession, Moves
<1> HIDE DEF new
<1>5. /\ request' \in [Tabs -> Requests \cup {NoRequest}]
      /\ request'[t] = new
      /\ \A u \in Tabs : u # t => request'[u] = request[u]
  BY <1>3, <1>4, RequestReplaced DEF Inv
<1>6. TypeOK'
  <2>1. \A p, q \in sessions' : p.id = q.id => p = q
    BY <1>2, <1>4 DEF Inv, TypeOK, Ids
  <2> QED
    BY <2>1, <1>2, <1>4, <1>5 DEF Inv, TypeOK
<1>7. Ids' = Ids \cup {r.row.id}
  BY <1>4 DEF Ids
<1>8. \A u \in Tabs : Holds(request[u])'
  <2> SUFFICES ASSUME NEW u \in Tabs
               PROVE  Holds(request[u])'
    OBVIOUS
  <2>1. CASE u = t
    BY <1>1, <1>3, <1>4, <1>5, <2>1 DEF Holds, Unstored, AsRead, Read
  <2>2. CASE u # t
    <3>1. /\ Holds(request[u]) /\ request'[u] = request[u]
          /\ Apart(request[t], request[u]) /\ Apart(request[u], request[t])
      BY <1>5, <2>2 DEF Inv
    <3>2. Unstored(request[u])'
      BY <1>1, <1>4, <1>7, <3>1 DEF Holds, Unstored, Apart, Rows
    <3>3. AsRead(request[u])'
      BY <1>1, <1>4, <3>1 DEF Holds, AsRead, Apart, Rows
    <3> QED
      BY <1>4, <3>1, <3>2, <3>3 DEF Holds
  <2> QED
    BY <2>1, <2>2
<1>9. ASSUME NEW u \in Tabs, NEW v \in Tabs, u # v
      PROVE  Apart(request[u], request[v])'
  <2>1. Apart(request[u], request[v])
    BY <1>9 DEF Inv
  <2> QED
    BY <1>3, <1>5, <2>1 DEF Apart, Read
<1>10. GivenOut'
  <2>1. \A id : Out(id)' => Out(id) \/ id = r.row.id
    BY <1>3, <1>4, <1>5 DEF Out
  <2>2. ASSUME NEW u \in Tabs, request'[u].step = "start"
        PROVE  u # t /\ request'[u] = request[u] /\ request[u].row.id # r.row.id
    <3>1. u # t /\ request'[u] = request[u]
      BY <1>3, <1>5, <2>2
    <3> QED
      BY <1>1, <2>2, <3>1 DEF Inv, Apart
  <2> QED
    BY <1>2, <1>4, <2>1, <2>2 DEF Inv, GivenOut
<1>11. LogoutEndsTheSession'
  <2> SUFFICES ASSUME NEW u \in Tabs, request'[u].step = "clear"
               PROVE  request'[u].cookie \notin Ids'
    BY DEF LogoutEndsTheSession
  <2>1. request'[u] = request[u]
    BY <1>3, <1>5
  <2>2. request[u].cookie # r.row.id
    BY <1>1 DEF Inv, GivenOut, Out
  <2> QED
    BY <1>7, <2>1, <2>2 DEF Inv, LogoutEndsTheSession
<1> QED
  BY <1>2, <1>4, <1>6, <1>8, <1>9, <1>10, <1>11, NothingServed DEF Inv

LEMMA ReadStep == ASSUME Inv, NEW t \in Tabs, GetSession(t) PROVE Inv'
<1> DEFINE r == request[t]
<1>1. r \in Requests /\ Holds(r)
  BY DEF Inv, TypeOK, GetSession, NoRequest
<1>2. CASE Ends(t)
  BY <1>2, EndStep, JarIsOut, NothingServed DEF GetSession, Inv, TypeOK
<1>3. CASE ~ Ends(t)
  <2>1. PICK s \in sessions :
           /\ s.id = r.cookie
           /\ request' = [request EXCEPT ![t].step = "compare", ![t].row = s]
    BY <1>3 DEF GetSession
  <2> DEFINE new == [r EXCEPT !.step = "compare", !.row = s]
  <2>2. s \in Rows /\ s.id \in drawn /\ s.id \in Ids
    BY DEF Inv, TypeOK, Ids
  <2>3. /\ new \in Requests /\ new.step = "compare" /\ new.row = s
        /\ new.cookie = r.cookie /\ new.sent = r.sent
    BY <1>1, <2>2 DEF Requests
  <2>4. request' = [request EXCEPT ![t] = new]
    BY <2>1, <1>1 DEF Requests, Inv, TypeOK
  <2> HIDE DEF new
  <2>5. /\ request' \in [Tabs -> Requests \cup {NoRequest}]
        /\ request'[t] = new
        /\ \A u \in Tabs : u # t => request'[u] = request[u]
    BY <2>3, <2>4, RequestReplaced DEF Inv
  <2>6. UNCHANGED <<clock, sessions, drawn, jar, janitor>> /\ served' = NoRequest
    BY DEF GetSession
  <2>7. TypeOK'
    BY <2>5, <2>6 DEF Inv, TypeOK
  <2>8. \A u \in Tabs : Holds(request[u])'
    <3> SUFFICES ASSUME NEW u \in Tabs
                 PROVE  Holds(request[u])'
      OBVIOUS
    <3>1. CASE u = t
      <4>1. AsRead(request[u])'
        BY <2>1, <2>2, <2>3, <2>5, <2>6, <3>1 DEF AsRead, Read, Rows, Inv, TypeOK
      <4> QED
        BY <1>1, <2>3, <2>5, <2>6, <3>1, <4>1 DEF Holds, Unstored
    <3>2. CASE u # t
      <4>1. Holds(request[u]) /\ request'[u] = request[u]
        BY <2>5, <3>2 DEF Inv
      <4> QED
        BY <2>6, <4>1 DEF Holds, Unstored, AsRead, Ids, Rows
    <3> QED
      BY <3>1, <3>2
  <2>9. ASSUME NEW u \in Tabs, NEW v \in Tabs, u # v
        PROVE  Apart(request[u], request[v])'
    <3>1. Apart(request[u], request[v]) /\ Unstored(request[u])
      BY <2>9 DEF Inv, Holds
    <3> QED
      BY <2>1, <2>2, <2>3, <2>5, <2>9, <3>1 DEF Apart, Unstored
  <2>10. GivenOut'
    <3>1. \A id : Out(id)' => Out(id)
      BY <2>3, <2>5, <2>6 DEF Out
    <3>2. \A u \in Tabs : request'[u].step = "start" => request'[u] = request[u]
      BY <2>3, <2>5
    <3> QED
      BY <2>6, <3>1, <3>2 DEF Inv, GivenOut
  <2>11. LogoutEndsTheSession'
    BY <2>3, <2>5, <2>6 DEF Inv, LogoutEndsTheSession, Ids
  <2> QED
    BY <2>6, <2>7, <2>8, <2>9, <2>10, <2>11, NothingServed DEF Inv
<1> QED
  BY <1>2, <1>3
-----------------------------------------------------------------------------
LEMMA SessionsStep == Inv /\ [Next]_vars => Inv'
<1> SUFFICES ASSUME Inv, [Next]_vars
             PROVE  Inv'
  OBVIOUS
<1>1. ASSUME NEW t \in Tabs, Ask(t)
      PROVE  Inv'
  BY <1>1, AskStep
<1>2. ASSUME NEW t \in Tabs, LoginAccepted(t)
      PROVE  Inv'
  BY <1>2, DrawStep
<1>3. ASSUME NEW t \in Tabs, CreateSession(t)
      PROVE  Inv'
  BY <1>3, StoreStep
<1>4. ASSUME NEW t \in Tabs, GetSession(t)
      PROVE  Inv'
  BY <1>4, ReadStep
<1>5. ASSUME NEW t \in Tabs, Compare(t)
      PROVE  Inv'
  BY <1>5, CompareStep
<1>6. ASSUME NEW t \in Tabs,
             LoginRefused(t) \/ DropExpired(t) \/ DeleteSession(t) \/ DeleteSessionFails(t)
             \/ SetCookie(t) \/ LoseAnswer(t)
      PROVE  Inv'
  BY <1>6, AnswerStep
<1>7. CASE DropCookie \/ Wake \/ Prune \/ PruneFails \/ Tick
  BY <1>7, ClockStep
<1>8. CASE UNCHANGED vars
  BY <1>8 DEF vars, Inv, TypeOK, Holds, Unstored, AsRead, Apart, Ids, GivenOut, Out,
              NotServedAfterExpiry, LogoutEndsTheSession
<1> QED
  BY <1>1, <1>2, <1>3, <1>4, <1>5, <1>6, <1>7, <1>8 DEF Next

LEMMA SessionsInvariant == Spec => []Inv
<1>1. Init => Inv
  BY InitInv
<1>2. Inv /\ [Next]_vars => Inv'
  BY SessionsStep
<1> QED
  BY <1>1, <1>2, PTL DEF Spec

\* The table keeps one row per id, and requests, the jar and the janitor their shapes.
THEOREM SessionsTypeCorrect == Spec => []TypeOK
<1>1. Inv => TypeOK
  BY DEF Inv
<1> QED
  BY <1>1, SessionsInvariant, PTL

\* However long a request waits between reading the row of its cookie and comparing it
\* with the clock, it is not let in if its session was over when it was sent.
THEOREM NotServedAfterExpiryCorrect == Spec => []NotServedAfterExpiry
<1>1. Inv => NotServedAfterExpiry
  BY DEF Inv
<1> QED
  BY <1>1, SessionsInvariant, PTL

\* Whatever logins, logouts and answers of other tabs come in between, a browser that is
\* told to forget its cookie leaves no session behind that the cookie would open.
THEOREM LogoutEndsTheSessionCorrect == Spec => []LogoutEndsTheSession
<1>1. Inv => LogoutEndsTheSession
  BY DEF Inv
<1> QED
  BY <1>1, SessionsInvariant, PTL
-----------------------------------------------------------------------------
\* Three steps delete a row: a logout, a page whose session is over, the janitor.
LEMMA OnlyWhenOver ==
    ASSUME Inv, [Next]_vars, NEW s \in sessions, s \notin sessions'
    PROVE  \/ s.expires < clock
           \/ \E t \in Tabs : request[t].step = "logout" /\ request[t].cookie = s.id
<1>1. /\ clock \in Int /\ janitor \in Int /\ janitor <= clock /\ s.expires \in Int
  BY Times DEF Inv
<1>2. ASSUME NEW t \in Tabs, DropExpired(t)
      PROVE  s.expires < clock
  <2>1. s.id = request[t].cookie /\ request[t].step = "over"
    BY <1>2 DEF DropExpired
  <2> QED
    BY <2>1 DEF Inv, Holds, AsRead, Read
<1>3. ASSUME NEW t \in Tabs, DeleteSession(t)
      PROVE  request[t].step = "logout" /\ request[t].cookie = s.id
  BY <1>3 DEF DeleteSession
<1>4. CASE Prune
  <2>1. s.expires < janitor
    BY <1>4 DEF Prune, Expired
  <2> QED
    BY <1>1, <2>1
<1>5. \/ \E t \in Tabs : DropExpired(t) \/ DeleteSession(t)
      \/ Prune
  BY DEF Next, vars, Ask, LoginRefused, LoginAccepted, CreateSession, GetSession,
         Compare, DeleteSessionFails, SetCookie, LoseAnswer, DropCookie, Wake, PruneFails, Tick
<1> QED
  BY <1>2, <1>3, <1>4, <1>5

\* Nobody but a logout with the cookie of a session ends it before its time, whatever
\* second the janitor or a page had read before the clock went on.
THEOREM EndsByLogoutOrExpiryCorrect == Spec => EndsByLogoutOrExpiry
<1> DEFINE Ended ==
      \A s \in sessions \ sessions' :
         \/ s.expires < clock
         \/ \E t \in Tabs : request[t].step = "logout" /\ request[t].cookie = s.id
<1>1. Inv /\ [Next]_vars => [Ended]_vars
  BY OnlyWhenOver
<1> QED
  BY <1>1, SessionsInvariant, PTL DEF Spec, EndsByLogoutOrExpiry
=============================================================================
