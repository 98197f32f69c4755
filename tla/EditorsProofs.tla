---------------------------- MODULE EditorsProofs ----------------------------
(* Optimistic locking does what the panel and the API rely on: proved for      *)
(* Editors, for every number of editors, versions and incarnations.            *)
EXTENDS Editors, TLAPS

(***************************************************************************)
(* The inductive invariant.  Whatever an editor holds was the record at    *)
(* some time: it is of an incarnation that has been created, and of the    *)
(* present one it is the row itself or has an older version.  A toggle     *)
(* that has read the flag holds the negation of a row that is not older    *)
(* than its page; and a request that was applied to an incarnation has     *)
(* left it with a version beyond the one the request carries.              *)
(***************************************************************************)
Past(p) ==
    \/ p = NoRow
    \/ /\ p \in Rows /\ p.life <= created
       /\ p.life = row.life => p.ver <= row.ver /\ (p.ver = row.ver => p = row)

RequestOK(r) ==
    /\ Past(r.base)
    /\ r.verb \in {"put", "toggle", "flip", "delete"} => r.base \in Rows
    /\ (r.verb = "flip" /\ r.base.life = row.life /\ r.base.ver = row.ver)
          => r.value = ~ row.value
    /\ \A life \in r.lives :
          life <= created /\ (life = row.life => row.ver > r.base.ver)

Latest == row \in Rows => row.life = created

Held == \A e \in Editors : Past(page[e]) /\ RequestOK(request[e])

Promises == NoBlindOverwrite /\ ToggleFlipsThePage /\ AppliedOnce

Inv == TypeOK /\ Latest /\ Held /\ Promises

LEMMA RowFacts ==
    /\ \A r \in Rows : /\ r.life \in Int /\ r.ver \in Int /\ r.value \in BOOLEAN
                       /\ r.life >= 1 /\ r.ver >= 1 /\ r # NoRow /\ Exists(r)
    /\ NoRow.life = 0 /\ NoRow.ver = 0 /\ NoRow.value = FALSE /\ ~ Exists(NoRow)
BY EditorsBounds DEF Rows, NoRow, Exists

LEMMA CreatedInt == TypeOK => created \in Int
BY EditorsBounds DEF TypeOK

LEMMA InitInv == Init => Inv
<1> SUFFICES ASSUME Init
             PROVE  Inv
  OBVIOUS
<1>1. TypeOK
  BY EditorsBounds DEF Init, TypeOK
<1>2. Latest
  BY RowFacts DEF Init, Latest
<1>3. \A e \in Editors : page[e] = NoRow /\ request[e] = NoRequest
  BY DEF Init
<1>4. Past(NoRow) /\ RequestOK(NoRequest)
  BY DEF Past, RequestOK, NoRequest
<1>5. Promises
  BY RowFacts
     DEF Init, Promises, NoBlindOverwrite, ToggleFlipsThePage, AppliedOnce, NoWrite, SameRecord
<1> QED
  BY <1>1, <1>2, <1>3, <1>4, <1>5 DEF Inv, Held
-----------------------------------------------------------------------------
(* What is held stays true of the row when the row moves on. *)

\* All a step can do to the row: nothing, a new incarnation, the next version, the end.
RowStep ==
    \/ row' = row /\ created' = created
    \/ row' \in Rows /\ created' = created + 1 /\ row'.life = created'
    \/ /\ row' \in Rows /\ row \in Rows /\ created' = created
       /\ row'.life = row.life /\ row'.ver = row.ver + 1
    \/ row' = NoRow /\ created' = created

LEMMA PastKept ==
    ASSUME TypeOK, NEW p, Past(p), RowStep
    PROVE  Past(p)'
<1>1. CASE p = NoRow
  BY <1>1 DEF Past
<1>2. CASE p \in Rows
  <2>1. /\ p.life <= created
        /\ p.life = row.life => p.ver <= row.ver /\ (p.ver = row.ver => p = row)
    BY <1>2, RowFacts DEF Past
  <2>2. p.life \in Int /\ p.ver \in Int /\ p.life >= 1 /\ created \in Int
    BY <1>2, RowFacts, CreatedInt
  <2>3. CASE row' = row /\ created' = created
    BY <1>2, <2>1, <2>3 DEF Past
  <2>4. CASE row' \in Rows /\ created' = created + 1 /\ row'.life = created'
    BY <1>2, <2>1, <2>2, <2>4 DEF Past
  <2>5. CASE /\ row' \in Rows /\ row \in Rows /\ created' = created
             /\ row'.life = row.life /\ row'.ver = row.ver + 1
    <3>1. row.ver \in Int
      BY <2>5, RowFacts
    <3> QED
      BY <1>2, <2>1, <2>2, <2>5, <3>1 DEF Past
  <2>6. CASE row' = NoRow /\ created' = created
    BY <1>2, <2>1, <2>2, <2>6, RowFacts DEF Past
  <2> QED
    BY <2>3, <2>4, <2>5, <2>6 DEF RowStep
<1> QED
  BY <1>1, <1>2 DEF Past

LEMMA RequestFacts ==
    \A r \in Requests \cup {NoRequest} :
       /\ r.base \in Rows \cup {NoRow} /\ r.base.life \in Int /\ r.base.ver \in Int
       /\ r.value \in BOOLEAN
       /\ \A life \in r.lives : life \in Int /\ life >= 1
<1>1. \A r \in Requests :
         /\ r.base \in Rows \cup {NoRow} /\ r.value \in BOOLEAN
         /\ \A life \in r.lives : life \in Int /\ life >= 1
  BY EditorsBounds DEF Requests
<1>2. /\ NoRequest.base \in Rows \cup {NoRow} /\ NoRequest.value \in BOOLEAN
      /\ NoRequest.lives = {}
  BY DEF NoRequest
<1> QED
  BY <1>1, <1>2, RowFacts

LEMMA RequestKept ==
    ASSUME TypeOK, NEW r \in Requests \cup {NoRequest}, RequestOK(r), RowStep
    PROVE  RequestOK(r)'
<1>1. Past(r.base)'
  BY PastKept DEF RequestOK
<1>2. r.verb \in {"put", "toggle", "flip", "delete"} => r.base \in Rows
  BY DEF RequestOK
<1>3. /\ r.base.life \in Int /\ r.base.ver \in Int
      /\ \A life \in r.lives : life \in Int /\ life >= 1
  BY RequestFacts
<1>4. created \in Int
  BY CreatedInt
<1>5. ASSUME r.verb = "flip", r.base.life = row'.life, r.base.ver = row'.ver
      PROVE  row' = row
  <2>1. /\ r.base \in Rows /\ r.base.life <= created /\ r.base.life >= 1
        /\ r.base.life = row.life => r.base.ver <= row.ver
    BY <1>2, <1>5, RowFacts DEF RequestOK, Past
  <2>2. ~ (row' \in Rows /\ created' = created + 1 /\ row'.life = created')
    BY <1>3, <1>4, <1>5, <2>1
  <2>3. ~ (row \in Rows /\ row'.life = row.life /\ row'.ver = row.ver + 1)
    BY <1>3, <1>5, <2>1, RowFacts
  <2>4. row' # NoRow
    BY <1>5, <2>1, RowFacts
  <2> QED
    BY <2>2, <2>3, <2>4 DEF RowStep
<1>6. (r.verb = "flip" /\ r.base.life = row'.life /\ r.base.ver = row'.ver)
         => r.value = ~ row'.value
  BY <1>5 DEF RequestOK
<1>7. ASSUME NEW life \in r.lives
      PROVE  life <= created' /\ (life = row'.life => row'.ver > r.base.ver)
  <2>1. /\ life <= created /\ (life = row.life => row.ver > r.base.ver)
        /\ life \in Int /\ life >= 1
    BY <1>3 DEF RequestOK
  <2>2. row \in Rows => row.ver \in Int
    BY RowFacts
  <2> QED
    BY <1>3, <1>4, <2>1, <2>2, RowFacts DEF RowStep
<1> QED
  BY <1>1, <1>2, <1>6, <1>7 DEF RequestOK

\* A step that keeps to RowStep, shows no row but the present one, and leaves or makes
\* requests that are right.
LEMMA HeldKept ==
    ASSUME TypeOK, Held, TypeOK', Latest', RowStep,
           \A d \in Editors : page'[d] = page[d] \/ page'[d] = row',
           \A d \in Editors : request'[d] = request[d] \/ RequestOK(request[d])'
    PROVE  Held'
<1> SUFFICES ASSUME NEW d \in Editors
             PROVE  Past(page[d])' /\ RequestOK(request[d])'
  BY DEF Held
<1>1. Past(page[d])'
  <2>1. CASE page'[d] = page[d]
    <3>1. PICK p : p = page[d]
      OBVIOUS
    <3>2. Past(p)
      BY <3>1 DEF Held
    <3>3. Past(p)'
      BY <3>2, PastKept
    <3> QED
      BY <2>1, <3>1, <3>3 DEF Past
  <2>2. CASE page'[d] = row'
    BY <2>2, RowFacts, CreatedInt, EditorsBounds DEF TypeOK, Latest, Past
  <2> QED
    BY <2>1, <2>2
<1>2. RequestOK(request[d])'
  <2>1. CASE request'[d] = request[d]
    <3>1. PICK r \in Requests \cup {NoRequest} : r = request[d]
      BY DEF TypeOK
    <3>2. RequestOK(r)
      BY <3>1 DEF Held
    <3>3. RequestOK(r)'
      BY <3>2, RequestKept
    <3> QED
      BY <2>1, <3>1, <3>3 DEF RequestOK, Past
  <2> QED
    BY <2>1
<1> QED
  BY <1>1, <1>2
-----------------------------------------------------------------------------
(* The editors: the row stays as it is. *)

LEMMA QuietPromises ==
    ASSUME accepted' = NoWrite
    PROVE  Promises'
BY RowFacts DEF Promises, NoBlindOverwrite, ToggleFlipsThePage, AppliedOnce, NoWrite,
                SameRecord

LEMMA QuietStep ==
    ASSUME Inv, row' = row, created' = created, accepted' = NoWrite,
           page' \in [Editors -> Rows \cup {NoRow}],
           request' \in [Editors -> Requests \cup {NoRequest}],
           \A d \in Editors : page'[d] = page[d] \/ page'[d] = row,
           \A d \in Editors : request'[d] = request[d] \/ RequestOK(request[d])'
    PROVE  Inv'
<1>1. TypeOK' /\ Latest' /\ RowStep
  BY DEF Inv, TypeOK, Latest, RowStep
<1>2. Held'
  BY <1>1, HeldKept DEF Inv
<1> QED
  BY <1>1, <1>2, QuietPromises DEF Inv

LEMMA LookStep == ASSUME Inv, NEW e \in Editors, Look(e) PROVE Inv'
<1>1. page' \in [Editors -> Rows \cup {NoRow}]
  BY DEF Look, Inv, TypeOK
<1>2. \A d \in Editors : page'[d] = page[d] \/ page'[d] = row
  BY DEF Look, Inv, TypeOK
<1> QED
  BY <1>1, <1>2, QuietStep DEF Look, Inv, TypeOK

LEMMA AskStep ==
    ASSUME Inv, NEW e \in Editors, NEW verb \in Verbs \ {"flip"}, NEW value \in BOOLEAN,
           Ask(e, verb, value)
    PROVE  Inv'
<1> DEFINE new == [verb |-> verb, value |-> value, base |-> page[e], lives |-> {}]
<1>1. page[e] \in Rows \cup {NoRow} /\ Past(page[e])
  BY DEF Inv, TypeOK, Held
<1>2. new \in Requests
  BY <1>1 DEF Requests, Verbs
<1>3. request' = [request EXCEPT ![e] = new]
  BY DEF Ask
<1>4. /\ new.base = page[e] /\ new.verb = verb /\ new.lives = {}
      /\ verb # "create" => page[e] \in Rows
  BY <1>1, RowFacts DEF Ask
<1> HIDE DEF new
<1>5. request'[e] = new /\ \A d \in Editors : d # e => request'[d] = request[d]
  BY <1>3 DEF Inv, TypeOK
<1>6. RequestOK(request[e])'
  BY <1>1, <1>4, <1>5 DEF RequestOK, Past, Ask
<1>7. \A d \in Editors : request'[d] = request[d] \/ RequestOK(request[d])'
  BY <1>5, <1>6
<1>8. request' \in [Editors -> Requests \cup {NoRequest}]
  BY <1>2, <1>3 DEF Inv, TypeOK
<1> QED
  BY <1>7, <1>8, QuietStep DEF Ask, Inv, TypeOK

LEMMA NoRequestOK == RequestOK(NoRequest)'
BY DEF RequestOK, Past, NoRequest

LEMMA GiveUpStep == ASSUME Inv, NEW e \in Editors, GiveUp(e) PROVE Inv'
<1>1. request' \in [Editors -> Requests \cup {NoRequest}]
  BY DEF GiveUp, Inv, TypeOK
<1>2. \A d \in Editors : request'[d] = request[d] \/ request'[d] = NoRequest
  BY DEF GiveUp, Inv, TypeOK
<1>3. \A d \in Editors : request'[d] = request[d] \/ RequestOK(request[d])'
  BY <1>2, NoRequestOK DEF RequestOK, Past
<1> QED
  BY <1>1, <1>3, QuietStep DEF GiveUp, Inv, TypeOK
-----------------------------------------------------------------------------
(* The server. *)

\* What an answer does to the page and to the request of its editor.
LEMMA AnswerEffect ==
    ASSUME TypeOK, NEW e \in Editors, NEW r \in Rows \cup {NoRow},
           NEW lives \in SUBSET (1 .. MaxIncarnations), ~ Idle(e), Answer(e, r, lives)
    PROVE  /\ page' \in [Editors -> Rows \cup {NoRow}]
           /\ request' \in [Editors -> Requests \cup {NoRequest}]
           /\ \A d \in Editors : page'[d] = page[d] \/ page'[d] = r
           /\ \A d \in Editors : d # e => request'[d] = request[d]
           /\ \/ request'[e] = NoRequest
              \/ /\ request'[e].base = request[e].base
                 /\ request'[e].lives = request[e].lives \cup lives
                 /\ request'[e].verb # "flip"
                 /\ request'[e].verb = request[e].verb
                       \/ (request[e].verb = "flip" /\ request'[e].verb = "toggle")
<1>1. request[e] \in Requests
  BY DEF TypeOK, Idle, NoRequest
<1>2. CASE /\ page' = [page EXCEPT ![e] = r]
           /\ request' = [request EXCEPT ![e] = NoRequest]
  BY <1>2 DEF TypeOK
<1>3. CASE /\ request' = [request EXCEPT ![e].lives = @ \cup lives,
                                        ![e].verb = IF @ = "flip" THEN "toggle" ELSE @]
           /\ UNCHANGED page
  <2> DEFINE verb == IF request[e].verb = "flip" THEN "toggle" ELSE request[e].verb
             more == request[e].lives \cup lives
             new == [request[e] EXCEPT !.lives = more, !.verb = verb]
  <2>1. request' = [request EXCEPT ![e] = new]
    BY <1>1, <1>3 DEF TypeOK, Requests
  <2>2. verb \in Verbs /\ verb # "flip" /\ more \in SUBSET (1 .. MaxIncarnations)
    BY <1>1 DEF Requests, Verbs
  <2>3. verb = request[e].verb \/ (request[e].verb = "flip" /\ verb = "toggle")
    OBVIOUS
  <2> HIDE DEF verb, more
  <2>4. /\ new \in Requests /\ new.base = request[e].base
        /\ new.lives = more /\ new.verb = verb
    BY <1>1, <2>2 DEF Requests
  <2> HIDE DEF new
  <2>5. request'[e] = new /\ \A d \in Editors : d # e => request'[d] = request[d]
    BY <2>1 DEF TypeOK
  <2>6. request' \in [Editors -> Requests \cup {NoRequest}]
    BY <2>1, <2>4 DEF TypeOK
  <2> QED
    BY <1>3, <2>2, <2>3, <2>4, <2>5, <2>6 DEF more, TypeOK
<1> QED
  BY <1>2, <1>3 DEF Answer

\* The request that is left behind is right, given the lives it was now applied to.
LEMMA RequestAfterAnswer ==
    ASSUME Inv, NEW e \in Editors, NEW r \in Rows \cup {NoRow},
           NEW lives \in SUBSET (1 .. MaxIncarnations), ~ Idle(e), Answer(e, r, lives),
           RowStep,
           \A life \in lives :
              life <= created' /\ (life = row'.life => row'.ver > request[e].base.ver)
    PROVE  \A d \in Editors : request'[d] = request[d] \/ RequestOK(request[d])'
<1>1. /\ \A d \in Editors : d # e => request'[d] = request[d]
      /\ \/ request'[e] = NoRequest
         \/ /\ request'[e].base = request[e].base
            /\ request'[e].lives = request[e].lives \cup lives
            /\ request'[e].verb # "flip"
            /\ request'[e].verb = request[e].verb
                  \/ (request[e].verb = "flip" /\ request'[e].verb = "toggle")
  BY AnswerEffect DEF Inv
<1>2. PICK q \in Requests \cup {NoRequest} : q = request[e]
  BY DEF Inv, TypeOK
<1>3. RequestOK(q)'
  BY <1>2, RequestKept DEF Inv, Held
<1>4. CASE request'[e] = NoRequest
  BY <1>1, <1>4, NoRequestOK DEF RequestOK, Past
<1>5. CASE /\ request'[e].base = q.base
           /\ request'[e].lives = q.lives \cup lives
           /\ request'[e].verb # "flip"
           /\ request'[e].verb = q.verb \/ (q.verb = "flip" /\ request'[e].verb = "toggle")
  <2>1. RequestOK(request[e])'
    BY <1>2, <1>3, <1>5 DEF RequestOK, Past
  <2> QED
    BY <1>1, <2>1
<1> QED
  BY <1>1, <1>2, <1>4, <1>5

\* A request that is turned down shows its editor the row as it is, or nothing.
LEMMA RefuseStep ==
    ASSUME Inv, NEW e \in Editors, ~ Idle(e), Refuse,
           Answer(e, page[e], {}) \/ Answer(e, row, {})
    PROVE  Inv'
<1> DEFINE r == IF Answer(e, page[e], {}) THEN page[e] ELSE row
<1>1. r \in Rows \cup {NoRow} /\ Answer(e, r, {}) /\ (r = page[e] \/ r = row)
  BY DEF Inv, TypeOK
<1> HIDE DEF r
<1>2. row' = row /\ created' = created /\ accepted' = NoWrite /\ RowStep
  BY DEF Refuse, RowStep
<1>3. /\ page' \in [Editors -> Rows \cup {NoRow}]
      /\ request' \in [Editors -> Requests \cup {NoRequest}]
      /\ \A d \in Editors : page'[d] = page[d] \/ page'[d] = r
  BY <1>1, AnswerEffect DEF Inv
<1>4. \A d \in Editors : request'[d] = request[d] \/ RequestOK(request[d])'
  BY <1>1, <1>2, RequestAfterAnswer
<1>5. \A d \in Editors : page'[d] = page[d] \/ page'[d] = row
  <2>1. CASE r = row
    BY <1>3, <2>1
  <2>2. CASE r = page[e]
    BY <1>1, <2>2 DEF Answer, Inv, TypeOK
  <2> QED
    BY <1>1, <2>1, <2>2
<1> QED
  BY <1>2, <1>3, <1>4, <1>5, QuietStep

\* A write that is accepted: what remains to be shown of it is that it keeps the promises.
LEMMA CommitStep ==
    ASSUME Inv, NEW e \in Editors, NEW verb \in Verbs, NEW new \in Rows \cup {NoRow},
           NEW lives \in SUBSET (1 .. MaxIncarnations),
           ~ Idle(e), Commit(e, verb, new), Answer(e, new, lives), RowStep,
           created' \in 0 .. MaxIncarnations, Latest',
           \A life \in lives :
              life <= created' /\ (life = new.life => new.ver > request[e].base.ver),
           Promises'
    PROVE  Inv'
<1>1. row' = new
  BY DEF Commit
<1>2. /\ page' \in [Editors -> Rows \cup {NoRow}]
      /\ request' \in [Editors -> Requests \cup {NoRequest}]
      /\ \A d \in Editors : page'[d] = page[d] \/ page'[d] = new
  BY AnswerEffect DEF Inv
<1>3. accepted' \in Writes
  <2>1. request[e].base \in Rows \cup {NoRow} /\ row \in Rows \cup {NoRow}
    BY RequestFacts DEF Inv, TypeOK
  <2> QED
    BY <2>1 DEF Commit, Writes
<1>4. TypeOK'
  BY <1>1, <1>2, <1>3 DEF TypeOK
<1>5. \A d \in Editors : request'[d] = request[d] \/ RequestOK(request[d])'
  BY <1>1, RequestAfterAnswer
<1>6. Held'
  BY <1>1, <1>2, <1>4, <1>5, HeldKept DEF Inv
<1> QED
  BY <1>4, <1>6 DEF Inv

\* The first version of an incarnation.
LEMMA CreateStep == ASSUME Inv, NEW e \in Editors, Create(e) PROVE Inv'
<1>1. ~ Idle(e) /\ "create" \in Verbs
  BY DEF Create, Idle, Verbs
<1>2. CASE Exists(row)
  BY <1>1, <1>2, RefuseStep DEF Create
<1>3. CASE ~ Exists(row)
  <2> DEFINE new == [life |-> created + 1, value |-> request[e].value, ver |-> 1]
  <2>1. /\ created < MaxIncarnations /\ created' = created + 1
        /\ Commit(e, "create", new) /\ Answer(e, new, {})
    BY <1>3 DEF Create
  <2>2. request[e].value \in BOOLEAN /\ created \in 0 .. MaxIncarnations
    BY RequestFacts DEF Inv, TypeOK
  <2>3. new \in Rows /\ new.life = created' /\ created' \in 0 .. MaxIncarnations
    BY <2>1, <2>2, EditorsBounds DEF Rows
  <2> HIDE DEF new
  <2>4. row = NoRow
    BY <1>3, RowFacts DEF Inv, TypeOK
  <2>5. row' = new
    BY <2>1 DEF Commit
  <2>6. RowStep /\ Latest'
    BY <2>1, <2>3, <2>5 DEF RowStep, Latest
  <2>7. /\ accepted'.verb = "create" /\ accepted'.over = NoRow
        /\ accepted'.again = (0 \in request[e].lives)
    BY <2>1, <2>4 DEF Commit, NoRow
  <2>8. 0 \notin request[e].lives
    BY RequestFacts DEF Inv, TypeOK
  <2>9. Promises'
    <3>1. NoBlindOverwrite' /\ ToggleFlipsThePage'
      <4>1. accepted'.base \in Rows \cup {NoRow}
        BY <2>1, RequestFacts DEF Commit, Inv, TypeOK
      <4> QED
        BY <2>7, <4>1, RowFacts DEF NoBlindOverwrite, ToggleFlipsThePage, SameRecord
    <3>2. AppliedOnce'
      BY <2>7, <2>8 DEF AppliedOnce
    <3> QED
      BY <3>1, <3>2 DEF Promises
  <2> QED
    BY <1>1, <2>1, <2>3, <2>6, <2>9, CommitStep
<1> QED
  BY <1>2, <1>3

\* What the version check gives to a request for a row that is there: the row it would
\* replace is the one of the page, or has become another incarnation; and the request
\* has not been applied to it before.
LEMMA AcceptedMeans ==
    ASSUME Inv, NEW e \in Editors, Exists(row), VersionAccepted(e),
           request[e].verb \in {"put", "toggle", "flip", "delete"}
    PROVE  /\ request[e].base \in Rows /\ row \in Rows
           /\ row.ver = request[e].base.ver
           /\ row.life = request[e].base.life => row = request[e].base
           /\ row.life \notin request[e].lives
           /\ (request[e].verb = "flip" /\ row.life = request[e].base.life)
                 => request[e].value = ~ row.value
<1>1. row \in Rows
  BY RowFacts DEF Inv, TypeOK
<1>2. RequestOK(request[e])
  BY DEF Inv, Held
<1>3. request[e].base \in Rows /\ request[e].base.ver > 0
  BY <1>2, RowFacts DEF RequestOK
<1>4. row.ver = request[e].base.ver
  BY <1>3 DEF VersionAccepted
<1>5. row.life = request[e].base.life => row = request[e].base
  BY <1>2, <1>3, <1>4, RowFacts DEF RequestOK, Past
<1>6. row.life \notin request[e].lives
  BY <1>1, <1>2, <1>4, RowFacts DEF RequestOK
<1> QED
  BY <1>1, <1>2, <1>3, <1>4, <1>5, <1>6 DEF RequestOK

\* The next version, written by a put or by the second half of a toggle.
LEMMA UpdateStep ==
    ASSUME Inv, NEW e \in Editors, NEW verb \in {"put", "toggle"},
           request[e].verb \in {"put", "flip"},
           verb = "toggle" <=> request[e].verb = "flip",
           Update(e, verb, request[e].value)
    PROVE  Inv'
<1>1. ~ Idle(e) /\ verb \in Verbs
  BY DEF Idle, Verbs
<1>2. CASE ~ Exists(row) \/ ~ VersionAccepted(e)
  BY <1>1, <1>2, RefuseStep DEF Update
<1>3. CASE Exists(row) /\ VersionAccepted(e)
  <2> DEFINE new == [row EXCEPT !.value = request[e].value, !.ver = @ + 1]
  <2>1. /\ row.ver < MaxVersion /\ created' = created
        /\ Commit(e, verb, new) /\ Answer(e, new, {row.life})
    BY <1>3 DEF Update
  <2>2. /\ request[e].base \in Rows /\ row \in Rows
        /\ row.ver = request[e].base.ver
        /\ row.life = request[e].base.life => row = request[e].base
        /\ row.life \notin request[e].lives
        /\ (request[e].verb = "flip" /\ row.life = request[e].base.life)
              => request[e].value = ~ row.value
    BY <1>3, AcceptedMeans
  <2>3. request[e].value \in BOOLEAN /\ created \in 0 .. MaxIncarnations
    BY RequestFacts DEF Inv, TypeOK
  <2>4. /\ new \in Rows /\ new.life = row.life /\ new.ver = row.ver + 1
        /\ new.value = request[e].value
    <3>1. row.ver + 1 \in 1 .. MaxVersion
      <4>1. row.ver \in 1 .. MaxVersion
        BY <2>2 DEF Rows
      <4> QED
        BY <4>1, <2>1, EditorsBounds
    <3>2. /\ DOMAIN row = {"life", "ver", "value"} /\ row.life \in 1 .. MaxIncarnations
          /\ row = [f \in DOMAIN row |-> row[f]]
      BY <2>2 DEF Rows
    <3>3. /\ new = [f \in DOMAIN new |-> new[f]] /\ DOMAIN new = {"life", "ver", "value"}
          /\ new.life = row.life /\ new.ver = row.ver + 1
          /\ new.value = request[e].value
      BY <3>2
    <3> HIDE DEF new
    <3>4. new \in Rows
      BY <3>1, <3>2, <3>3, <2>3 DEF Rows
    <3> QED
      BY <3>3, <3>4
  <2> HIDE DEF new
  <2>5. row' = new
    BY <2>1 DEF Commit
  <2>6. RowStep /\ Latest'
    BY <2>1, <2>2, <2>4, <2>5 DEF RowStep, Latest, Inv
  <2>7. /\ accepted'.verb = verb /\ accepted'.base = request[e].base
        /\ accepted'.over = row /\ accepted'.new = new
        /\ accepted'.again = (row.life \in request[e].lives)
    BY <2>1 DEF Commit
  <2>8. Promises'
    <3>1. NoBlindOverwrite'
      BY <2>2, <2>7 DEF NoBlindOverwrite, SameRecord
    <3>2. ToggleFlipsThePage'
      <4> SUFFICES ASSUME verb = "toggle", row.life = request[e].base.life
                   PROVE  new.value = ~ request[e].base.value
        BY <2>7 DEF ToggleFlipsThePage, SameRecord
      <4> QED
        BY <2>2, <2>4
    <3>3. AppliedOnce'
      BY <2>2, <2>7 DEF AppliedOnce
    <3> QED
      BY <3>1, <3>2, <3>3 DEF Promises
  <2>9. /\ {row.life} \in SUBSET (1 .. MaxIncarnations)
        /\ row.life <= created /\ new.ver > request[e].base.ver
    BY <2>2, <2>3, <2>4, RowFacts, EditorsBounds DEF Rows, Inv, Latest
  <2> QED
    BY <1>1, <2>1, <2>3, <2>4, <2>6, <2>8, <2>9, CommitStep
<1> QED
  BY <1>2, <1>3

\* The first half of a toggle: the value is the opposite of the row, whichever version
\* it has by now.
LEMMA ToggleReadStep == ASSUME Inv, NEW e \in Editors, ToggleRead(e) PROVE Inv'
<1>1. ~ Idle(e) /\ request[e] \in Requests /\ Refuse /\ request[e].verb = "toggle"
  BY DEF ToggleRead, Idle, Inv, TypeOK, NoRequest
<1>2. CASE ~ Exists(row)
  BY <1>1, <1>2, RefuseStep DEF ToggleRead
<1>3. CASE Exists(row)
  <2> DEFINE new == [request[e] EXCEPT !.verb = "flip", !.value = ~ row.value]
  <2>1. /\ request' = [request EXCEPT ![e] = new] /\ page' = page
        /\ row' = row /\ created' = created /\ accepted' = NoWrite
    BY <1>1, <1>3 DEF ToggleRead, Refuse, Inv, TypeOK
  <2>2. row.value \in BOOLEAN
    BY <1>3, RowFacts DEF Inv, TypeOK
  <2>3. /\ new \in Requests /\ new.verb = "flip" /\ new.base = request[e].base
        /\ new.lives = request[e].lives
    BY <1>1, <2>2 DEF Requests, Verbs
  <2>v. new.value = ~ row.value
    BY <1>1 DEF Requests
  <2> HIDE DEF new
  <2>4. request'[e] = new /\ \A d \in Editors : d # e => request'[d] = request[d]
    BY <2>1 DEF Inv, TypeOK
  <2>5. RequestOK(request[e])'
    <3>1. RequestOK(request[e])
      BY DEF Inv, Held
    <3> QED
      BY <1>1, <2>1, <2>3, <2>v, <2>4, <3>1 DEF RequestOK, Past
  <2>6. request' \in [Editors -> Requests \cup {NoRequest}]
    BY <2>1, <2>3 DEF Inv, TypeOK
  <2> QED
    BY <2>1, <2>4, <2>5, <2>6, QuietStep DEF Inv, TypeOK
<1> QED
  BY <1>2, <1>3

LEMMA DeleteStep == ASSUME Inv, NEW e \in Editors, Delete(e) PROVE Inv'
<1>1. ~ Idle(e) /\ "delete" \in Verbs /\ request[e].verb = "delete"
  BY DEF Delete, Idle, Verbs
<1>2. CASE ~ (Exists(row) /\ VersionAccepted(e))
  BY <1>1, <1>2, RefuseStep DEF Delete
<1>3. CASE Exists(row) /\ VersionAccepted(e)
  <2>1. /\ created' = created
        /\ Commit(e, "delete", NoRow) /\ Answer(e, NoRow, {row.life})
    BY <1>3 DEF Delete
  <2>2. /\ row \in Rows
        /\ row.life = request[e].base.life => row = request[e].base
        /\ row.life \notin request[e].lives
    BY <1>1, <1>3, AcceptedMeans
  <2>3. row' = NoRow
    BY <2>1 DEF Commit
  <2>4. RowStep /\ Latest'
    BY <2>1, <2>3, RowFacts DEF RowStep, Latest
  <2>5. Promises'
    BY <2>1, <2>2
       DEF Commit, Promises, NoBlindOverwrite, ToggleFlipsThePage, AppliedOnce, SameRecord
  <2>6. /\ {row.life} \in SUBSET (1 .. MaxIncarnations)
        /\ row.life <= created /\ row.life # NoRow.life
        /\ created \in 0 .. MaxIncarnations
    BY <2>2, RowFacts, EditorsBounds DEF Rows, Inv, Latest, TypeOK
  <2> QED
    BY <1>1, <2>1, <2>4, <2>5, <2>6, CommitStep
<1> QED
  BY <1>2, <1>3
-----------------------------------------------------------------------------
LEMMA EditorsStep == Inv /\ [Next]_vars => Inv'
<1> SUFFICES ASSUME Inv, [Next]_vars
             PROVE  Inv'
  OBVIOUS
<1>1. ASSUME NEW e \in Editors, Look(e) \/ GiveUp(e)
      PROVE  Inv'
  BY <1>1, LookStep, GiveUpStep
<1>2. ASSUME NEW e \in Editors, NEW verb \in Verbs \ {"flip"}, NEW value \in BOOLEAN,
             Ask(e, verb, value)
      PROVE  Inv'
  BY <1>2, AskStep
<1>3. ASSUME NEW e \in Editors, Create(e) \/ ToggleRead(e) \/ Delete(e)
      PROVE  Inv'
  BY <1>3, CreateStep, ToggleReadStep, DeleteStep
<1>4. ASSUME NEW e \in Editors, Put(e)
      PROVE  Inv'
  BY <1>4, UpdateStep DEF Put
<1>5. ASSUME NEW e \in Editors, ToggleWrite(e)
      PROVE  Inv'
  BY <1>5, UpdateStep DEF ToggleWrite
<1>6. CASE UNCHANGED vars
  BY <1>6 DEF vars, Inv, TypeOK, Latest, Held, Past, RequestOK, Promises, NoBlindOverwrite,
              ToggleFlipsThePage, AppliedOnce, SameRecord
<1> QED
  BY <1>1, <1>2, <1>3, <1>4, <1>5, <1>6 DEF Next

LEMMA EditorsInvariant == Spec => []Inv
<1>1. Init => Inv
  BY InitInv
<1>2. Inv /\ [Next]_vars => Inv'
  BY EditorsStep
<1> QED
  BY <1>1, <1>2, PTL DEF Spec

\* Rows, pages and requests keep their shape, versions and incarnations their bounds.
THEOREM EditorsTypeCorrect == Spec => []TypeOK
<1>1. Inv => TypeOK
  BY DEF Inv
<1> QED
  BY <1>1, EditorsInvariant, PTL

\* With any number of editors and pages of any age, an accepted write replaces exactly
\* the row its page showed, unless the record was deleted and made again.
THEOREM NoBlindOverwriteCorrect == Spec => []NoBlindOverwrite
<1>1. Inv => NoBlindOverwrite
  BY DEF Inv, Promises
<1> QED
  BY <1>1, EditorsInvariant, PTL

\* The value a toggle takes from its own read is the opposite of the one on the page.
THEOREM ToggleFlipsThePageCorrect == Spec => []ToggleFlipsThePage
<1>1. Inv => ToggleFlipsThePage
  BY DEF Inv, Promises
<1> QED
  BY <1>1, EditorsInvariant, PTL

\* However often a request is repeated after lost answers, no record takes it twice.
THEOREM AppliedOnceCorrect == Spec => []AppliedOnce
<1>1. Inv => AppliedOnce
  BY DEF Inv, Promises
<1> QED
  BY <1>1, EditorsInvariant, PTL
=============================================================================
