---------------------------- MODULE PollingProofs ----------------------------
(* A 304 is never wrong: proved for Polling, for every value of its constants. *)
(* At the end, what a 200 without a filter says, with the history of a request. *)
EXTENDS SnapshotHistory, TLAPS

(***************************************************************************)
(* The inductive invariant.  What a handler or a client holds stands for a  *)
(* stamp; as long as the environment lives that stamp is not ahead of the   *)
(* environment's, and when the two are equal, nothing has been written      *)
(* since, so that every table read so far is still what it was.             *)
(***************************************************************************)
Current(g) == alive /\ g = generation

\* The tables a handler has read by now.
Read(r, kind) ==
    /\ Lists(r.url.endpoint, kind)
    /\ r.at = "reply" \/ (r.at = "config" /\ kind = "flag")

Unread(r) == \A kind \in Kinds : ~ Read(r, kind) => r.body[kind] = EmptyBody

RequestFaithful(r) ==
    /\ r.at # "idle" => Unread(r)
    /\ r.at \in {"flag", "config", "reply"} =>
       /\ r.etag.filter = r.url.filter
       /\ r.generation <= generation
       /\ r.at # "reply" => Lists(r.url.endpoint, r.at)
       /\ Current(r.generation) =>
             /\ r.etag.stamp <= stamp
             /\ r.etag.stamp = stamp =>
                   \A kind \in Kinds :
                      Read(r, kind) => r.body[kind] = content[kind][r.url.filter]

EntryFaithful(entry, u) ==
    entry.held =>
       /\ entry.etag.filter = u.filter
       /\ entry.generation <= generation
       /\ Current(entry.generation) =>
             /\ entry.etag.stamp <= stamp
             /\ entry.etag.stamp = stamp => entry.body = Answer(content, u)

Faithful ==
    /\ \A c \in Clients : RequestFaithful(req[c])
    /\ \A c \in Clients, u \in Urls : EntryFaithful(cache[c][u], u)

LEMMA FaithfulIsEnough == TypeOK /\ Faithful => NoStale304
<1> SUFFICES ASSUME TypeOK, Faithful, NEW c \in Clients, NEW u \in Urls, NEW x \in Urls,
                    WouldMatch(c, u, x)
             PROVE  cache[c][u].held /\ cache[c][u].body = Answer(content, u)
  BY DEF NoStale304
<1>1. /\ cache[c][x].held /\ x.endpoint = u.endpoint
      /\ Current(cache[c][x].generation)
      /\ cache[c][x].etag.stamp = stamp
      /\ cache[c][x].etag.filter = u.filter
  BY DEF WouldMatch, Current, FilteredETag
<1>2. EntryFaithful(cache[c][x], x)
  BY DEF Faithful
<1>3. x.filter = u.filter /\ cache[c][x].body = Answer(content, x)
  BY <1>1, <1>2 DEF EntryFaithful
<1>4. x = u
  BY <1>1, <1>3, PollingConstants
<1> QED
  BY <1>1, <1>3, <1>4
-----------------------------------------------------------------------------
(* Types. *)

LEMMA InitPolling == Init => TypeOK /\ Faithful
<1> SUFFICES ASSUME Init
             PROVE  TypeOK /\ Faithful
  OBVIOUS
<1>1. EmptyBody \in Bodies /\ NoTag \in Filters /\ 0 \in Stamps /\ 0 \in Generations
  BY EnvStoreConstants, PollingConstants DEF Stamps, Generations
<1>2. NoParts \in Parts /\ FilteredETag(0, NoTag) \in ETags
  BY <1>1 DEF NoParts, Parts, FilteredETag, ETags
<1>3. NoEntry \in Entries /\ ~ NoEntry.held
  BY <1>1, <1>2 DEF NoEntry, Entries
<1>4. StoreTypeOK
  BY <1>1 DEF Init, StoreInit, StoreTypeOK, Nothing, Views
<1>5. \A u \in Urls : /\ Request("idle", u, {}) \in Requests
                      /\ Request("idle", u, {}).at = "idle"
  BY <1>1, <1>2 DEF Request, Requests
<1>6. \A c \in Clients : req[c] \in Requests /\ req[c].at = "idle"
  BY <1>5 DEF Init
<1>7. TypeOK
  <2>1. req \in [Clients -> Requests]
    BY <1>6 DEF Init
  <2>2. cache \in [Clients -> [Urls -> Entries]]
    BY <1>3 DEF Init
  <2> QED
    BY <2>1, <2>2, <1>1, <1>4 DEF Init, TypeOK
<1>8. Faithful
  BY <1>3, <1>6 DEF Init, Faithful, RequestFaithful, EntryFaithful
<1> QED
  BY <1>7, <1>8

\* Replacing the request of one client.
LEMMA RequestReplaced ==
    ASSUME TypeOK, NEW c \in Clients, NEW new \in Requests,
           req' = [req EXCEPT ![c] = new]
    PROVE  /\ req' \in [Clients -> Requests]
           /\ req'[c] = new
           /\ \A d \in Clients : d # c => req'[d] = req[d]
BY DEF TypeOK

\* The same, for a step that leaves the environment and the caches alone.
LEMMA RequestStep ==
    ASSUME TypeOK, Faithful, NEW c \in Clients, NEW new \in Requests,
           RequestFaithful(new), req' = [req EXCEPT ![c] = new], UNCHANGED Answered
    PROVE  TypeOK' /\ Faithful'
<1> USE RequestReplaced
<1>1. UNCHANGED <<alive, stamp, content, generation, keyOf, revoked, cache>>
  BY DEF Answered, storeVars
<1>2. TypeOK'
  BY <1>1 DEF TypeOK, StoreTypeOK
<1>3. \A d \in Clients : RequestFaithful(req[d]) /\ (req'[d] = new \/ req'[d] = req[d])
  BY DEF Faithful
<1>4. \A d \in Clients : RequestFaithful(req[d])'
  <2> SUFFICES ASSUME NEW d \in Clients
               PROVE  RequestFaithful(req[d])'
    OBVIOUS
  <2>1. CASE req'[d] = new
    BY <2>1, <1>1 DEF RequestFaithful, Unread, Current, Read
  <2>2. CASE req'[d] = req[d]
    BY <2>2, <1>1, <1>3 DEF RequestFaithful, Unread, Current, Read
  <2> QED
    BY <2>1, <2>2, <1>3
<1>5. \A d \in Clients, u \in Urls : EntryFaithful(cache[d][u], u)'
  BY <1>1 DEF Faithful, EntryFaithful, Current, Answer
<1> QED
  BY <1>2, <1>4, <1>5 DEF Faithful
-----------------------------------------------------------------------------
(* The environment moves on. *)

\* What every step of the environment keeps to: its stamp goes up when it is
\* written to, and the id only comes to life again for a new generation.
Moves ==
    /\ generation <= generation'
    /\ alive' => \/ generation < generation'
                 \/ /\ alive
                    /\ \/ stamp < stamp'
                       \/ stamp' = stamp /\ content' = content

LEMMA StoreStep ==
    ASSUME TypeOK, Faithful, Moves, StoreTypeOK', generation' \in Generations,
           UNCHANGED <<cache, req>>
    PROVE  Faithful'
<1>n. /\ stamp \in Int /\ stamp' \in Int
      /\ generation \in Int /\ generation' \in Int
      /\ \A c \in Clients : req[c] \in Requests
      /\ \A c \in Clients, u \in Urls : cache[c][u] \in Entries
  BY EnvStoreConstants, PollingConstants
     DEF TypeOK, StoreTypeOK, Stamps, Generations
<1>m. /\ \A r \in Requests : r.etag.stamp \in Int /\ r.generation \in Int
      /\ \A x \in Entries : x.etag.stamp \in Int /\ x.generation \in Int
  BY EnvStoreConstants, PollingConstants
     DEF Requests, Entries, ETags, Stamps, Generations
<1>1. ASSUME NEW g \in Int, g <= generation, Current(g)'
      PROVE  /\ Current(g)
             /\ stamp < stamp' \/ (stamp' = stamp /\ content' = content)
  BY <1>1, <1>n DEF Moves, Current
<1>2. ASSUME NEW c \in Clients
      PROVE  RequestFaithful(req[c])'
  <2>r. PICK r \in Requests : r = req[c]
    BY <1>n
  <2>1. /\ RequestFaithful(r) /\ req'[c] = r
        /\ r.etag.stamp \in Int /\ r.generation \in Int
    BY <2>r, <1>m DEF Faithful
  <2> SUFFICES ASSUME r.at \in {"flag", "config", "reply"}
               PROVE  /\ r.etag.filter = r.url.filter
                      /\ r.generation <= generation'
                      /\ r.at # "reply" => Lists(r.url.endpoint, r.at)
                      /\ Current(r.generation)' =>
                            /\ r.etag.stamp <= stamp'
                            /\ r.etag.stamp = stamp' =>
                                  \A kind \in Kinds : Read(r, kind) =>
                                     r.body[kind] = content'[kind][r.url.filter]
    BY <2>1 DEF RequestFaithful, Unread, Read, Current
  <2>2. /\ r.etag.filter = r.url.filter
        /\ r.generation <= generation'
        /\ r.at # "reply" => Lists(r.url.endpoint, r.at)
    BY <2>1, <1>n DEF RequestFaithful, Moves
  <2>3. ASSUME Current(r.generation)'
        PROVE  /\ r.etag.stamp <= stamp'
               /\ r.etag.stamp = stamp' =>
                     \A kind \in Kinds : Read(r, kind) =>
                        r.body[kind] = content'[kind][r.url.filter]
    <3>1. r.generation <= generation
      BY <2>1 DEF RequestFaithful
    <3>2. /\ Current(r.generation)
          /\ stamp < stamp' \/ (stamp' = stamp /\ content' = content)
      BY <3>1, <2>1, <2>3, <1>1
    <3>3. /\ r.etag.stamp <= stamp
          /\ r.etag.stamp = stamp =>
                \A kind \in Kinds : Read(r, kind) =>
                   r.body[kind] = content[kind][r.url.filter]
      BY <3>2, <2>1 DEF RequestFaithful
    <3>4. CASE stamp < stamp'
      BY <3>3, <3>4, <2>1, <1>n
    <3>5. CASE stamp' = stamp /\ content' = content
      BY <3>3, <3>5
    <3> QED
      BY <3>2, <3>4, <3>5
  <2> QED
    BY <2>2, <2>3
<1>3. ASSUME NEW c \in Clients, NEW u \in Urls
      PROVE  EntryFaithful(cache[c][u], u)'
  <2>x. PICK x \in Entries : x = cache[c][u]
    BY <1>n
  <2>1. /\ EntryFaithful(x, u) /\ cache'[c][u] = x
        /\ x.etag.stamp \in Int /\ x.generation \in Int
    BY <2>x, <1>m DEF Faithful
  <2> SUFFICES ASSUME x.held
               PROVE  /\ x.etag.filter = u.filter
                      /\ x.generation <= generation'
                      /\ Current(x.generation)' =>
                            /\ x.etag.stamp <= stamp'
                            /\ x.etag.stamp = stamp' => x.body = Answer(content', u)
    BY <2>1 DEF EntryFaithful, Current, Answer
  <2>2. x.etag.filter = u.filter /\ x.generation <= generation'
    BY <2>1, <1>n DEF EntryFaithful, Moves
  <2>3. ASSUME Current(x.generation)'
        PROVE  /\ x.etag.stamp <= stamp'
               /\ x.etag.stamp = stamp' => x.body = Answer(content', u)
    <3>1. x.generation <= generation
      BY <2>1 DEF EntryFaithful
    <3>2. /\ Current(x.generation)
          /\ stamp < stamp' \/ (stamp' = stamp /\ content' = content)
      BY <3>1, <2>1, <2>3, <1>1
    <3>3. /\ x.etag.stamp <= stamp
          /\ x.etag.stamp = stamp => x.body = Answer(content, u)
      BY <3>2, <2>1 DEF EntryFaithful
    <3>4. CASE stamp < stamp'
      BY <3>3, <3>4, <2>1, <1>n
    <3>5. CASE stamp' = stamp /\ content' = content
      BY <3>3, <3>5
    <3> QED
      BY <3>2, <3>4, <3>5
  <2> QED
    BY <2>2, <2>3
<1> QED
  BY <1>2, <1>3 DEF Faithful

LEMMA EnvironmentStep ==
    ASSUME TypeOK, Faithful,
           CreateEnvironment \/ DeleteEnvironment \/ Write
    PROVE  TypeOK' /\ Faithful'
<1>n. stamp \in Int /\ generation \in Int
  BY EnvStoreConstants, PollingConstants
     DEF TypeOK, StoreTypeOK, Stamps, Generations
<1>c. UNCHANGED <<keyOf, revoked, cache, req>>
  BY DEF CreateEnvironment, DeleteEnvironment, Write
<1>1. CASE CreateEnvironment
  <2>1. StoreTypeOK' /\ generation' \in Generations
    BY <1>1, PollingConstants
       DEF CreateEnvironment, Create, TypeOK, StoreTypeOK, Generations
  <2>2. Moves
    BY <1>1, <1>n DEF CreateEnvironment, Moves
  <2> QED
    BY <2>1, <2>2, <1>c, StoreStep DEF TypeOK
<1>2. CASE DeleteEnvironment
  <2>1. 0 \in Stamps /\ Nothing \in [Kinds -> Views]
    BY EnvStoreConstants DEF Stamps, Nothing, Views
  <2>2. StoreTypeOK' /\ generation' \in Generations
    BY <1>2, <2>1 DEF DeleteEnvironment, Delete, TypeOK, StoreTypeOK
  <2>3. Moves
    BY <1>2, <1>n DEF DeleteEnvironment, Delete, Moves
  <2> QED
    BY <2>2, <2>3, <1>c, StoreStep DEF TypeOK
<1>3. CASE Write
  <2>g. generation' = generation
    BY <1>3 DEF Write
  <2>1. CASE \E kind \in Kinds : Change(kind)
    <3>1. StoreTypeOK'
      BY <2>1 DEF Change, TypeOK, StoreTypeOK
    <3>2. Moves
      BY <2>1, <2>g, <1>n DEF Change, Moves
    <3> QED
      BY <3>1, <3>2, <2>g, <1>c, StoreStep DEF TypeOK
  <2>2. CASE \E filter \in Filters : RemoveTag(filter)
    <3>1. StoreTypeOK'
      BY <2>2, EnvStoreConstants DEF RemoveTag, TypeOK, StoreTypeOK, Views
    <3>2. Moves
      BY <2>2, <2>g, <1>n DEF RemoveTag, Moves
    <3> QED
      BY <3>1, <3>2, <2>g, <1>c, StoreStep DEF TypeOK
  <2> QED
    BY <1>3, <2>1, <2>2 DEF Write
<1> QED
  BY <1>1, <1>2, <1>3
-----------------------------------------------------------------------------
(* The keys. *)

LEMMA KeyStep ==
    ASSUME TypeOK, Faithful, NEW c \in Clients, CreateAPIKey(c) \/ RevokeAPIKey(c)
    PROVE  TypeOK' /\ Faithful'
<1>1. UNCHANGED <<alive, stamp, content, generation, cache, req>>
  BY DEF CreateAPIKey, RevokeAPIKey, storeVars
<1>2. keyOf' \in [Clients -> Generations] /\ revoked' \subseteq Clients
  BY DEF CreateAPIKey, RevokeAPIKey, TypeOK
<1>3. TypeOK'
  BY <1>1, <1>2 DEF TypeOK, StoreTypeOK
<1>4. Faithful'
  BY <1>1 DEF Faithful, RequestFaithful, Unread, EntryFaithful, Current, Read,
                Answer
<1> QED
  BY <1>3, <1>4
-----------------------------------------------------------------------------
(* The requests. *)

LEMMA FreshRequest ==
    ASSUME NEW at \in {"idle", "auth"}, NEW u \in Urls, NEW inm \in SUBSET ETags
    PROVE  /\ Request(at, u, inm) \in Requests
           /\ RequestFaithful(Request(at, u, inm))
<1>1. EmptyBody \in Bodies /\ NoTag \in Filters /\ 0 \in Stamps /\ 0 \in Generations
  BY EnvStoreConstants, PollingConstants DEF Stamps, Generations
<1>2. NoParts \in Parts /\ FilteredETag(0, NoTag) \in ETags
  BY <1>1 DEF NoParts, Parts, FilteredETag, ETags
<1> QED
  BY <1>1, <1>2 DEF Request, Requests, RequestFaithful, Unread, NoParts

LEMMA IdleRequest ==
    ASSUME TypeOK, NEW c \in Clients
    PROVE  Idle(c) \in Requests /\ RequestFaithful(Idle(c))
<1>1. req[c].url \in Urls
  BY DEF TypeOK, Requests
<1> QED
  BY <1>1, FreshRequest DEF Idle

LEMMA PollStep ==
    ASSUME TypeOK, Faithful, NEW c \in Clients, NEW u \in Urls, Poll(c, u)
    PROVE  TypeOK' /\ Faithful'
<1>1. PICK inm \in SUBSET Kept(c, u.endpoint) :
         req' = [req EXCEPT ![c] = Request("auth", u, inm)]
  BY DEF Poll
<1>2. inm \in SUBSET ETags
  <2>1. \A x \in Urls : cache[c][x].etag \in ETags
    BY DEF TypeOK, Entries
  <2> QED
    BY <2>1 DEF Kept
<1>3. /\ Request("auth", u, inm) \in Requests
      /\ RequestFaithful(Request("auth", u, inm))
  BY <1>2, FreshRequest
<1> QED
  BY <1>1, <1>3, RequestStep DEF Poll

LEMMA AuthenticateStep ==
    ASSUME TypeOK, Faithful, NEW c \in Clients, Authenticate(c)
    PROVE  TypeOK' /\ Faithful'
<1> DEFINE r == req[c]
           new == [r EXCEPT !.at = "env"]
<1>1. r \in Requests /\ r.at = "auth" /\ RequestFaithful(r)
  BY DEF TypeOK, Faithful, Authenticate
<1>2. new \in Requests /\ new.at = "env" /\ new.body = r.body
  BY <1>1 DEF Requests
<1>3. RequestFaithful(new)
  BY <1>1, <1>2 DEF RequestFaithful, Unread, Read
<1>4. req' = [req EXCEPT ![c] = new] \/ req' = [req EXCEPT ![c] = Idle(c)]
  BY DEF Authenticate
<1> HIDE DEF new
<1> QED
  BY <1>2, <1>3, <1>4, IdleRequest, RequestStep DEF Authenticate

\* The ETag is the stamp of this very moment, and nothing has been read yet.
LEMMA LoadStep ==
    ASSUME TypeOK, Faithful, NEW c \in Clients, LoadEnvironment(c)
    PROVE  TypeOK' /\ Faithful'
<1> DEFINE r == req[c]
           etag == FilteredETag(stamp, r.url.filter)
           at == FirstRead(r.url)
           new == [r EXCEPT !.at = at, !.etag = etag, !.generation = generation]
<1>1. /\ r \in Requests /\ r.at = "env" /\ RequestFaithful(r)
      /\ r.url \in [endpoint : Endpoints, filter : Filters]
  BY PollingConstants DEF TypeOK, Requests, Faithful, LoadEnvironment
<1>2. stamp \in Stamps /\ generation \in Generations /\ stamp \in Int /\ generation \in Int
  BY EnvStoreConstants, PollingConstants
     DEF TypeOK, StoreTypeOK, Stamps, Generations
<1>3. etag \in ETags /\ etag.stamp = stamp /\ etag.filter = r.url.filter
  BY <1>1, <1>2 DEF FilteredETag, ETags
<1>4. at \in {"flag", "config"} /\ Lists(r.url.endpoint, at)
      /\ (at = "config" => ~ Lists(r.url.endpoint, "flag"))
  BY <1>1 DEF FirstRead, Lists, Endpoints, Singles
<1>5. \A kind \in Kinds : r.body[kind] = EmptyBody
  BY <1>1 DEF RequestFaithful, Unread, Read
<1>6. req' = [req EXCEPT ![c] = new] \/ req' = [req EXCEPT ![c] = Idle(c)]
  BY DEF LoadEnvironment
<1> HIDE DEF etag, at
<1>7. /\ new \in Requests
      /\ new.at = at /\ new.url = r.url /\ new.etag = etag /\ new.body = r.body
      /\ new.generation = generation
  BY <1>1, <1>2, <1>3, <1>4 DEF Requests
<1> HIDE DEF new
<1>8. \A kind \in Kinds : ~ Read(new, kind)
  BY <1>4, <1>7 DEF Read, Kinds
<1>9. RequestFaithful(new)
  BY <1>2, <1>3, <1>4, <1>5, <1>7, <1>8 DEF RequestFaithful, Unread
<1> QED
  BY <1>6, <1>7, <1>9, IdleRequest, RequestStep DEF LoadEnvironment

\* One more table is read: as long as the stamp has not moved, neither has what
\* was read before.
LEMMA ReadStep ==
    ASSUME TypeOK, Faithful, NEW c \in Clients, NEW kind \in Kinds, NEW at,
           req[c].at = kind, at \in {"config", "reply"}, at # kind,
           at = "config" => Lists(req[c].url.endpoint, "config"),
           at = "reply" /\ kind = "flag" => ~ Lists(req[c].url.endpoint, "config"),
           req' = [req EXCEPT ![c] =
              [req[c] EXCEPT !.body = [@ EXCEPT ![kind] = content[kind][req[c].url.filter]],
                             !.at = at]],
           UNCHANGED Answered
    PROVE  TypeOK' /\ Faithful'
<1> DEFINE r == req[c]
           body == [r.body EXCEPT ![kind] = content[kind][r.url.filter]]
           new == [r EXCEPT !.body = body, !.at = at]
<1>1. /\ r \in Requests /\ r.at = kind /\ RequestFaithful(r)
      /\ r.url \in [endpoint : Endpoints, filter : Filters] /\ r.body \in Parts
  BY PollingConstants DEF TypeOK, Requests, Faithful
<1>2. content[kind][r.url.filter] \in Bodies
  BY <1>1 DEF TypeOK, StoreTypeOK, Views
<1>3. /\ body \in Parts
      /\ body[kind] = content[kind][r.url.filter]
      /\ \A other \in Kinds : other # kind => body[other] = r.body[other]
  BY <1>1, <1>2 DEF Parts
<1> HIDE DEF body
<1>4. /\ new \in Requests
      /\ new.at = at /\ new.url = r.url /\ new.etag = r.etag /\ new.body = body
      /\ new.generation = r.generation
  BY <1>1, <1>3 DEF Requests
<1>5. req' = [req EXCEPT ![c] = new]
  BY DEF body
<1> HIDE DEF new
<1>6. \A other \in Kinds :
         /\ Read(new, other) => other = kind \/ Read(r, other)
         /\ ~ Read(new, other) => other # kind /\ ~ Read(r, other)
  BY <1>1, <1>4 DEF Read, Kinds, RequestFaithful
<1>7. RequestFaithful(new)
  BY <1>1, <1>3, <1>4, <1>6 DEF RequestFaithful, Unread, Kinds
<1> QED
  BY <1>4, <1>5, <1>7, RequestStep

LEMMA ReadFlagsStep ==
    ASSUME TypeOK, Faithful, NEW c \in Clients, ReadFlags(c)
    PROVE  TypeOK' /\ Faithful'
<1> DEFINE r == req[c]
           at == IF Lists(r.url.endpoint, "config") THEN "config" ELSE "reply"
<1>1. r.at = "flag" /\ UNCHANGED Answered
  BY DEF ReadFlags
<1>2. req' = [req EXCEPT ![c] =
         [r EXCEPT !.body = [@ EXCEPT !["flag"] = content["flag"][r.url.filter]],
                   !.at = at]]
  BY DEF ReadFlags, TypeOK, Requests
<1>3. /\ at \in {"config", "reply"} /\ at # "flag" /\ "flag" \in Kinds
      /\ at = "config" => Lists(r.url.endpoint, "config")
      /\ at = "reply" => ~ Lists(r.url.endpoint, "config")
  BY DEF Kinds
<1> HIDE DEF at
<1> QED
  BY <1>1, <1>2, <1>3, ReadStep

LEMMA ReadConfigsStep ==
    ASSUME TypeOK, Faithful, NEW c \in Clients, ReadConfigs(c)
    PROVE  TypeOK' /\ Faithful'
<1> DEFINE r == req[c]
<1>1. r.at = "config" /\ UNCHANGED Answered
  BY DEF ReadConfigs
<1>2. req' = [req EXCEPT ![c] =
         [r EXCEPT !.body = [@ EXCEPT !["config"] = content["config"][r.url.filter]],
                   !.at = "reply"]]
  BY DEF ReadConfigs, TypeOK, Requests
<1>3. "config" \in Kinds
  BY DEF Kinds
<1> QED
  BY <1>1, <1>2, <1>3, ReadStep

\* Everything the endpoint lists has been read: the body is its answer, if the
\* stamp is still the one in the ETag.
LEMMA ReplyStep ==
    ASSUME TypeOK, Faithful, NEW c \in Clients, Reply(c)
    PROVE  TypeOK' /\ Faithful'
<1> DEFINE r == req[c]
           entry == [held |-> TRUE, etag |-> r.etag, body |-> r.body,
                     generation |-> r.generation]
<1>1. r \in Requests /\ r.at = "reply" /\ RequestFaithful(r) /\ r.url \in Urls
  BY DEF TypeOK, Requests, Faithful, Reply
<1>2. /\ entry \in Entries
      /\ entry.etag = r.etag /\ entry.body = r.body /\ entry.generation = r.generation
  BY <1>1 DEF Entries, Requests
<1>3. EntryFaithful(entry, r.url)
  <2>1. ASSUME \A kind \in Kinds :
                  Read(r, kind) => r.body[kind] = content[kind][r.url.filter]
        PROVE  r.body = Answer(content, r.url)
    <3>1. r.body \in Parts
      BY <1>1 DEF Requests
    <3>2. \A kind \in Kinds : Read(r, kind) <=> Lists(r.url.endpoint, kind)
      BY <1>1 DEF Read
    <3>3. \A kind \in Kinds : r.body[kind] = Answer(content, r.url)[kind]
      BY <1>1, <2>1, <3>2 DEF Answer, RequestFaithful, Unread
    <3> QED
      BY <3>1, <3>3 DEF Parts, Answer
  <2> HIDE DEF entry
  <2> QED
    BY <1>1, <1>2, <2>1 DEF EntryFaithful, RequestFaithful
<1>4. /\ cache' = [cache EXCEPT ![c] = [@ EXCEPT ![r.url] = entry]]
      /\ req' = [req EXCEPT ![c] = Idle(c)]
      /\ UNCHANGED <<alive, stamp, content, generation, keyOf, revoked>>
  BY DEF Reply, storeVars
<1> HIDE DEF entry
<1>5. /\ cache' \in [Clients -> [Urls -> Entries]]
      /\ cache'[c][r.url] = entry
      /\ \A d \in Clients, u \in Urls :
            d # c \/ u # r.url => cache'[d][u] = cache[d][u]
  BY <1>1, <1>2, <1>4 DEF TypeOK
<1>6. Idle(c) \in Requests /\ Idle(c).at = "idle"
  BY IdleRequest DEF Idle, Request
<1>7. /\ req' \in [Clients -> Requests]
      /\ \A d \in Clients : req'[d] = Idle(c) \/ req'[d] = req[d]
  BY <1>4, <1>6, RequestReplaced
<1>8. TypeOK'
  BY <1>4, <1>5, <1>7 DEF TypeOK, StoreTypeOK
<1>9. \A d \in Clients : RequestFaithful(req[d])'
  <2> SUFFICES ASSUME NEW d \in Clients
               PROVE  RequestFaithful(req[d])'
    OBVIOUS
  <2>1. CASE req'[d] = Idle(c)
    BY <2>1, <1>6 DEF RequestFaithful
  <2>2. CASE req'[d] = req[d]
    BY <2>2, <1>4 DEF Faithful, RequestFaithful, Unread, Read, Current
  <2> QED
    BY <2>1, <2>2, <1>7
<1>10. \A d \in Clients, u \in Urls : EntryFaithful(cache[d][u], u)'
  <2> SUFFICES ASSUME NEW d \in Clients, NEW u \in Urls
               PROVE  EntryFaithful(cache[d][u], u)'
    OBVIOUS
  <2>1. CASE d = c /\ u = r.url
    <3>1. cache'[d][u] = entry
      BY <2>1, <1>5
    <3> QED
      BY <3>1, <2>1, <1>3, <1>4 DEF EntryFaithful, Current, Answer
  <2>2. CASE ~ (d = c /\ u = r.url)
    <3>1. cache'[d][u] = cache[d][u]
      BY <2>2, <1>5
    <3> QED
      BY <3>1, <1>4 DEF Faithful, EntryFaithful, Current, Answer
  <2> QED
    BY <2>1, <2>2
<1> QED
  BY <1>8, <1>9, <1>10 DEF Faithful

LEMMA LoseReplyStep ==
    ASSUME TypeOK, Faithful, NEW c \in Clients, LoseReply(c)
    PROVE  TypeOK' /\ Faithful'
BY IdleRequest, RequestStep DEF LoseReply

LEMMA NotFoundStep ==
    ASSUME TypeOK, Faithful, NEW c \in Clients, NotFound(c)
    PROVE  TypeOK' /\ Faithful'
BY IdleRequest, RequestStep DEF NotFound, Answered
-----------------------------------------------------------------------------
LEMMA PollingStep == TypeOK /\ Faithful /\ [Next]_vars => TypeOK' /\ Faithful'
<1> SUFFICES ASSUME TypeOK, Faithful, [Next]_vars
             PROVE  TypeOK' /\ Faithful'
  OBVIOUS
<1>1. CASE CreateEnvironment \/ DeleteEnvironment \/ Write
  BY <1>1, EnvironmentStep
<1>2. ASSUME NEW c \in Clients, CreateAPIKey(c) \/ RevokeAPIKey(c)
      PROVE  TypeOK' /\ Faithful'
  BY <1>2, KeyStep
<1>3. ASSUME NEW c \in Clients, NEW u \in Urls, Poll(c, u)
      PROVE  TypeOK' /\ Faithful'
  BY <1>3, PollStep
<1>4. ASSUME NEW c \in Clients, Handle(c)
      PROVE  TypeOK' /\ Faithful'
  BY <1>4, AuthenticateStep, LoadStep, ReadFlagsStep, ReadConfigsStep, NotFoundStep
     DEF Handle
<1>5. ASSUME NEW c \in Clients, Reply(c) \/ LoseReply(c)
      PROVE  TypeOK' /\ Faithful'
  BY <1>5, ReplyStep, LoseReplyStep
<1>6. CASE UNCHANGED vars
  BY <1>6 DEF vars, storeVars, TypeOK, StoreTypeOK, Faithful, RequestFaithful, Unread,
              EntryFaithful, Current, Read, Answer
<1> QED
  BY <1>1, <1>2, <1>3, <1>4, <1>5, <1>6 DEF Next

\* Requests, caches and the environment keep their shape, and ETags stay inside
\* the stamps and the filters there are.
THEOREM PollingTypeCorrect == Spec => []TypeOK
<1>1. Init => TypeOK /\ Faithful
  BY InitPolling
<1>2. TypeOK /\ Faithful /\ [Next]_vars => TypeOK' /\ Faithful'
  BY PollingStep
<1> QED
  BY <1>1, <1>2, PTL DEF Spec

\* However many clients poll however many URLs, and whatever is written between
\* the reads a request is made of, a 304 is only ever given to a client that holds
\* what a 200 would bring it.
THEOREM NoStale304Correct == Spec => []NoStale304
<1>1. Init => TypeOK /\ Faithful
  BY InitPolling
<1>2. TypeOK /\ Faithful /\ [Next]_vars => TypeOK' /\ Faithful'
  BY PollingStep
<1>3. TypeOK /\ Faithful => NoStale304
  BY FaithfulIsEnough
<1> QED
  BY <1>1, <1>2, <1>3, PTL DEF Spec
-----------------------------------------------------------------------------
(* ETags do not go back.  Faithful only speaks of an environment that lives, *)
(* and the answer that is on its way may be of one that was deleted since:   *)
(* it is not older than what the client has kept of that environment.        *)

NotBehind(c) ==
    (/\ req[c].at \in {"flag", "config", "reply"}
     /\ cache[c][req[c].url].held
     /\ cache[c][req[c].url].generation = req[c].generation)
       => cache[c][req[c].url].etag.stamp <= req[c].etag.stamp

NoneBehind == \A c \in Clients : NotBehind(c)

\* A step that leaves the caches alone and either takes a request a little further or
\* puts one that has no ETag yet in its place.
LEMMA KeepsNotBehind ==
    ASSUME TypeOK, NoneBehind, NEW c \in Clients, NEW new \in Requests,
           req' = [req EXCEPT ![c] = new], cache' = cache,
           \/ new.at \in {"idle", "auth", "env"}
           \/ /\ req[c].at \in {"flag", "config", "reply"}
              /\ new.url = req[c].url /\ new.etag = req[c].etag
              /\ new.generation = req[c].generation
    PROVE  NoneBehind'
<1> SUFFICES ASSUME NEW d \in Clients
             PROVE  NotBehind(d)'
  BY DEF NoneBehind
<1>1. req'[c] = new /\ (d # c => req'[d] = req[d])
  BY RequestReplaced
<1>2. NotBehind(c) /\ NotBehind(d)
  BY DEF NoneBehind
<1>3. CASE d = c
  BY <1>1, <1>2, <1>3 DEF NotBehind
<1>4. CASE d # c
  BY <1>1, <1>2, <1>4 DEF NotBehind
<1> QED
  BY <1>3, <1>4

LEMMA LoadNotBehind ==
    ASSUME TypeOK, Faithful, NoneBehind, NEW c \in Clients, LoadEnvironment(c)
    PROVE  NoneBehind'
<1> DEFINE r == req[c]
           new == [r EXCEPT !.at = FirstRead(r.url),
                            !.etag = FilteredETag(stamp, r.url.filter),
                            !.generation = generation]
<1>1. r \in Requests /\ r.url \in Urls /\ cache' = cache
  BY DEF TypeOK, Requests, LoadEnvironment, Answered
<1>2. CASE req' = [req EXCEPT ![c] = Idle(c)]
  BY <1>1, <1>2, IdleRequest, KeepsNotBehind DEF Idle, Request
<1>3. CASE alive /\ req' = [req EXCEPT ![c] = new]
  <2>1. /\ new.url = r.url /\ new.generation = generation
        /\ new.etag = FilteredETag(stamp, r.url.filter)
    BY <1>1 DEF Requests
  <2>2. EntryFaithful(cache[c][r.url], r.url)
    BY <1>1 DEF Faithful
  <2>3. req'[c] = new /\ \A d \in Clients : d # c => req'[d] = req[d]
    BY <1>3 DEF TypeOK
  <2> HIDE DEF new
  <2>4. NotBehind(c)'
    BY <1>1, <1>3, <2>1, <2>2, <2>3
       DEF NotBehind, EntryFaithful, Current, FilteredETag
  <2>5. \A d \in Clients : d # c => NotBehind(d)'
    BY <1>1, <2>3 DEF NoneBehind, NotBehind
  <2> QED
    BY <2>4, <2>5 DEF NoneBehind
<1> QED
  BY <1>2, <1>3 DEF LoadEnvironment

LEMMA RequestsNotBehind ==
    ASSUME TypeOK, Faithful, NoneBehind, NEW c \in Clients,
           \/ \E u \in Urls : Poll(c, u)
           \/ Handle(c)
           \/ Reply(c) \/ LoseReply(c)
    PROVE  NoneBehind'
<1>r. req[c] \in Requests
  BY DEF TypeOK
<1>i. /\ Idle(c) \in Requests /\ Idle(c).at = "idle"
  BY IdleRequest DEF Idle, Request
<1>1. ASSUME NEW u \in Urls, Poll(c, u)
      PROVE  NoneBehind'
  <2>1. PICK inm \in SUBSET Kept(c, u.endpoint) :
           req' = [req EXCEPT ![c] = Request("auth", u, inm)]
    BY <1>1 DEF Poll
  <2>2. inm \in SUBSET ETags
    <3>1. \A x \in Urls : cache[c][x].etag \in ETags
      BY DEF TypeOK, Entries
    <3> QED
      BY <3>1 DEF Kept
  <2>3. Request("auth", u, inm) \in Requests /\ Request("auth", u, inm).at = "auth"
    BY <2>2, FreshRequest DEF Request
  <2> QED
    BY <1>1, <2>1, <2>3, KeepsNotBehind DEF Poll, Answered
<1>2. CASE Authenticate(c)
  <2> DEFINE new == [req[c] EXCEPT !.at = "env"]
  <2>1. new \in Requests /\ new.at = "env"
    BY <1>r DEF Requests
  <2>2. req' = [req EXCEPT ![c] = new] \/ req' = [req EXCEPT ![c] = Idle(c)]
    BY <1>2 DEF Authenticate
  <2> HIDE DEF new
  <2> QED
    BY <1>2, <1>i, <2>1, <2>2, KeepsNotBehind DEF Authenticate, Answered
<1>3. CASE LoadEnvironment(c)
  BY <1>3, LoadNotBehind
<1>4. CASE ReadFlags(c) \/ ReadConfigs(c)
  <2>1. PICK kind \in Kinds, at \in {"config", "reply"} :
           /\ req[c].at = kind
           /\ req' = [req EXCEPT ![c] =
                [req[c] EXCEPT !.body = [@ EXCEPT ![kind] = content[kind][req[c].url.filter]],
                               !.at = at]]
    BY <1>4, <1>r DEF ReadFlags, ReadConfigs, Kinds, Requests
  <2> DEFINE body == [req[c].body EXCEPT ![kind] = content[kind][req[c].url.filter]]
             new == [req[c] EXCEPT !.body = body, !.at = at]
  <2>2. body \in Parts
    <3>1. req[c].url.filter \in Filters /\ req[c].body \in Parts
      BY <1>r, PollingConstants DEF Requests
    <3> QED
      BY <3>1 DEF TypeOK, StoreTypeOK, Views, Parts
  <2>3. req' = [req EXCEPT ![c] = new]
    BY <2>1
  <2> HIDE DEF body
  <2>4. /\ new \in Requests
        /\ new.url = req[c].url /\ new.etag = req[c].etag
        /\ new.generation = req[c].generation
    BY <1>r, <2>2 DEF Requests
  <2> HIDE DEF new
  <2> QED
    BY <1>4, <2>1, <2>3, <2>4, KeepsNotBehind DEF ReadFlags, ReadConfigs, Answered, Kinds
<1>5. CASE Reply(c)
  <2>1. /\ req' = [req EXCEPT ![c] = Idle(c)]
        /\ \A d \in Clients : d # c => cache'[d] = cache[d]
    BY <1>5 DEF Reply, TypeOK
  <2>2. req'[c] = Idle(c) /\ \A d \in Clients : d # c => req'[d] = req[d]
    BY <2>1, <1>i, RequestReplaced
  <2>3. \A d \in Clients : NotBehind(d)'
    BY <2>1, <2>2, <1>i DEF NoneBehind, NotBehind
  <2> QED
    BY <2>3 DEF NoneBehind
<1>6. CASE LoseReply(c)
  BY <1>6, <1>i, KeepsNotBehind DEF LoseReply, Answered
<1>7. CASE NotFound(c)
  BY <1>7, <1>i, KeepsNotBehind DEF NotFound, Answered
<1> QED
  BY <1>1, <1>2, <1>3, <1>4, <1>5, <1>6, <1>7 DEF Handle

LEMMA NotBehindStep ==
    TypeOK /\ Faithful /\ NoneBehind /\ [Next]_vars => NoneBehind'
<1> SUFFICES ASSUME TypeOK, Faithful, NoneBehind, [Next]_vars
             PROVE  NoneBehind'
  OBVIOUS
<1>1. CASE UNCHANGED <<cache, req>>
  BY <1>1 DEF NoneBehind, NotBehind
<1>2. CASE \E c \in Clients : \/ \E u \in Urls : Poll(c, u)
                             \/ Handle(c)
                             \/ Reply(c) \/ LoseReply(c)
  BY <1>2, RequestsNotBehind
<1> QED
  BY <1>1, <1>2
     DEF Next, vars, CreateEnvironment, DeleteEnvironment, Write, CreateAPIKey, RevokeAPIKey

\* Only an answer changes what a client keeps.
LEMMA KeptETags ==
    ASSUME TypeOK, NoneBehind, [Next]_vars, NEW c \in Clients, NEW u \in Urls,
           cache[c][u].held, cache[c][u].generation = cache'[c][u].generation
    PROVE  cache'[c][u].etag.stamp >= cache[c][u].etag.stamp
<1>1. \A x \in Entries : x.etag.stamp \in Int
  BY EnvStoreConstants DEF Entries, ETags, Stamps
<1>2. cache[c][u] \in Entries
  BY DEF TypeOK
<1>3. CASE cache' = cache
  BY <1>1, <1>2, <1>3
<1>4. ASSUME NEW d \in Clients, Reply(d)
      PROVE  cache'[c][u].etag.stamp >= cache[c][u].etag.stamp
  <2> DEFINE r == req[d]
             entry == [held |-> TRUE, etag |-> r.etag, body |-> r.body,
                       generation |-> r.generation]
  <2>1. /\ r \in Requests /\ r.at = "reply" /\ r.url \in Urls /\ r.etag.stamp \in Int
        /\ NotBehind(d)
    BY <1>4, EnvStoreConstants DEF TypeOK, Reply, NoneBehind, Requests, ETags, Stamps
  <2>2. /\ cache'[d][r.url] = entry
        /\ (c # d \/ u # r.url) => cache'[c][u] = cache[c][u]
    BY <1>4, <2>1 DEF Reply, TypeOK
  <2>3. CASE c = d /\ u = r.url
    BY <2>1, <2>2, <2>3, <1>1, <1>2 DEF NotBehind
  <2>4. CASE ~ (c = d /\ u = r.url)
    BY <2>2, <2>4, <1>1, <1>2
  <2> QED
    BY <2>3, <2>4
<1>5. cache' = cache \/ \E d \in Clients : Reply(d)
  BY DEF Next, vars, Handle, CreateEnvironment, DeleteEnvironment, Write, CreateAPIKey,
         RevokeAPIKey, Poll, Authenticate, LoadEnvironment, ReadFlags, ReadConfigs,
         NotFound, LoseReply, Answered
<1> QED
  BY <1>3, <1>4, <1>5

\* However often the id has passed on and whatever answers were lost, no client goes
\* back to an older ETag of the environment it polls.
THEOREM EtagNeverRegressesCorrect == Spec => EtagNeverRegresses
<1>1. Init => TypeOK /\ Faithful
  BY InitPolling
<1>2. Init => NoneBehind
  <2> SUFFICES ASSUME Init, NEW c \in Clients
               PROVE  NotBehind(c)
    BY DEF NoneBehind
  <2>1. req[c].at = "idle"
    BY DEF Init, Request
  <2> QED
    BY <2>1 DEF NotBehind
<1>3. TypeOK /\ Faithful /\ NoneBehind /\ [Next]_vars => TypeOK' /\ Faithful' /\ NoneBehind'
  BY PollingStep, NotBehindStep
<1>4. ASSUME TypeOK, NoneBehind, [Next]_vars
      PROVE  [\A c \in Clients, u \in Urls :
                 /\ cache[c][u].held
                 /\ cache[c][u].generation = cache'[c][u].generation
                 => cache'[c][u].etag.stamp >= cache[c][u].etag.stamp]_vars
  BY <1>4, KeptETags
<1> QED
  BY <1>1, <1>2, <1>3, <1>4, PTL DEF Spec, EtagNeverRegresses
-----------------------------------------------------------------------------
(* The documents of a request.  The tables it has read are those of one     *)
(* document the environment held meanwhile, and this document and the       *)
(* present one differ in one table at most: so whichever is read next, one  *)
(* of the two will have both.                                               *)

OneTable(d, e) ==
    \E kind \in Kinds : \A other \in Kinds : other # kind => d[other][NoTag] = e[other][NoTag]

Two(documents) == \E before, after \in documents : documents = {before, after}

ReadFrom(r, d) == \A kind \in Kinds : Read(r, kind) => r.body[kind] = d[kind][NoTag]

Gathered(r, documents) ==
    \E d \in documents : ReadFrom(r, d) /\ (r.at # "reply" => OneTable(d, content))

Underway(r) == r.at \in {"flag", "config", "reply"} /\ Current(r.generation) /\ r.url.filter = NoTag

Remembered(c) ==
    /\ req[c].at # "idle" => content \in seen[c]
    /\ Underway(req[c]) /\ Two(seen[c]) => Gathered(req[c], seen[c])

HistoryFaithful == \A c \in Clients : Remembered(c)

LEMMA GatheredIsWhole == TypeOK /\ Faithful /\ HistoryFaithful => UnfilteredIsWhole
<1> SUFFICES ASSUME TypeOK, Faithful, HistoryFaithful, NEW c \in Clients,
                    Complete(c), OneChange(c), req[c].url.filter = NoTag
             PROVE  Whole(c)
  BY DEF UnfilteredIsWhole
<1> DEFINE r == req[c]
<1>1. /\ r \in Requests /\ r.body \in Parts /\ r.at = "reply"
      /\ Unread(r) /\ r.url.filter = NoTag
  BY DEF TypeOK, Requests, Faithful, RequestFaithful, Complete
<1>2. Gathered(r, seen[c])
  <2>1. Two(seen[c])
    BY DEF OneChange, Two
  <2>2. Underway(r)
    BY <1>1 DEF Underway, Complete, Current
  <2> QED
    BY <2>1, <2>2 DEF HistoryFaithful, Remembered
<1>3. PICK d \in seen[c] : ReadFrom(r, d)
  BY <1>2 DEF Gathered
<1>4. \A kind \in Kinds : r.body[kind] = Answer(d, r.url)[kind]
  BY <1>1, <1>3 DEF ReadFrom, Read, Unread, Answer
<1>5. r.body = Answer(d, r.url)
  BY <1>1, <1>4 DEF Parts, Answer
<1> QED
  BY <1>5 DEF Whole

LEMMA TwoOfMore ==
    ASSUME NEW documents, NEW d, NEW e \in documents, Two(documents \cup {d})
    PROVE  /\ Two(documents)
           /\ \A f \in documents : f # e => d \in {e, f}
BY DEF Two

LEMMA OneTableOfOne == ASSUME NEW d PROVE OneTable(d, d)
BY DEF OneTable, Kinds

\* A write that listings without a filter can see is a write of one table.
LEMMA WriteIsOfOneTable ==
    ASSUME TypeOK, CreateEnvironment \/ DeleteEnvironment \/ Write,
           NEW g \in Int, g <= generation, Current(g)'
    PROVE  Current(g) /\ OneTable(content, content')
<1>1. generation \in Int
  BY PollingConstants DEF TypeOK, Generations
<1>2. CASE CreateEnvironment
  BY <1>1, <1>2 DEF CreateEnvironment, Current
<1>3. CASE DeleteEnvironment
  BY <1>3 DEF DeleteEnvironment, Delete, Current
<1>4. CASE Write
  <2>1. /\ UNCHANGED <<alive, generation>>
        /\ content \in [Kinds -> Views] /\ NoTag \in Filters
    BY <1>4, EnvStoreConstants DEF Write, Change, RemoveTag, TypeOK, StoreTypeOK
  <2>2. OneTable(content, content')
    <3>1. ASSUME NEW kind \in Kinds, Change(kind)
          PROVE  OneTable(content, content')
      BY <2>1, <3>1 DEF Change, OneTable
    <3>2. ASSUME NEW filter \in Filters, RemoveTag(filter)
          PROVE  OneTable(content, content')
      <4>1. \A kind \in Kinds : content'[kind][NoTag] = content[kind][NoTag]
        BY <2>1, <3>2 DEF RemoveTag, Views
      <4> QED
        BY <4>1 DEF OneTable, Kinds
    <3> QED
      BY <1>4, <3>1, <3>2 DEF Write
  <2> QED
    BY <2>1, <2>2 DEF Current
<1> QED
  BY <1>2, <1>3, <1>4

\* While a request waits, the document it has read from stays next to the present one.
LEMMA WaitingRemembers ==
    ASSUME TypeOK, Faithful, NEW c \in Clients, Remembered(c), req'[c] = req[c],
           req[c].at # "idle" => seen'[c] = seen[c] \cup {content'},
           Underway(req[c])' => Underway(req[c]) /\ OneTable(content, content')
    PROVE  Remembered(c)'
<1> DEFINE r == req[c]
<1>1. r.at # "idle" => content' \in seen'[c]
  OBVIOUS
<1>2. ASSUME Underway(req[c])', Two(seen[c])'
      PROVE  Gathered(req[c], seen[c])'
  <2>1. /\ Underway(r) /\ OneTable(content, content')
        /\ r.at # "idle" /\ seen'[c] = seen[c] \cup {content'}
        /\ content \in seen[c]
    BY <1>2 DEF Underway, Remembered
  <2>2. /\ Two(seen[c])
        /\ \A f \in seen[c] : f # content => content' \in {content, f}
    BY <1>2, <2>1, TwoOfMore DEF Two
  <2>3. PICK d \in seen[c] : ReadFrom(r, d) /\ (r.at # "reply" => OneTable(d, content))
    BY <2>1, <2>2 DEF Remembered, Gathered
  <2>4. r.at # "reply" => OneTable(d, content')
    BY <2>1, <2>2, <2>3, OneTableOfOne
  <2>5. d \in seen'[c] /\ ReadFrom(req[c], d)'
    BY <2>1, <2>3 DEF ReadFrom, Read
  <2> QED
    BY <2>4, <2>5 DEF Gathered
<1> QED
  BY <1>1, <1>2 DEF Remembered

\* Between two of its own steps nothing changes; then it has read one table more.
LEMMA ReadRemembers ==
    ASSUME TypeOK, Faithful, NEW c \in Clients, Remembered(c), NEW kind \in Kinds,
           req[c].at = kind, NEW new \in Requests, req'[c] = new,
           new.url = req[c].url, new.generation = req[c].generation,
           new.at \in {"config", "reply"}, kind = "config" => new.at = "reply",
           new.at = "reply" /\ kind = "flag" => ~ Lists(req[c].url.endpoint, "config"),
           new.body = [req[c].body EXCEPT ![kind] = content[kind][req[c].url.filter]],
           UNCHANGED <<alive, generation, content>>,
           seen'[c] = seen[c] \cup {content}
    PROVE  Remembered(c)'
<1> DEFINE r == req[c]
<1>1. /\ r \in Requests /\ r.body \in Parts /\ r.at # "idle" /\ r.at # "reply"
      /\ content \in seen[c] /\ seen'[c] = seen[c] /\ r.at \in {"flag", "config"}
  BY DEF TypeOK, Requests, Remembered, Kinds
<1>2. SUFFICES ASSUME Underway(new)', Two(seen[c])
               PROVE  Gathered(req[c], seen[c])'
  BY <1>1 DEF Remembered
<1>3. Underway(r) /\ r.url.filter = NoTag
  BY <1>1, <1>2 DEF Underway, Current
<1>4. PICK d \in seen[c] : ReadFrom(r, d) /\ OneTable(d, content)
  BY <1>1, <1>2, <1>3 DEF Remembered, Gathered
<1>5. /\ new.body[kind] = content[kind][NoTag]
      /\ \A other \in Kinds : other # kind => new.body[other] = r.body[other]
  BY <1>1, <1>3 DEF Parts
<1>6. \A other \in Kinds : Read(new, other) => other = kind \/ Read(r, other)
  BY <1>1 DEF Read, Kinds
<1>7. CASE kind = "flag"
  <2>1. \A other \in Kinds : ~ Read(r, other)
    BY <1>7 DEF Read
  <2>2. ReadFrom(new, content) /\ OneTable(content, content)
    BY <1>5, <1>6, <2>1, OneTableOfOne DEF ReadFrom
  <2> QED
    BY <1>1, <2>2 DEF Gathered, ReadFrom, Read
<1>8. CASE kind = "config"
  <2>1. new.at = "reply"
    BY <1>8
  <2>2. PICK table \in Kinds :
           \A other \in Kinds : other # table => d[other][NoTag] = content[other][NoTag]
    BY <1>4 DEF OneTable
  <2>3. ReadFrom(new, IF table = kind THEN content ELSE d)
    BY <1>4, <1>5, <1>6, <2>2 DEF ReadFrom, Kinds
  <2> QED
    BY <1>1, <1>4, <2>1, <2>3 DEF Gathered, ReadFrom, Read
<1> QED
  BY <1>7, <1>8 DEF Kinds

\* What a client's own request becomes.
LEMMA OwnStepRemembers ==
    ASSUME TypeOK, Faithful, NEW c \in Clients, Remembered(c),
           \/ \E u \in Urls : Poll(c, u)
           \/ Handle(c) \/ Reply(c) \/ LoseReply(c),
           req'[c].at # "idle" => seen'[c] = seen[c] \cup {content'}
    PROVE  Remembered(c)'
<1> DEFINE r == req[c]
<1>1. /\ r \in Requests /\ r.body \in Parts /\ RequestFaithful(r)
      /\ r.url \in [endpoint : Endpoints, filter : Filters]
  BY PollingConstants DEF TypeOK, Requests, Faithful
<1>2. UNCHANGED <<alive, generation, content>>
  BY DEF Poll, Handle, Authenticate, LoadEnvironment, ReadFlags, ReadConfigs, NotFound,
         Reply, LoseReply, Answered, storeVars
\* At its ends there is nothing to remember.
<1>3. ASSUME req'[c].at \notin {"flag", "config", "reply"}
      PROVE  Remembered(c)'
  BY <1>3 DEF Remembered, Underway
<1>4. CASE \E u \in Urls : Poll(c, u)
  <2>1. PICK u, inm : req' = [req EXCEPT ![c] = Request("auth", u, inm)]
    BY <1>4 DEF Poll
  <2>2. req'[c].at = "auth"
    BY <2>1 DEF TypeOK, Request
  <2> QED
    BY <1>3, <2>2
<1>5. ASSUME req' = [req EXCEPT ![c] = Idle(c)]
      PROVE  Remembered(c)'
  <2>1. req'[c].at = "idle"
    BY <1>5 DEF TypeOK, Idle, Request
  <2> QED
    BY <1>3, <2>1
<1>6. CASE Authenticate(c)
  <2>1. CASE req' = [req EXCEPT ![c] = [@ EXCEPT !.at = "env"]]
    <3>1. req'[c].at = "env"
      BY <1>1, <2>1 DEF TypeOK, Requests
    <3> QED
      BY <1>3, <3>1
  <2> QED
    BY <1>5, <1>6, <2>1 DEF Authenticate
<1>7. CASE LoadEnvironment(c)
  <2> DEFINE new == [r EXCEPT !.at = FirstRead(r.url),
                              !.etag = FilteredETag(stamp, r.url.filter),
                              !.generation = generation]
  <2>1. CASE req' = [req EXCEPT ![c] = new]
    <3>1. /\ req'[c] = new /\ new.at = FirstRead(r.url) /\ new.url = r.url
          /\ new.at \in {"flag", "config"}
          /\ new.at = "config" => ~ Lists(r.url.endpoint, "flag")
      BY <1>1, <2>1 DEF TypeOK, Requests, FirstRead
    <3> HIDE DEF new
    <3>2. \A kind \in Kinds : ~ Read(new, kind)
      BY <3>1 DEF Read, Kinds
    <3>3. ReadFrom(new, content') /\ OneTable(content', content')
      BY <3>2, OneTableOfOne DEF ReadFrom
    <3>4. content' \in seen'[c]
      BY <3>1
    <3> QED
      BY <3>1, <3>3, <3>4 DEF Remembered, Gathered, ReadFrom, Read
  <2> QED
    BY <1>5, <1>7, <2>1 DEF LoadEnvironment
<1>8. CASE ReadFlags(c)
  <2> DEFINE new == [r EXCEPT !.body = [@ EXCEPT !["flag"] = content["flag"][r.url.filter]],
                              !.at = IF Lists(r.url.endpoint, "config") THEN "config" ELSE "reply"]
  <2>1. r.at = "flag" /\ req' = [req EXCEPT ![c] = new]
    BY <1>1, <1>8 DEF ReadFlags, TypeOK, Requests
  <2>2. /\ new.url = r.url /\ new.generation = r.generation
        /\ new.at \in {"config", "reply"}
        /\ new.at = "reply" => ~ Lists(r.url.endpoint, "config")
        /\ new.body = [r.body EXCEPT !["flag"] = content["flag"][r.url.filter]]
        /\ new \in Requests
    <3>1. content["flag"][r.url.filter] \in Bodies
      BY <1>1 DEF TypeOK, StoreTypeOK, Kinds, Views
    <3> QED
      BY <1>1, <3>1 DEF Requests, Parts
  <2> HIDE DEF new
  <2>3. req'[c] = new /\ "flag" \in Kinds /\ new.at # "idle"
    BY <2>1, <2>2 DEF TypeOK, Kinds
  <2> QED
    BY <1>2, <2>1, <2>2, <2>3, ReadRemembers
<1>9. CASE ReadConfigs(c)
  <2> DEFINE new == [r EXCEPT !.body = [@ EXCEPT !["config"] = content["config"][r.url.filter]],
                              !.at = "reply"]
  <2>1. r.at = "config" /\ req' = [req EXCEPT ![c] = new]
    BY <1>1, <1>9 DEF ReadConfigs, TypeOK, Requests
  <2>2. /\ new.url = r.url /\ new.generation = r.generation
        /\ new.at = "reply"
        /\ new.body = [r.body EXCEPT !["config"] = content["config"][r.url.filter]]
        /\ new \in Requests
    <3>1. content["config"][r.url.filter] \in Bodies
      BY <1>1 DEF TypeOK, StoreTypeOK, Kinds, Views
    <3> QED
      BY <1>1, <3>1 DEF Requests, Parts
  <2> HIDE DEF new
  <2>3. req'[c] = new /\ "config" \in Kinds /\ new.at # "idle"
    BY <2>1, <2>2 DEF TypeOK, Kinds
  <2> QED
    BY <1>2, <2>1, <2>2, <2>3, ReadRemembers
<1> QED
  BY <1>4, <1>5, <1>6, <1>7, <1>8, <1>9 DEF Handle, NotFound, Reply, LoseReply

LEMMA HistoryStep ==
    TypeOK /\ Faithful /\ HistoryFaithful /\ [HistoryNext]_<<vars, seen>> => HistoryFaithful'
<1> SUFFICES ASSUME TypeOK, Faithful, HistoryFaithful, [HistoryNext]_<<vars, seen>>,
                    NEW c \in Clients
             PROVE  Remembered(c)'
  BY DEF HistoryFaithful
<1>1. Remembered(c) /\ req[c] \in Requests /\ RequestFaithful(req[c])
  BY DEF HistoryFaithful, TypeOK, Faithful
<1>2. CASE UNCHANGED <<vars, seen>>
  <2>1. UNCHANGED <<alive, generation, content, req, seen>>
    BY <1>2 DEF vars, storeVars
  <2> QED
    BY <1>1, <2>1 DEF Remembered, Underway, Current, Gathered, ReadFrom, Read, Two
<1>3. CASE HistoryNext
  <2>1. req'[c].at # "idle" => seen'[c] = seen[c] \cup {content'}
    BY <1>3 DEF HistoryNext
  <2>2. CASE CreateEnvironment \/ DeleteEnvironment \/ Write
    <3>1. req'[c] = req[c]
      BY <2>2 DEF CreateEnvironment, DeleteEnvironment, Write
    <3>2. ASSUME Underway(req[c])'
          PROVE  Underway(req[c]) /\ OneTable(content, content')
      <4>1. /\ req[c].generation \in Int /\ req[c].generation <= generation
            /\ Current(req[c].generation)'
            /\ req[c].at \in {"flag", "config", "reply"} /\ req[c].url.filter = NoTag
        BY <1>1, <3>1, <3>2, PollingConstants
           DEF Underway, RequestFaithful, Requests, Generations
      <4>2. PICK g \in Int : g = req[c].generation
        BY <4>1
      <4>3. Current(g)'
        BY <3>1, <3>2, <4>2 DEF Underway, Current
      <4>4. Current(g) /\ OneTable(content, content')
        BY <2>2, <4>1, <4>2, <4>3, WriteIsOfOneTable
      <4> QED
        BY <4>1, <4>2, <4>4 DEF Underway
    <3> QED
      BY <1>1, <2>1, <3>1, <3>2, WaitingRemembers
  <2>3. ASSUME NEW d \in Clients,
               \/ CreateAPIKey(d) \/ RevokeAPIKey(d)
               \/ \E u \in Urls : Poll(d, u)
               \/ Handle(d) \/ Reply(d) \/ LoseReply(d),
               d # c \/ CreateAPIKey(d) \/ RevokeAPIKey(d)
        PROVE  Remembered(c)'
    <3>1. req'[c] = req[c]
      BY <2>3 DEF CreateAPIKey, RevokeAPIKey, Poll, Handle, Authenticate, LoadEnvironment,
                  ReadFlags, ReadConfigs, NotFound, Reply, LoseReply, TypeOK
    <3>2. UNCHANGED <<alive, generation, content>>
      BY <2>3 DEF CreateAPIKey, RevokeAPIKey, Poll, Handle, Authenticate, LoadEnvironment,
                  ReadFlags, ReadConfigs, NotFound, Reply, LoseReply, Answered, storeVars
    <3>3. Underway(req[c])' => Underway(req[c]) /\ OneTable(content, content')
      BY <3>1, <3>2, OneTableOfOne DEF Underway, Current
    <3> QED
      BY <1>1, <2>1, <3>1, <3>3, WaitingRemembers
  <2>4. CASE \/ \E u \in Urls : Poll(c, u)
             \/ Handle(c) \/ Reply(c) \/ LoseReply(c)
    BY <1>1, <2>1, <2>4, OwnStepRemembers
  <2> QED
    BY <1>3, <2>2, <2>3, <2>4 DEF HistoryNext, Next
<1> QED
  BY <1>2, <1>3

\* A 200 without a filter never shows half of a transaction: if the environment went
\* from one document to another while the request ran, it answers one of the two.
THEOREM UnfilteredIsWholeCorrect == HistorySpec => []UnfilteredIsWhole
<1>1. HistoryInit => TypeOK /\ Faithful /\ HistoryFaithful
  <2> SUFFICES ASSUME HistoryInit
               PROVE  HistoryFaithful
    BY InitPolling DEF HistoryInit
  <2>1. \A c \in Clients : req[c].at = "idle"
    BY DEF HistoryInit, Init, Request
  <2> QED
    BY <2>1 DEF HistoryFaithful, Remembered, Underway
<1>2. [HistoryNext]_<<vars, seen>> => [Next]_vars
  BY DEF HistoryNext, vars
<1>3. TypeOK /\ Faithful /\ HistoryFaithful /\ [HistoryNext]_<<vars, seen>>
         => TypeOK' /\ Faithful' /\ HistoryFaithful'
  BY <1>2, PollingStep, HistoryStep
<1>4. TypeOK /\ Faithful /\ HistoryFaithful => UnfilteredIsWhole
  BY GatheredIsWhole
<1> QED
  BY <1>1, <1>3, <1>4, PTL DEF HistorySpec
=============================================================================
