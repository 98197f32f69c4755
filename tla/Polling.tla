------------------------------ MODULE Polling ------------------------------
(***************************************************************************)
(* GET /v1/snapshot, /v1/flags and /v1/configs, and /v1/flags/{key} and    *)
(* /v1/configs/{key}, against one environment id.                          *)
(* A request is a sequence of separate reads, and any write may commit     *)
(* between two of them:                                                    *)
(*   auth    LookupActiveAPIKey                (auth/apikey.go)            *)
(*   env     GetEnvironmentByID, then the ETag decision in the handler     *)
(*   flag    ListFlagsTagged                   (api/client.go)             *)
(*   config  ListConfigsTagged                                             *)
(*   reply   the response reaches the client, which keeps body and ETag    *)
(* The clients follow the README's pattern: keep what a 200 brought, do    *)
(* nothing on a 304.                                                       *)
(***************************************************************************)
EXTENDS EnvStore

CONSTANTS
    Clients,         \* one API key each
    Urls,            \* [endpoint, filter] a client may poll
    MaxGenerations   \* bound: environments that get this id one after another

\* getFlag, getConfig: one record, whose table shows its key and no other.
Singles   == {"getFlag", "getConfig"}
Endpoints == {"snapshot", "flags", "configs"} \cup Singles

ASSUME PollingConstants ==
    /\ Urls \subseteq [endpoint : Endpoints, filter : Filters]
    /\ \A u \in Urls : u.endpoint \in Singles => u.filter = NoTag
    /\ MaxGenerations \in Nat

VARIABLES
    generation,  \* which environment holds the id; not in the code: the program
                 \* cannot tell two holders of an id apart
    keyOf,       \* the environment each client's key was made for, 0: no key yet
    revoked,     \* the clients whose key is revoked
    cache,       \* cache[c][u]: what the client keeps of its last 200
    req          \* the request of each client

vars == <<storeVars, generation, keyOf, revoked, cache, req>>

Generations == 0 .. MaxGenerations

\* Variants of FilteredETag: of the unfiltered resource; of the time the
\* environment was made; of the write that is still to come.
EnvETag(s, filter) == [stamp |-> s, filter |-> NoTag]
CreationETag(s, filter) == [stamp |-> 0, filter |-> filter]
NextETag(s, filter) == [stamp |-> s + 1, filter |-> filter]

\* FilteredETag: the stamp and the filter, and nothing else.
FilteredETag(s, filter) == [stamp |-> s, filter |-> filter]
ETags == [stamp : Stamps, filter : Filters]

Parts   == [Kinds -> Bodies]
NoParts == [kind \in Kinds |-> EmptyBody]

\* The tables an endpoint lists.
Lists(endpoint, kind) ==
    \/ endpoint = "snapshot"
    \/ endpoint \in {"flags", "getFlag"} /\ kind = "flag"
    \/ endpoint \in {"configs", "getConfig"} /\ kind = "config"

\* The answer of one URL over one document.
Answer(document, u) ==
    [kind \in Kinds |->
        IF Lists(u.endpoint, kind) THEN document[kind][u.filter] ELSE EmptyBody]

\* The environment whose stamp is in an ETag is remembered next to it
\* (generation, not in the code).
Entries == [held : BOOLEAN, etag : ETags, body : Parts, generation : Generations]

NoEntry == [held |-> FALSE, etag |-> FilteredETag(0, NoTag), body |-> NoParts,
            generation |-> 0]

\* ifNoneMatch is what the client sends; etag, body and generation are what the
\* handler has put together so far.
Requests == [at : {"idle", "auth", "env", "flag", "config", "reply"},
             url : Urls, ifNoneMatch : SUBSET ETags, etag : ETags,
             body : Parts, generation : Generations]

Request(at, u, inm) ==
    [at |-> at, url |-> u, ifNoneMatch |-> inm,
     etag |-> FilteredETag(0, NoTag), body |-> NoParts, generation |-> 0]

\* The request is over: nothing of it is left but the URL it was for.
Idle(c) == Request("idle", req[c].url, {})
-----------------------------------------------------------------------------
(* The environment and its keys. *)

CreateEnvironment ==
    /\ generation < MaxGenerations
    /\ Create
    /\ generation' = generation + 1
    /\ UNCHANGED <<keyOf, revoked, cache, req>>

DeleteEnvironment ==
    /\ Delete
    /\ UNCHANGED <<generation, keyOf, revoked, cache, req>>

Write ==
    /\ \/ \E kind \in Kinds : Change(kind)
       \/ \E filter \in Filters : RemoveTag(filter)
    /\ UNCHANGED <<generation, keyOf, revoked, cache, req>>

\* The keys of an environment go with it, by cascade.
KeyExists(c) == alive /\ keyOf[c] = generation

CreateAPIKey(c) ==
    /\ alive
    /\ keyOf[c] = 0
    /\ keyOf' = [keyOf EXCEPT ![c] = generation]
    /\ UNCHANGED <<storeVars, generation, revoked, cache, req>>

RevokeAPIKey(c) ==
    /\ KeyExists(c)
    /\ c \notin revoked
    /\ revoked' = revoked \cup {c}
    /\ UNCHANGED <<storeVars, generation, keyOf, cache, req>>
-----------------------------------------------------------------------------
(* One request. *)

Answered == <<storeVars, generation, keyOf, revoked, cache>>

\* The client sends any of the ETags it keeps from this endpoint, those of
\* other filters included.
Kept(c, endpoint) ==
    {cache[c][u].etag : u \in {x \in Urls : cache[c][x].held /\ x.endpoint = endpoint}}

Poll(c, u) ==
    /\ req[c].at = "idle"
    /\ \E inm \in SUBSET Kept(c, u.endpoint) :
          req' = [req EXCEPT ![c] = Request("auth", u, inm)]
    /\ UNCHANGED Answered

\* LookupActiveAPIKey; anything else is a 401, and the client keeps its cache.
Authenticate(c) ==
    /\ req[c].at = "auth"
    /\ req' = [req EXCEPT ![c] = IF KeyExists(c) /\ c \notin revoked
                                 THEN [@ EXCEPT !.at = "env"] ELSE Idle(c)]
    /\ UNCHANGED Answered

FirstRead(u) == IF Lists(u.endpoint, "flag") THEN "flag" ELSE "config"

\* GetEnvironmentByID with the id found in the key's row, and writeETag on the
\* stamp of the row: 401 without a row, 304 on a match, else on to the body.
LoadEnvironment(c) ==
    /\ req[c].at = "env"
    /\ LET etag == FilteredETag(stamp, req[c].url.filter)
       IN  req' = [req EXCEPT ![c] =
                      IF ~ alive \/ etag \in req[c].ifNoneMatch
                      THEN Idle(c)
                      ELSE [@ EXCEPT !.at = FirstRead(req[c].url),
                                     !.etag = etag,
                                     !.generation = generation]]
    /\ UNCHANGED Answered

\* The record is not there: the query for it finds no row.
Missing(c) ==
    /\ req[c].at \in Kinds /\ req[c].url.endpoint \in Singles
    /\ content[req[c].at][NoTag] = EmptyBody

ReadFlags(c) ==
    /\ req[c].at = "flag" /\ ~ Missing(c)
    /\ req' = [req EXCEPT
          ![c].body["flag"] = content["flag"][req[c].url.filter],
          ![c].at = IF Lists(req[c].url.endpoint, "config") THEN "config" ELSE "reply"]
    /\ UNCHANGED Answered

ReadConfigs(c) ==
    /\ req[c].at = "config" /\ ~ Missing(c)
    /\ req' = [req EXCEPT
          ![c].body["config"] = content["config"][req[c].url.filter],
          ![c].at = "reply"]
    /\ UNCHANGED Answered

\* 404; the client keeps what it has.
NotFound(c) ==
    /\ Missing(c)
    /\ req' = [req EXCEPT ![c] = Idle(c)]
    /\ UNCHANGED Answered

\* A variant of Reply: the ETag is made when the body is complete.
ReplyWithLateETag(c) ==
    /\ req[c].at = "reply"
    /\ cache' = [cache EXCEPT ![c][req[c].url] =
                    [held |-> TRUE, etag |-> FilteredETag(stamp, req[c].url.filter),
                     body |-> req[c].body, generation |-> req[c].generation]]
    /\ req' = [req EXCEPT ![c] = Idle(c)]
    /\ UNCHANGED <<storeVars, generation, keyOf, revoked>>

\* 200: the client replaces what it stored.
Reply(c) ==
    /\ req[c].at = "reply"
    /\ cache' = [cache EXCEPT ![c][req[c].url] =
                    [held |-> TRUE, etag |-> req[c].etag, body |-> req[c].body,
                     generation |-> req[c].generation]]
    /\ req' = [req EXCEPT ![c] = Idle(c)]
    /\ UNCHANGED <<storeVars, generation, keyOf, revoked>>

\* The response is lost, or the client gave up waiting.
LoseReply(c) ==
    /\ req[c].at = "reply"
    /\ req' = [req EXCEPT ![c] = Idle(c)]
    /\ UNCHANGED Answered
-----------------------------------------------------------------------------
Init ==
    /\ StoreInit
    /\ generation = 0
    /\ keyOf = [c \in Clients |-> 0]
    /\ revoked = {}
    /\ cache = [c \in Clients |-> [u \in Urls |-> NoEntry]]
    /\ req \in [Clients -> {Request("idle", u, {}) : u \in Urls}]

Handle(c) ==
    Authenticate(c) \/ LoadEnvironment(c) \/ ReadFlags(c) \/ ReadConfigs(c) \/ NotFound(c)

Next ==
    \/ CreateEnvironment \/ DeleteEnvironment \/ Write
    \/ \E c \in Clients :
          \/ CreateAPIKey(c) \/ RevokeAPIKey(c)
          \/ \E u \in Urls : Poll(c, u)
          \/ Handle(c) \/ Reply(c) \/ LoseReply(c)

Spec == Init /\ [][Next]_vars

\* The server works on every request it has accepted; the client goes on polling
\* every URL, as the README asks, and not every response to one URL is lost.
Fairness ==
    \A c \in Clients :
       /\ WF_vars(Handle(c))
       /\ \A u \in Urls :
             /\ SF_vars(Poll(c, u))
             /\ SF_vars(req[c].url = u /\ Reply(c))

LiveSpec == Spec /\ Fairness
-----------------------------------------------------------------------------
(* Properties *)

TypeOK ==
    /\ StoreTypeOK
    /\ generation \in Generations
    /\ keyOf \in [Clients -> Generations]
    /\ revoked \subseteq Clients
    /\ cache \in [Clients -> [Urls -> Entries]]
    /\ req \in [Clients -> Requests]

\* The ETag check of the handler would answer 304 to a poll of u now, on the
\* strength of what the client keeps for x.
WouldMatch(c, u, x) ==
    /\ alive
    /\ cache[c][x].held /\ x.endpoint = u.endpoint
    /\ cache[c][x].generation = generation
    /\ cache[c][x].etag = FilteredETag(stamp, u.filter)

\* A 304 never confirms a stale copy, nor the copy of another filter: as long as
\* the id is held by the same environment, a client that is told "not modified"
\* holds exactly the document a 200 would bring, whatever was written while that
\* document was being read (client.go reads the stamp first and the tables
\* afterwards), and whichever filters it keeps ETags of (etag.go, FilteredETag).
NoStale304 ==
    \A c \in Clients, u \in Urls, x \in Urls :
       WouldMatch(c, u, x)
          => cache[c][u].held /\ cache[c][u].body = Answer(content, u)

\* The ETag a client keeps for a URL never goes back while the environment
\* lives: README, Durability, "the ETag never regressed".
EtagNeverRegresses ==
    [][\A c \in Clients, u \in Urls :
          /\ cache[c][u].held
          /\ cache[c][u].generation = cache'[c][u].generation
          => cache'[c][u].etag.stamp >= cache[c][u].etag.stamp]_vars

\* Once an environment is no longer written to, a client with a key ends up with
\* its current document and stays there, for every URL it polls and every record
\* that is there.
EventuallyFresh ==
    \A c \in Clients, u \in Urls :
       <>[][UNCHANGED <<storeVars, keyOf, revoked>>]_vars
       /\ <>[](KeyExists(c) /\ c \notin revoked)
       => <>[](\/ cache[c][u].held /\ cache[c][u].body = Answer(content, u)
               \/ u.endpoint \in Singles /\ Answer(content, u) = NoParts)
=============================================================================
