------------------------------- MODULE Access -------------------------------
(***************************************************************************)
(* A client with an API key beside the panel and everybody else who        *)
(* writes: Require (auth/apikey.go) looks up the row of the key, then      *)
(* loads the environment by the id in it, and only then lets the handler   *)
(* run.  The key's hash is what names its row: a row that gets the id of a *)
(* deleted key is another key's.                                           *)
(***************************************************************************)
EXTENDS Panel

VARIABLES
    key,       \* the client's key: the id of its row, and of its environment
    keyStays,  \* whether these two rows have not been deleted since; history
    call       \* the client's request

accessVars == <<panelVars, key, keyStays, call>>

NoKey    == [id |-> 0, env |-> 0]
KeyTables == {"key", "env"}

\* usable is whether the key was good for anything when the call was sent (history).
NoCall == [at |-> "idle", usable |-> FALSE]
Calls  == [at : {"lookup", "load", "served"}, usable : BOOLEAN]

KeyRow == {x \in items : "key" \in keyStays /\ x.kind = "key" /\ x.id = key.id}

\* A variant of ActiveKey: a revoked key is found as well.
AnyKey == KeyRow
ActiveKey == {x \in KeyRow : x.on}

\* The panel shows the key once, when it has been made.
Obtain ==
    /\ call = NoCall /\ keyStays = {}
    /\ \E x \in items :
          /\ x.kind = "key"
          /\ key' = [id |-> x.id, env |-> x.env]
    /\ keyStays' = KeyTables
    /\ UNCHANGED <<panelVars, call>>

Send ==
    /\ call = NoCall /\ key # NoKey
    /\ call' = [at |-> "lookup",
                usable |-> "env" \in keyStays /\ \E x \in KeyRow : x.on]
    /\ UNCHANGED <<panelVars, key, keyStays>>

\* LookupActiveAPIKey; anything else is a 401.
LookUp ==
    /\ call.at = "lookup"
    /\ call' = IF ActiveKey # {} THEN [call EXCEPT !.at = "load"] ELSE NoCall
    /\ UNCHANGED <<panelVars, key, keyStays>>

\* GetEnvironmentByID with the id from the row that was read: 401 when it is gone.
Load ==
    /\ call.at = "load"
    /\ call' = IF key.env \in IdsOf("env") THEN [call EXCEPT !.at = "served"] ELSE NoCall
    /\ UNCHANGED <<panelVars, key, keyStays>>

Respond ==
    /\ call.at = "served"
    /\ call' = NoCall
    /\ UNCHANGED <<panelVars, key, keyStays>>

\* The panel and everybody else.
Others ==
    /\ PanelNext
    /\ keyStays' = {t \in keyStays : IF t = "key" THEN key.id \in IdsOf("key")'
                                                  ELSE key.env \in IdsOf("env")'}
    /\ UNCHANGED <<key, call>>

AccessInit == PanelInit /\ key = NoKey /\ keyStays = {} /\ call = NoCall

AccessNext == Others \/ Obtain \/ Send \/ LookUp \/ Load \/ Respond

AccessSpec == AccessInit /\ [][AccessNext]_accessVars
-----------------------------------------------------------------------------
(* Properties *)

AccessTypeOK ==
    /\ PanelTypeOK
    /\ key \in [id : ItemIds, env : Ids] \cup {NoKey}
    /\ keyStays \subseteq KeyTables
    /\ call \in Calls \cup {NoCall}

\* README, API keys: a revoked key is refused immediately.  A call is served only if its
\* key was not revoked, and neither the key nor its environment deleted, at the time
\* the call was sent, whoever has their ids by now.
RefusedOnceGone == call.at = "served" => call.usable
=============================================================================
