----------------------------- MODULE Dispatcher -----------------------------
(***************************************************************************)
(* Webhook delivery (internal/webhook, and OnEnvChanged of internal/db):   *)
(* a request handler commits a change and then notifies; the notification  *)
(* goes through a bounded queue into the dispatcher's pending set; at every *)
(* tick the dispatcher takes the set and delivers to one hook after        *)
(* another; the outcome of each attempt is written to the hook's row.  The *)
(* panel's Test button makes the same delivery from a request goroutine.   *)
(***************************************************************************)
EXTENDS Integers, Sequences, FiniteSets

CONSTANTS
    Envs,         \* the environments of one project
    Writers,      \* request handlers that change an environment
    MaxHookId,    \* bound: ids of the webhooks table
    QueueSize,    \* capacity of the channel
    MaxChanges,   \* bound: committed changes
    MaxHooks      \* bound: webhooks ever created

ASSUME DispatcherConstants ==
    /\ MaxHookId \in Nat
    /\ QueueSize \in Nat \ {0}
    /\ MaxChanges \in Nat
    /\ MaxHooks \in Nat

VARIABLES
    hooks,      \* the webhooks table: [id, env, enabled, serial, result]
    made,       \* webhooks created so far; history
    changes,    \* changes committed so far; history
    notifying,  \* notifying[w]: the environments w has changed and not yet notified
    queue,
    pending,
    batch,      \* environments of the current tick still to be delivered
    todo,       \* hooks of the current environment still to be delivered
    sending,    \* attempts under way: the dispatcher's and the panel's
    running,    \* FALSE once the process is stopping
    owed,       \* hooks that have been promised a request; history
    dropped     \* environments whose last change is lost; history

tables   == <<hooks, made>>
pipeline == <<queue, pending, batch, todo>>
vars     == <<tables, changes, notifying, pipeline, sending, running, owed, dropped>>

HookIds == 1 .. MaxHookId
Serials == 1 .. MaxHooks

\* serial tells the holders of an id apart; result names the hook whose attempt
\* was recorded last, 0 for none.  Neither is in the code.
HookRows == [id : HookIds, env : Envs, enabled : BOOLEAN, serial : Serials,
             result : 0 .. MaxHooks]

\* Who is sending: the dispatcher's goroutine, or a Test request.
Senders == {"run", "test"}
NoAttempt == [id |-> 0, serial |-> 0, sent |-> FALSE]
Attempts  == [id : HookIds, serial : Serials, sent : BOOLEAN]

IsNextId(id) ==
    /\ \A h \in hooks : h.id < id
    /\ id = 1 \/ \E h \in hooks : h.id = id - 1
-----------------------------------------------------------------------------
(* A change of an environment. *)

EnabledOn(env) == {h \in hooks : h.env = env /\ h.enabled}
SerialsOf(rows) == {h.serial : h \in rows}

\* A transaction changes one environment; DeleteTag changes all of the project's.
ChangeSets == {{env} : env \in Envs} \cup {Envs}

\* The transaction commits.  Whoever is enabled now is to hear of it.
Commit(w, changed) ==
    /\ running
    /\ notifying[w] = {}
    /\ changes < MaxChanges
    /\ changes' = changes + 1
    /\ notifying' = [notifying EXCEPT ![w] = changed]
    /\ owed' = owed \cup SerialsOf(UNION {EnabledOn(env) : env \in changed})
    /\ dropped' = dropped \ changed
    /\ UNCHANGED <<tables, pipeline, sending, running>>

Queued(env) == \E i \in DOMAIN queue : queue[i] = env
Coming(env) == Queued(env) \/ env \in pending

\* A variant of HasRoom: one too many.
HasRoomForOneMore == Len(queue) <= QueueSize

HasRoom == Len(queue) < QueueSize

\* A notification is lost, which costs nothing when the turn of the environment
\* is still to come anyway.
Drop(env, coming) == dropped' = IF coming THEN dropped ELSE dropped \cup {env}

\* envChanged calls Notify, for one environment after another: into the queue, or
\* dropped when it is full.
Notify(w) ==
    /\ running
    /\ \E env \in notifying[w] :
          /\ \/ /\ HasRoom
                /\ queue' = Append(queue, env)
                /\ UNCHANGED dropped
             \/ /\ ~ HasRoom
                /\ Drop(env, Coming(env) \/ env \in batch)
                /\ UNCHANGED queue
          /\ notifying' = [notifying EXCEPT ![w] = @ \ {env}]
    /\ UNCHANGED <<tables, changes, pending, batch, todo, sending, running, owed>>
-----------------------------------------------------------------------------
(* Run, one goroutine: it only receives and only ticks between two batches. *)

Waiting == running /\ batch = {} /\ todo = <<>> /\ sending["run"] = NoAttempt

Receive ==
    /\ Waiting
    /\ queue # <<>>
    /\ pending' = pending \cup {Head(queue)}
    /\ queue' = Tail(queue)
    /\ UNCHANGED <<tables, changes, notifying, batch, todo, sending, running, owed,
                   dropped>>

\* A variant of Tick: whatever is in the channel belongs to this batch.
TickAndDrain ==
    /\ Waiting
    /\ pending # {}
    /\ batch' = pending
    /\ pending' = {}
    /\ queue' = <<>>
    /\ UNCHANGED <<tables, changes, notifying, todo, sending, running, owed, dropped>>

Tick ==
    /\ Waiting
    /\ pending # {}
    /\ batch' = pending
    /\ pending' = {}
    /\ UNCHANGED <<tables, changes, notifying, queue, todo, sending, running, owed,
                   dropped>>

\* ORDER BY id.
ById(rows) ==
    {s \in [1 .. Cardinality(rows) -> rows] :
        /\ \A i, j \in DOMAIN s : i < j => s[i].id < s[j].id
        /\ \A h \in rows : \E i \in DOMAIN s : s[i] = h}

\* deliverEnvironment reads the enabled hooks of the environment, by id.
ListHooks(env) ==
    /\ running
    /\ todo = <<>> /\ sending["run"] = NoAttempt
    /\ env \in batch
    /\ batch' = batch \ {env}
    /\ todo' \in ById(EnabledOn(env))
    /\ UNCHANGED <<tables, changes, notifying, queue, pending, sending, running,
                   owed, dropped>>

\* ... or fails to, which is logged; nothing puts the environment back.
ListHooksFails(env) ==
    /\ running
    /\ todo = <<>> /\ sending["run"] = NoAttempt
    /\ env \in batch
    /\ batch' = batch \ {env}
    /\ Drop(env, Coming(env))
    /\ UNCHANGED <<tables, changes, notifying, queue, pending, todo, sending, running,
                   owed>>

Attempt(sender, hook) ==
    sending' = [sending EXCEPT
                   ![sender] = [id |-> hook.id, serial |-> hook.serial, sent |-> FALSE]]

\* A variant of StartNext: the first hook ends the loop.
StartFirstOnly ==
    /\ running
    /\ sending["run"] = NoAttempt
    /\ todo # <<>>
    /\ Attempt("run", Head(todo))
    /\ todo' = <<>>
    /\ UNCHANGED <<tables, changes, notifying, queue, pending, batch, running, owed,
                   dropped>>

StartNext ==
    /\ running
    /\ sending["run"] = NoAttempt
    /\ todo # <<>>
    /\ Attempt("run", Head(todo))
    /\ todo' = Tail(todo)
    /\ UNCHANGED <<tables, changes, notifying, queue, pending, batch, running, owed,
                   dropped>>

\* testWebhook: GetWebhook, then the same Deliver.
StartTest(h) ==
    /\ running
    /\ h \in hooks
    /\ sending["test"] = NoAttempt
    /\ Attempt("test", h)
    /\ UNCHANGED <<tables, changes, notifying, pipeline, running, owed, dropped>>

\* client.Do: whatever comes of it, the receiver has had its request, or was
\* not to be reached within the 10 seconds a request may take.
Send(sender) ==
    /\ running
    /\ sending[sender] # NoAttempt /\ ~ sending[sender].sent
    /\ sending' = [sending EXCEPT ![sender].sent = TRUE]
    /\ owed' = owed \ {sending[sender].serial}
    /\ UNCHANGED <<tables, changes, notifying, pipeline, running, dropped>>

\* record: UPDATE webhooks ... WHERE id = ?; no row is no error, and an error is
\* logged.
Record(sender) ==
    /\ sending[sender].sent
    /\ \/ hooks' = {IF h.id = sending[sender].id
                    THEN [h EXCEPT !.result = sending[sender].serial] ELSE h : h \in hooks}
       \/ UNCHANGED hooks
    /\ sending' = [sending EXCEPT ![sender] = NoAttempt]
    /\ UNCHANGED <<made, changes, notifying, pipeline, running, owed, dropped>>
-----------------------------------------------------------------------------
(* The webhooks page, and the end of an environment. *)

CreateWebhook(env) ==
    /\ running
    /\ made < MaxHooks
    /\ \E id \in HookIds :
          /\ IsNextId(id)
          /\ hooks' = hooks \cup {[id |-> id, env |-> env, enabled |-> TRUE,
                                   serial |-> made + 1, result |-> 0]}
    /\ made' = made + 1
    /\ UNCHANGED <<changes, notifying, pipeline, sending, running, owed, dropped>>

\* A hook that is switched off is promised nothing any more.
SetWebhookEnabled(h, enabled) ==
    /\ running
    /\ h \in hooks /\ h.enabled # enabled
    /\ hooks' = (hooks \ {h}) \cup {[h EXCEPT !.enabled = enabled]}
    /\ owed' = owed \ {h.serial}
    /\ UNCHANGED <<made, changes, notifying, pipeline, sending, running, dropped>>

\* DeleteWebhook, or the cascade from DeleteEnvironment and DeleteProject.
DeleteWebhooks(rows) ==
    /\ running
    /\ rows # {}
    /\ hooks' = hooks \ rows
    /\ owed' = owed \ SerialsOf(rows)
    /\ UNCHANGED <<made, changes, notifying, pipeline, sending, running, dropped>>

\* cmdServe returns: the handlers have been waited for (15 seconds, more than a
\* Test takes), the context of the dispatcher is cancelled and the process ends
\* with what it still held.
Shutdown ==
    /\ running
    /\ \A w \in Writers : notifying[w] = {}
    /\ sending["test"] = NoAttempt
    /\ running' = FALSE
    /\ queue' = <<>> /\ pending' = {} /\ batch' = {} /\ todo' = <<>>
    /\ sending' = [s \in Senders |-> NoAttempt]
    /\ UNCHANGED <<tables, changes, notifying, owed, dropped>>
-----------------------------------------------------------------------------
Init ==
    /\ hooks = {} /\ made = 0
    /\ changes = 0
    /\ notifying = [w \in Writers |-> {}]
    /\ queue = <<>> /\ pending = {} /\ batch = {} /\ todo = <<>>
    /\ sending = [s \in Senders |-> NoAttempt]
    /\ running = TRUE
    /\ owed = {} /\ dropped = {}

\* One step of the goroutine, apart from the tick: a receive, or what is left of
\* the batch.
RunStep ==
    \/ Receive \/ StartNext \/ Send("run") \/ Record("run")
    \/ \E env \in Envs : ListHooks(env) \/ ListHooksFails(env)

Next ==
    \/ \E w \in Writers : Notify(w) \/ \E changed \in ChangeSets : Commit(w, changed)
    \/ Tick \/ RunStep
    \/ Send("test") \/ Record("test")
    \/ \E env \in Envs : CreateWebhook(env)
    \/ \E gone \in SUBSET Envs : DeleteWebhooks({h \in hooks : h.env \in gone})
    \/ \E h \in hooks :
          \/ StartTest(h) \/ DeleteWebhooks({h})
          \/ \E enabled \in BOOLEAN : SetWebhookEnabled(h, enabled)
    \/ Shutdown

Spec == Init /\ [][Next]_vars

\* The goroutines that have something to do are scheduled, and a delivery ends
\* after 10 seconds at the latest; select does not leave a ready ticker aside for
\* ever.  Nothing is asked of the requests behind the Test button.
Fairness ==
    /\ \A w \in Writers : WF_vars(Notify(w))
    /\ WF_vars(Tick)
    /\ WF_vars(RunStep)

LiveSpec == Spec /\ Fairness
-----------------------------------------------------------------------------
(* Properties *)

TypeOK ==
    /\ hooks \subseteq HookRows
    /\ made \in 0 .. MaxHooks
    /\ changes \in 0 .. MaxChanges
    /\ notifying \in [Writers -> SUBSET Envs]
    /\ queue \in Seq(Envs) /\ Len(queue) <= QueueSize
    /\ pending \subseteq Envs /\ batch \subseteq Envs
    /\ todo \in Seq(HookRows)
    /\ sending \in [Senders -> Attempts \cup {NoAttempt}]
    /\ running \in BOOLEAN
    /\ owed \subseteq Serials
    /\ dropped \subseteq Envs

\* The hook is going to be called, or its environment is.
OnItsWay(h) ==
    \/ \E w \in Writers : h.env \in notifying[w]
    \/ Queued(h.env) \/ h.env \in pending \cup batch
    \/ \E i \in DOMAIN todo : todo[i].serial = h.serial
    \/ sending["run"].serial = h.serial /\ ~ sending["run"].sent

\* No lost wake-up: while the process runs, a hook that was enabled when a change
\* committed and has not been called since is still on its way to be called,
\* whatever was coalesced, taken for an earlier tick, or listed before; the only
\* exceptions are a change dropped because the queue was full of other environments
\* and one whose hooks could not be read.
NoLostWakeup ==
    running => \A h \in hooks :
                  h.serial \in owed => OnItsWay(h) \/ h.env \in dropped

\* ... and it is called in the end.
EveryChangeDelivered ==
    \A s \in Serials :
       s \in owed ~> \/ s \notin owed
                     \/ ~ running
                     \/ \E h \in hooks : h.serial = s /\ h.env \in dropped
=============================================================================
