-------------------------- MODULE DispatcherProofs --------------------------
(* That no hook is forgotten, proved for Dispatcher, for every number of       *)
(* environments, writers and hooks and every size of the queue.                *)
EXTENDS Dispatcher, FiniteSetTheorems, TLAPS

(***************************************************************************)
(* The inductive invariant.  A hook that is owed a call is enabled, so the *)
(* list of an environment's enabled hooks has it; and a serial belongs to  *)
(* one hook, and is not owed before its hook is made.                      *)
(***************************************************************************)
OwedIsEnabled == \A h \in hooks : h.serial \in owed => h.enabled

OneOfEach ==
    /\ IsFiniteSet(hooks)
    /\ \A h \in hooks : h.serial <= made
    /\ \A g, h \in hooks : g.serial = h.serial => g = h

Inv ==
    /\ TypeOK
    /\ OneOfEach
    /\ \A s \in owed : s <= made
    /\ OwedIsEnabled
    /\ NoLostWakeup

LEMMA Numbers ==
    /\ MaxHookId \in Nat /\ QueueSize \in Nat /\ MaxChanges \in Nat /\ MaxHooks \in Nat
    /\ QueueSize >= 1
BY DispatcherConstants

LEMMA InitInv == Init => Inv
<1> SUFFICES ASSUME Init
             PROVE  Inv
  OBVIOUS
<1>1. TypeOK
  BY Numbers DEF Init, TypeOK, ChangeSets
<1>2. IsFiniteSet(hooks)
  BY FS_EmptySet DEF Init
<1> QED
  BY <1>1, <1>2 DEF Init, Inv, OneOfEach, OwedIsEnabled, NoLostWakeup
-----------------------------------------------------------------------------

(***************************************************************************)
(* What is to be shown of a step that leaves the table alone: every hook   *)
(* that is still owed a call is still on its way to it.                    *)
(***************************************************************************)
StillOwed(h) == h.serial \in owed /\ (OnItsWay(h) \/ h.env \in dropped)

LEMMA SameTable ==
    ASSUME Inv, hooks' = hooks, made' = made, owed' \subseteq owed, running' = running,
           TypeOK',
           \A h \in hooks : StillOwed(h) /\ h.serial \in owed'
                               => OnItsWay(h)' \/ h.env \in dropped'
    PROVE  Inv'
<1>1. NoLostWakeup'
  BY DEF Inv, NoLostWakeup, StillOwed
<1>2. OwedIsEnabled'
  BY DEF Inv, OwedIsEnabled
<1> QED
  BY <1>1, <1>2 DEF Inv, OneOfEach

LEMMA Facts ==
    ASSUME Inv
    PROVE  /\ queue \in Seq(Envs) /\ todo \in Seq(HookRows)
           /\ \A h \in hooks : h \in HookRows /\ h.env \in Envs /\ h.serial \in Serials
           /\ \A s \in Serials : s # 0
           /\ sending \in [Senders -> Attempts \cup {NoAttempt}]
           /\ "run" \in Senders /\ "test" \in Senders
BY DEF Inv, TypeOK, HookRows, Serials, Senders

\* What an entry added to the queue, or taken off, leaves on its way.
LEMMA Appended ==
    ASSUME NEW s \in Seq(Envs), NEW env \in Envs
    PROVE  /\ Append(s, env) \in Seq(Envs)
           /\ Len(Append(s, env)) = Len(s) + 1
           /\ \E i \in DOMAIN Append(s, env) : Append(s, env)[i] = env
           /\ \A other : (\E i \in DOMAIN s : s[i] = other)
                 => \E i \in DOMAIN Append(s, env) : Append(s, env)[i] = other
<1>1. /\ Append(s, env) \in Seq(Envs) /\ Len(Append(s, env)) = Len(s) + 1
      /\ Len(s) + 1 \in DOMAIN Append(s, env) /\ Append(s, env)[Len(s) + 1] = env
      /\ \A i \in DOMAIN s : i \in DOMAIN Append(s, env) /\ Append(s, env)[i] = s[i]
  OBVIOUS
<1> QED
  BY <1>1

LEMMA HeadOff ==
    ASSUME NEW S, NEW s \in Seq(S), s # <<>>
    PROVE  /\ Head(s) \in S /\ Tail(s) \in Seq(S) /\ Len(Tail(s)) = Len(s) - 1
           /\ \A i \in DOMAIN s :
                 \/ s[i] = Head(s)
                 \/ \E j \in DOMAIN Tail(s) : Tail(s)[j] = s[i]
<1>1. /\ Head(s) \in S /\ Tail(s) \in Seq(S) /\ Len(Tail(s)) = Len(s) - 1
      /\ Head(s) = s[1] /\ DOMAIN s = 1 .. Len(s) /\ Len(s) \in Nat
      /\ DOMAIN Tail(s) = 1 .. (Len(s) - 1)
      /\ \A j \in 1 .. (Len(s) - 1) : Tail(s)[j] = s[j + 1]
  OBVIOUS
<1>2. ASSUME NEW i \in DOMAIN s, s[i] # Head(s)
      PROVE  \E j \in DOMAIN Tail(s) : Tail(s)[j] = s[i]
  <2>1. i \in 1 .. Len(s) /\ i # 1
    BY <1>1, <1>2
  <2>2. i - 1 \in 1 .. (Len(s) - 1) /\ (i - 1) + 1 = i
    BY <1>1, <2>1
  <2>3. Tail(s)[i - 1] = s[(i - 1) + 1]
    BY <1>1, <2>2
  <2> QED
    BY <1>1, <2>2, <2>3
<1> QED
  BY <1>1, <1>2
-----------------------------------------------------------------------------
LEMMA CommitStep ==
    ASSUME Inv, NEW w \in Writers, NEW changed \in ChangeSets, Commit(w, changed) PROVE Inv'
<1>1. /\ changed \subseteq Envs
      /\ notifying' = [notifying EXCEPT ![w] = changed] /\ notifying[w] = {}
      /\ owed' = owed \cup SerialsOf(UNION {EnabledOn(env) : env \in changed})
      /\ dropped' = dropped \ changed
      /\ changes < MaxChanges /\ changes' = changes + 1
      /\ UNCHANGED <<tables, pipeline, sending, running>>
  BY DEF Commit, ChangeSets
<1>2. \A s \in owed' : s \in owed \/ \E h \in hooks : h.enabled /\ h.env \in changed /\ h.serial = s
  BY <1>1 DEF SerialsOf, EnabledOn
<1>3. TypeOK'
  <2>1. owed' \subseteq Serials
    BY <1>2, Facts DEF Inv, TypeOK
  <2>2. changes' \in 0 .. MaxChanges
    BY <1>1, Numbers DEF Inv, TypeOK
  <2>3. notifying' \in [Writers -> SUBSET Envs]
    BY <1>1 DEF Inv, TypeOK
  <2> QED
    BY <1>1, <2>1, <2>2, <2>3 DEF Inv, TypeOK, tables, pipeline
<1>4. ASSUME NEW h \in hooks, h.serial \in owed'
      PROVE  h.serial \in owed \/ (h.enabled /\ h.env \in changed)
  BY <1>2, <1>4 DEF Inv, OneOfEach
<1>5. OwedIsEnabled'
  BY <1>1, <1>4 DEF Inv, OwedIsEnabled, tables
<1>6. OneOfEach' /\ \A s \in owed' : s <= made'
  BY <1>1, <1>2 DEF Inv, OneOfEach, tables
<1>7. ASSUME running, NEW h \in hooks, h.serial \in owed'
      PROVE  OnItsWay(h)' \/ h.env \in dropped'
  <2>1. /\ queue' = queue /\ pending' = pending /\ batch' = batch /\ todo' = todo
        /\ sending' = sending
        /\ notifying'[w] = changed
        /\ \A v \in Writers : v # w => notifying'[v] = notifying[v]
    BY <1>1 DEF pipeline, Inv, TypeOK
  <2>2. CASE h.env \in changed
    BY <2>1, <2>2 DEF OnItsWay
  <2>3. CASE h.env \notin changed
    <3>1. OnItsWay(h) \/ h.env \in dropped
      BY <1>4, <1>7, <2>3 DEF Inv, NoLostWakeup
    <3>2. CASE h.env \in dropped
      BY <1>1, <2>3, <3>2
    <3>3. CASE OnItsWay(h)
      BY <1>1, <2>1, <2>3, <3>3 DEF OnItsWay, Queued
    <3> QED
      BY <3>1, <3>2, <3>3
  <2> QED
    BY <2>2, <2>3
<1>8. NoLostWakeup'
  BY <1>1, <1>7 DEF NoLostWakeup, tables
<1> QED
  BY <1>3, <1>5, <1>6, <1>8 DEF Inv

LEMMA NotifyStep == ASSUME Inv, NEW w \in Writers, Notify(w) PROVE Inv'
<1>1. PICK env \in notifying[w] :
         /\ \/ /\ HasRoom
               /\ queue' = Append(queue, env)
               /\ UNCHANGED dropped
            \/ /\ ~ HasRoom
               /\ Drop(env, Coming(env) \/ env \in batch)
               /\ UNCHANGED queue
         /\ notifying' = [notifying EXCEPT ![w] = @ \ {env}]
  BY DEF Notify
<1>2. UNCHANGED <<tables, changes, pending, batch, todo, sending, running, owed>>
  BY DEF Notify
<1>3. /\ env \in Envs
      /\ notifying' \in [Writers -> SUBSET Envs]
      /\ \A e : e # env /\ (\E v \in Writers : e \in notifying[v])
                   => \E v \in Writers : e \in notifying'[v]
  BY <1>1 DEF Inv, TypeOK
<1>4. /\ queue' \in Seq(Envs) /\ Len(queue') <= QueueSize
      /\ \A e : Queued(e) => Queued(e)'
      /\ dropped' \subseteq Envs /\ dropped \subseteq dropped'
      /\ Queued(env)' \/ env \in pending \cup batch \/ env \in dropped'
  <2>1. CASE HasRoom /\ queue' = Append(queue, env) /\ dropped' = dropped
    <3>1. Len(queue) + 1 <= QueueSize
      BY <2>1, Numbers, Facts DEF HasRoom
    <3>2. /\ queue' \in Seq(Envs) /\ Len(queue') = Len(queue) + 1
          /\ \E i \in DOMAIN queue' : queue'[i] = env
          /\ \A e : (\E i \in DOMAIN queue : queue[i] = e)
                => \E i \in DOMAIN queue' : queue'[i] = e
      <4> DEFINE longer == Append(queue, env)
      <4>1. queue \in Seq(Envs) /\ env \in Envs /\ queue' = longer
        BY <1>3, <2>1, Facts
      <4>2. /\ longer \in Seq(Envs) /\ Len(longer) = Len(queue) + 1
            /\ \E i \in DOMAIN longer : longer[i] = env
            /\ \A e : (\E i \in DOMAIN queue : queue[i] = e)
                  => \E i \in DOMAIN longer : longer[i] = e
        BY <4>1, Appended, Zenon
      <4> HIDE DEF longer
      <4> QED
        BY <4>1, <4>2, Zenon
    <3>3. dropped' \subseteq Envs /\ dropped \subseteq dropped'
      BY <2>1 DEF Inv, TypeOK
    <3> QED
      BY <3>1, <3>2, <3>3 DEF Queued
  <2>2. CASE Drop(env, Coming(env) \/ env \in batch) /\ queue' = queue
    BY <1>3, <2>2 DEF Drop, Coming, Queued, Inv, TypeOK
  <2> QED
    BY <1>1, <2>1, <2>2
<1>5. TypeOK'
  BY <1>2, <1>3, <1>4 DEF Inv, TypeOK, tables
<1>6. ASSUME NEW h \in hooks, OnItsWay(h) \/ h.env \in dropped
      PROVE  OnItsWay(h)' \/ h.env \in dropped'
  <2>1. CASE h.env = env
    BY <1>2, <1>4, <2>1 DEF OnItsWay
  <2>2. CASE h.env # env
    BY <1>2, <1>3, <1>4, <1>6, <2>2 DEF OnItsWay
  <2> QED
    BY <2>1, <2>2
<1> QED
  BY <1>2, <1>5, <1>6, SameTable DEF tables, StillOwed

LEMMA ReceiveStep == ASSUME Inv, Receive PROVE Inv'
<1>1. /\ queue # <<>>
      /\ pending' = pending \cup {Head(queue)} /\ queue' = Tail(queue)
      /\ UNCHANGED <<tables, changes, notifying, batch, todo, sending, running, owed, dropped>>
  BY DEF Receive
<1>2. /\ Head(queue) \in Envs /\ Tail(queue) \in Seq(Envs)
      /\ Len(Tail(queue)) = Len(queue) - 1
  BY <1>1, Facts, HeadOff
<1>3. \A e : Queued(e) => Queued(e)' \/ e \in pending'
  BY <1>1, Facts, HeadOff DEF Queued
<1>4. Len(Tail(queue)) <= QueueSize
  BY <1>2, Numbers, Facts DEF Inv, TypeOK
<1>5. TypeOK'
  BY <1>1, <1>2, <1>4 DEF Inv, TypeOK, tables
<1>6. ASSUME NEW h \in hooks, OnItsWay(h)
      PROVE  OnItsWay(h)'
  BY <1>1, <1>3, <1>6 DEF OnItsWay
<1> QED
  BY <1>1, <1>5, <1>6, SameTable DEF tables, StillOwed

LEMMA TickStep == ASSUME Inv, Tick PROVE Inv'
<1>1. /\ batch = {} /\ batch' = pending /\ pending' = {}
      /\ UNCHANGED <<tables, changes, notifying, queue, todo, sending, running, owed, dropped>>
  BY DEF Tick, Waiting
<1>2. TypeOK'
  BY <1>1 DEF Inv, TypeOK, tables
<1>3. ASSUME NEW h \in hooks, OnItsWay(h)
      PROVE  OnItsWay(h)'
  BY <1>1, <1>3 DEF OnItsWay, Queued
<1> QED
  BY <1>1, <1>2, <1>3, SameTable DEF tables, StillOwed

\* The enabled hooks of the environment are all in the list, and hooks that are owed
\* a call are enabled.
LEMMA ListHooksStep == ASSUME Inv, NEW env \in Envs, ListHooks(env) PROVE Inv'
<1>1. /\ todo = <<>> /\ sending["run"] = NoAttempt
      /\ batch' = batch \ {env} /\ todo' \in ById(EnabledOn(env))
      /\ UNCHANGED <<tables, changes, notifying, queue, pending, sending, running, owed,
                     dropped>>
  BY DEF ListHooks
<1>2. /\ EnabledOn(env) \subseteq hooks /\ EnabledOn(env) \subseteq HookRows
      /\ Cardinality(EnabledOn(env)) \in Nat
  <2>1. EnabledOn(env) \in SUBSET hooks /\ hooks \subseteq HookRows
    BY DEF EnabledOn, Inv, TypeOK
  <2>2. IsFiniteSet(EnabledOn(env))
    BY <2>1, FS_Subset DEF Inv, OneOfEach
  <2> QED
    BY <2>1, <2>2, FS_CardinalityType
<1>3. /\ todo' \in [1 .. Cardinality(EnabledOn(env)) -> EnabledOn(env)]
      /\ \A h \in EnabledOn(env) : \E i \in DOMAIN todo' : todo'[i] = h
  BY <1>1 DEF ById
<1>4. todo' \in Seq(HookRows)
  <2>1. todo' \in [1 .. Cardinality(EnabledOn(env)) -> HookRows]
    BY <1>2, <1>3
  <2> QED
    BY <1>2, <2>1
<1>5. TypeOK'
  BY <1>1, <1>4 DEF Inv, TypeOK, tables
<1>6. ASSUME NEW h \in hooks, StillOwed(h)
      PROVE  OnItsWay(h)' \/ h.env \in dropped'
  <2>1. CASE h.env = env
    <3>1. h \in EnabledOn(env)
      BY <1>6, <2>1 DEF Inv, OwedIsEnabled, EnabledOn, StillOwed
    <3> QED
      BY <1>3, <3>1 DEF OnItsWay
  <2>2. CASE h.env # env
    <3>1. ~ \E i \in DOMAIN todo : todo[i].serial = h.serial
      BY <1>1
    <3> QED
      BY <1>1, <1>6, <2>2, <3>1 DEF OnItsWay, StillOwed, Queued
  <2> QED
    BY <2>1, <2>2
<1> QED
  BY <1>1, <1>5, <1>6, SameTable DEF tables

LEMMA ListHooksFailsStep == ASSUME Inv, NEW env \in Envs, ListHooksFails(env) PROVE Inv'
<1>1. /\ batch' = batch \ {env} /\ Drop(env, Coming(env))
      /\ UNCHANGED <<tables, changes, notifying, queue, pending, todo, sending, running, owed>>
  BY DEF ListHooksFails
<1>2. /\ dropped' \subseteq Envs /\ dropped \subseteq dropped'
      /\ Coming(env) \/ env \in dropped'
  BY <1>1 DEF Drop, Inv, TypeOK
<1>3. TypeOK'
  BY <1>1, <1>2 DEF Inv, TypeOK, tables
<1>4. ASSUME NEW h \in hooks, StillOwed(h)
      PROVE  OnItsWay(h)' \/ h.env \in dropped'
  <2>1. CASE h.env = env
    BY <1>1, <1>2, <2>1 DEF OnItsWay, Coming, Queued
  <2>2. CASE h.env # env
    BY <1>1, <1>2, <1>4, <2>2 DEF OnItsWay, StillOwed, Queued
  <2> QED
    BY <2>1, <2>2
<1> QED
  BY <1>1, <1>3, <1>4, SameTable DEF tables
-----------------------------------------------------------------------------
LEMMA AttemptFacts ==
    ASSUME Inv, NEW s \in Senders, NEW new \in Attempts \cup {NoAttempt},
           sending' = [sending EXCEPT ![s] = new]
    PROVE  /\ sending' \in [Senders -> Attempts \cup {NoAttempt}]
           /\ sending'[s] = new
           /\ \A o \in Senders : o # s => sending'[o] = sending[o]
BY Facts

LEMMA NewAttempt ==
    ASSUME NEW h \in HookRows
    PROVE  /\ [id |-> h.id, serial |-> h.serial, sent |-> FALSE] \in Attempts
           /\ [id |-> h.id, serial |-> h.serial, sent |-> FALSE].serial = h.serial
           /\ ~ [id |-> h.id, serial |-> h.serial, sent |-> FALSE].sent
BY DEF HookRows, Attempts

\* The next of the list is being called, the others are in the list still.
LEMMA StartNextStep == ASSUME Inv, StartNext PROVE Inv'
<1> DEFINE new == [id |-> Head(todo).id, serial |-> Head(todo).serial, sent |-> FALSE]
<1>1. /\ sending["run"] = NoAttempt /\ todo # <<>> /\ todo' = Tail(todo)
      /\ sending' = [sending EXCEPT !["run"] = new]
      /\ UNCHANGED <<tables, changes, notifying, queue, pending, batch, running, owed, dropped>>
  BY DEF StartNext, Attempt
<1>2. /\ Head(todo) \in HookRows /\ Tail(todo) \in Seq(HookRows)
      /\ \A i \in DOMAIN todo : \/ todo[i] = Head(todo)
                                \/ \E j \in DOMAIN Tail(todo) : Tail(todo)[j] = todo[i]
  BY <1>1, Facts, HeadOff
<1>3. new \in Attempts /\ new.serial = Head(todo).serial /\ ~ new.sent
  BY <1>2, NewAttempt
<1> HIDE DEF new
<1>4. sending' \in [Senders -> Attempts \cup {NoAttempt}] /\ sending'["run"] = new
  BY <1>1, <1>3, Facts, AttemptFacts
<1>5. TypeOK'
  BY <1>1, <1>2, <1>4 DEF Inv, TypeOK, tables
<1>6. ASSUME NEW h \in hooks, OnItsWay(h)
      PROVE  OnItsWay(h)'
  <2>1. ~ (sending["run"].serial = h.serial)
    BY <1>1, Facts DEF NoAttempt
  <2>2. CASE \E i \in DOMAIN todo : todo[i].serial = h.serial
    BY <1>1, <1>2, <1>3, <1>4, <2>2 DEF OnItsWay
  <2>3. CASE ~ \E i \in DOMAIN todo : todo[i].serial = h.serial
    BY <1>1, <1>6, <2>1, <2>3 DEF OnItsWay, Queued
  <2> QED
    BY <2>2, <2>3
<1> QED
  BY <1>1, <1>5, <1>6, SameTable DEF tables, StillOwed

LEMMA StartTestStep == ASSUME Inv, NEW g, StartTest(g) PROVE Inv'
<1> DEFINE new == [id |-> g.id, serial |-> g.serial, sent |-> FALSE]
<1>1. /\ g \in HookRows
      /\ sending' = [sending EXCEPT !["test"] = new]
      /\ UNCHANGED <<tables, changes, notifying, pipeline, running, owed, dropped>>
  BY Facts DEF StartTest, Attempt
<1>2. new \in Attempts
  BY <1>1, NewAttempt
<1> HIDE DEF new
<1>3. sending' \in [Senders -> Attempts \cup {NoAttempt}] /\ sending'["run"] = sending["run"]
  BY <1>1, <1>2, Facts, AttemptFacts
<1>4. TypeOK'
  BY <1>1, <1>3 DEF Inv, TypeOK, tables, pipeline
<1>5. ASSUME NEW h \in hooks, OnItsWay(h)
      PROVE  OnItsWay(h)'
  BY <1>1, <1>3, <1>5 DEF OnItsWay, Queued, pipeline
<1> QED
  BY <1>1, <1>4, <1>5, SameTable DEF tables, StillOwed

LEMMA SendStep == ASSUME Inv, NEW s \in Senders, Send(s) PROVE Inv'
<1> DEFINE new == [sending[s] EXCEPT !.sent = TRUE]
<1>1. /\ sending[s] # NoAttempt
      /\ sending' = [sending EXCEPT ![s].sent = TRUE]
      /\ owed' = owed \ {sending[s].serial}
      /\ UNCHANGED <<tables, changes, notifying, pipeline, running, dropped>>
  BY DEF Send
<1>2. sending[s] \in Attempts
  BY <1>1, Facts
<1>3. new \in Attempts /\ sending' = [sending EXCEPT ![s] = new]
  BY <1>1, <1>2, Facts DEF Attempts
<1> HIDE DEF new
<1>4. /\ sending' \in [Senders -> Attempts \cup {NoAttempt}]
      /\ s # "run" => sending'["run"] = sending["run"]
  BY <1>3, Facts, AttemptFacts
<1>5. TypeOK'
  BY <1>1, <1>4 DEF Inv, TypeOK, tables, pipeline
<1>6. ASSUME NEW h \in hooks, OnItsWay(h), h.serial \in owed'
      PROVE  OnItsWay(h)'
  <2>1. s = "run" => sending["run"].serial # h.serial
    BY <1>1, <1>6
  <2> QED
    BY <1>1, <1>4, <1>6, <2>1 DEF OnItsWay, Queued, pipeline
<1> QED
  BY <1>1, <1>5, <1>6, SameTable DEF tables, StillOwed

LEMMA ShutdownStep == ASSUME Inv, Shutdown PROVE Inv'
<1>1. /\ running' = FALSE
      /\ queue' = <<>> /\ pending' = {} /\ batch' = {} /\ todo' = <<>>
      /\ sending' = [s \in Senders |-> NoAttempt]
      /\ UNCHANGED <<tables, changes, notifying, owed, dropped>>
  BY DEF Shutdown
<1>2. TypeOK'
  <2>1. sending' \in [Senders -> Attempts \cup {NoAttempt}]
    BY <1>1
  <2>2. queue' \in Seq(Envs) /\ Len(queue') <= QueueSize /\ todo' \in Seq(HookRows)
    BY <1>1, Numbers
  <2> QED
    BY <1>1, <2>1, <2>2 DEF Inv, TypeOK, tables
<1> QED
  BY <1>1, <1>2 DEF Inv, NoLostWakeup, OneOfEach, OwedIsEnabled, tables
-----------------------------------------------------------------------------
(***************************************************************************)
(* Steps on the table.  What leaves the pipeline alone leaves on its way   *)
(* every hook of the same environment and serial.                          *)
(***************************************************************************)
LEMMA SamePipeline ==
    ASSUME Inv, notifying' = notifying, UNCHANGED pipeline, running' = running,
           owed' \subseteq owed, dropped' = dropped,
           \/ sending' = sending
           \/ sending["run"].sent \/ sending'["run"] = sending["run"],
           TypeOK', OneOfEach', made <= made', made' \in Nat,
           \A h \in hooks' : h.serial \in owed' =>
              h.enabled /\ \E g \in hooks : g.serial = h.serial /\ g.env = h.env
    PROVE  Inv'
<1>1. /\ queue' = queue /\ pending' = pending /\ batch' = batch /\ todo' = todo
  BY DEF pipeline
<1>2. ASSUME NEW h \in hooks', NEW g \in hooks, g.serial = h.serial, g.env = h.env,
             OnItsWay(g)
      PROVE  OnItsWay(h)'
  BY <1>1, <1>2 DEF OnItsWay, Queued
<1>3. NoLostWakeup'
  BY <1>2 DEF Inv, NoLostWakeup
<1>4. OwedIsEnabled'
  BY DEF OwedIsEnabled
<1>5. \A s \in owed' : s <= made'
  <2>1. \A s \in owed : s \in Int /\ s <= made
    BY DEF Inv, TypeOK, Serials
  <2>2. made \in Int
    BY DEF Inv, TypeOK
  <2> QED
    BY <2>1, <2>2
<1> QED
  BY <1>3, <1>4, <1>5 DEF Inv

\* The outcome goes into the row, if there is one; it changes nothing else of it.
LEMMA RecordStep == ASSUME Inv, NEW s \in Senders, Record(s) PROVE Inv'
<1> DEFINE row(h) == IF h.id = sending[s].id
                     THEN [h EXCEPT !.result = sending[s].serial] ELSE h
<1>1. /\ sending[s].sent
      /\ hooks' = {row(h) : h \in hooks} \/ hooks' = hooks
      /\ sending' = [sending EXCEPT ![s] = NoAttempt]
      /\ UNCHANGED <<made, changes, notifying, pipeline, running, owed, dropped>>
  BY DEF Record
<1>2. sending[s] \in Attempts
  BY <1>1, Facts DEF NoAttempt
<1>3. \A h \in hooks : /\ row(h) \in HookRows
                       /\ row(h).serial = h.serial /\ row(h).env = h.env
                       /\ row(h).enabled = h.enabled
  <2>1. sending[s].serial \in 0 .. MaxHooks
    BY <1>2, Numbers DEF Attempts, Serials
  <2> SUFFICES ASSUME NEW h \in hooks
               PROVE  /\ row(h) \in HookRows
                      /\ row(h).serial = h.serial /\ row(h).env = h.env
                      /\ row(h).enabled = h.enabled
    OBVIOUS
  <2>2. h \in HookRows
    BY Facts
  <2> QED
    BY <2>1, <2>2 DEF HookRows
<1> HIDE DEF row
<1>4. OneOfEach'
  <2>1. CASE hooks' = hooks
    BY <1>1, <2>1 DEF Inv, OneOfEach
  <2>2. CASE hooks' = {row(h) : h \in hooks}
    <3>1. IsFiniteSet(hooks')
      <4> DEFINE f == [h \in hooks |-> row(h)]
      <4>1. f \in Surjection(hooks, hooks')
        BY <2>2 DEF Surjection
      <4> HIDE DEF f
      <4> QED
        BY <4>1, FS_Surjection DEF Inv, OneOfEach
    <3>2. \A h \in hooks' : \E g \in hooks : h = row(g) /\ h.serial = g.serial
      BY <1>3, <2>2
    <3>3. \A h \in hooks' : h.serial <= made'
      BY <1>1, <3>2 DEF Inv, OneOfEach
    <3>4. \A g, h \in hooks' : g.serial = h.serial => g = h
      BY <3>2 DEF Inv, OneOfEach
    <3> QED
      BY <3>1, <3>3, <3>4 DEF OneOfEach
  <2> QED
    BY <1>1, <2>1, <2>2
<1>5. hooks' \subseteq HookRows
  BY <1>1, <1>3, Facts
<1>6. /\ sending' \in [Senders -> Attempts \cup {NoAttempt}]
      /\ s # "run" => sending'["run"] = sending["run"]
  BY <1>1, Facts, AttemptFacts
<1>7. TypeOK'
  BY <1>1, <1>5, <1>6 DEF Inv, TypeOK, pipeline
<1>8. \A h \in hooks' : h.serial \in owed' =>
         h.enabled /\ \E g \in hooks : g.serial = h.serial /\ g.env = h.env
  BY <1>1, <1>3 DEF Inv, OwedIsEnabled
<1>9. made <= made' /\ made' \in Nat
  BY <1>1 DEF Inv, TypeOK
<1> QED
  BY <1>1, <1>4, <1>6, <1>7, <1>8, <1>9, SamePipeline

LEMMA CreateWebhookStep == ASSUME Inv, NEW env \in Envs, CreateWebhook(env) PROVE Inv'
<1>1. PICK id \in HookIds :
         hooks' = hooks \cup {[id |-> id, env |-> env, enabled |-> TRUE,
                               serial |-> made + 1, result |-> 0]}
  BY DEF CreateWebhook
<1> DEFINE new == [id |-> id, env |-> env, enabled |-> TRUE, serial |-> made + 1, result |-> 0]
<1>2. /\ made < MaxHooks /\ made' = made + 1
      /\ UNCHANGED <<changes, notifying, pipeline, sending, running, owed, dropped>>
  BY DEF CreateWebhook
<1>3. made \in Nat /\ made' \in 0 .. MaxHooks /\ made' \in Serials
  BY <1>2, Numbers DEF Inv, TypeOK, Serials
<1>4. /\ new \in HookRows /\ new.serial = made' /\ hooks' = hooks \cup {new}
      /\ new.enabled
  BY <1>1, <1>2, <1>3, Numbers DEF HookRows
<1> HIDE DEF new
<1>5. TypeOK'
  BY <1>2, <1>3, <1>4 DEF Inv, TypeOK, pipeline
<1>6. \A h \in hooks : h.serial \in Int /\ h.serial <= made
  BY Facts DEF Inv, OneOfEach, Serials
<1>7. OneOfEach'
  <2>1. IsFiniteSet(hooks')
    BY <1>4, FS_AddElement DEF Inv, OneOfEach
  <2>2. \A h \in hooks' : h.serial <= made'
    BY <1>2, <1>3, <1>4, <1>6
  <2>3. \A h \in hooks : h.serial # new.serial
    BY <1>2, <1>3, <1>4, <1>6
  <2>4. \A g, h \in hooks' : g.serial = h.serial => g = h
    BY <1>4, <2>3 DEF Inv, OneOfEach
  <2> QED
    BY <2>1, <2>2, <2>4 DEF OneOfEach
<1>8. new.serial \notin owed'
  <2>1. \A s \in owed : s \in Int /\ s <= made
    BY DEF Inv, TypeOK, Serials
  <2> QED
    BY <1>2, <1>3, <1>4, <2>1
<1>9. \A h \in hooks' : h.serial \in owed' =>
         h.enabled /\ \E g \in hooks : g.serial = h.serial /\ g.env = h.env
  BY <1>2, <1>4, <1>8 DEF Inv, OwedIsEnabled
<1>10. made <= made' /\ made' \in Nat
  BY <1>2, <1>3
<1> QED
  BY <1>2, <1>5, <1>7, <1>9, <1>10, SamePipeline

LEMMA SetWebhookEnabledStep ==
    ASSUME Inv, NEW g \in hooks, NEW enabled \in BOOLEAN, SetWebhookEnabled(g, enabled)
    PROVE  Inv'
<1> DEFINE new == [g EXCEPT !.enabled = enabled]
<1>1. /\ hooks' = (hooks \ {g}) \cup {new}
      /\ owed' = owed \ {g.serial}
      /\ UNCHANGED <<made, changes, notifying, pipeline, sending, running, dropped>>
  BY DEF SetWebhookEnabled
<1>2. new \in HookRows /\ new.serial = g.serial
  BY Facts DEF HookRows
<1> HIDE DEF new
<1>3. TypeOK'
  BY <1>1, <1>2 DEF Inv, TypeOK, pipeline
<1>4. OneOfEach'
  <2>1. IsFiniteSet(hooks')
    BY <1>1, FS_AddElement, FS_RemoveElement DEF Inv, OneOfEach
  <2> QED
    BY <1>1, <1>2, <2>1 DEF Inv, OneOfEach
<1>5. \A h \in hooks' : h.serial \in owed' =>
         h.enabled /\ \E f \in hooks : f.serial = h.serial /\ f.env = h.env
  BY <1>1, <1>2 DEF Inv, OwedIsEnabled
<1>6. made <= made' /\ made' \in Nat
  BY <1>1 DEF Inv, TypeOK
<1> QED
  BY <1>1, <1>3, <1>4, <1>5, <1>6, SamePipeline

LEMMA DeleteWebhooksStep == ASSUME Inv, NEW rows, DeleteWebhooks(rows) PROVE Inv'
<1>1. /\ hooks' = hooks \ rows /\ owed' = owed \ SerialsOf(rows)
      /\ UNCHANGED <<made, changes, notifying, pipeline, sending, running, dropped>>
  BY DEF DeleteWebhooks
<1>2. TypeOK'
  BY <1>1 DEF Inv, TypeOK, pipeline
<1>3. OneOfEach'
  <2>1. hooks' \in SUBSET hooks
    BY <1>1
  <2>2. IsFiniteSet(hooks')
    BY <2>1, FS_Subset DEF Inv, OneOfEach
  <2> QED
    BY <1>1, <2>2 DEF Inv, OneOfEach
<1>4. \A h \in hooks' : h.serial \in owed' =>
         h.enabled /\ \E f \in hooks : f.serial = h.serial /\ f.env = h.env
  BY <1>1 DEF Inv, OwedIsEnabled
<1>5. made <= made' /\ made' \in Nat
  BY <1>1 DEF Inv, TypeOK
<1> QED
  BY <1>1, <1>2, <1>3, <1>4, <1>5, SamePipeline
-----------------------------------------------------------------------------
LEMMA StepInv == ASSUME Inv, [Next]_vars PROVE Inv'
<1>1. CASE UNCHANGED vars
  BY <1>1 DEF vars, tables, pipeline, Inv, TypeOK, OneOfEach, OwedIsEnabled, NoLostWakeup,
              OnItsWay, Queued
<1>2. CASE \E w \in Writers : Notify(w) \/ \E changed \in ChangeSets : Commit(w, changed)
  BY <1>2, NotifyStep, CommitStep
<1>3. CASE Tick \/ RunStep
  BY <1>3, Facts, TickStep, ReceiveStep, StartNextStep, SendStep, RecordStep, ListHooksStep,
     ListHooksFailsStep DEF RunStep
<1>4. CASE Send("test") \/ Record("test")
  BY <1>4, Facts, SendStep, RecordStep
<1>5. CASE \E env \in Envs : CreateWebhook(env)
  BY <1>5, CreateWebhookStep
<1>6. CASE \E gone \in SUBSET Envs : DeleteWebhooks({h \in hooks : h.env \in gone})
  BY <1>6, DeleteWebhooksStep
<1>7. CASE \E h \in hooks :
             \/ StartTest(h) \/ DeleteWebhooks({h})
             \/ \E enabled \in BOOLEAN : SetWebhookEnabled(h, enabled)
  BY <1>7, StartTestStep, DeleteWebhooksStep, SetWebhookEnabledStep
<1>8. CASE Shutdown
  BY <1>8, ShutdownStep
<1> QED
  BY <1>1, <1>2, <1>3, <1>4, <1>5, <1>6, <1>7, <1>8 DEF Next

LEMMA DispatcherInvariant == Spec => []Inv
BY InitInv, StepInv, PTL DEF Spec

\* Whatever is queued, coalesced and delivered, the queue stays within its capacity
\* and every list and set holds what it should.
THEOREM DispatcherTypeCorrect == Spec => []TypeOK
<1>1. Inv => TypeOK
  BY DEF Inv
<1> QED
  BY <1>1, DispatcherInvariant, PTL

\* A hook that is owed a call is on its way to it, or its environment's turn was given
\* up by a full queue or a failed read.
THEOREM NoLostWakeupCorrect == Spec => []NoLostWakeup
<1>1. Inv => NoLostWakeup
  BY DEF Inv
<1> QED
  BY <1>1, DispatcherInvariant, PTL
=============================================================================
