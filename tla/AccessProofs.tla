---------------------------- MODULE AccessProofs ----------------------------
(* What the forms of the panel act on, and when a client's key stops opening:  *)
(* proved for Access, with a form and a call beside any other writes.          *)
EXTENDS Access, StorageProofs

(***************************************************************************)
(* The inductive invariant.  The tables: ids and slugs name one row each,  *)
(* and a row refers to one that exists.                                    *)
(***************************************************************************)
Slugs ==
    /\ \A p, q \in projects : p.slug = q.slug => p = q
    /\ \A e, f \in envs : e.project = f.project /\ e.slug = f.slug => e = f

Items ==
    /\ items \subseteq ItemRow
    /\ \A x \in items : \E e \in envs : e.id = x.env
    /\ \A x, y \in items : x.kind = y.kind /\ x.id = y.id => x = y

TablesStand == TypeOK /\ UniqueIds /\ NoOrphans /\ Slugs /\ Items

(***************************************************************************)
(* The form: while the environment, or the project, of the page has not    *)
(* been deleted, the slugs of the page lead to it and to nothing else, so  *)
(* the ids that the handler has made of them are its ids.                  *)
(***************************************************************************)
PageStands ==
    /\ req # NoForm \/ stays # {} => page \in Pages
    /\ page.target = "project" => "env" \notin stays /\ req.at \notin {"env", "read"}
    /\ page.target = "env" /\ "row" \in stays => "env" \in stays /\ page.row = page.env

EnvironmentShown ==
    "env" \in stays =>
       \E e \in envs, p \in projects :
          /\ e.id = page.env /\ e.slug = page.envSlug
          /\ e.project = p.id /\ p.slug = page.slug
          /\ req.at \in {"env", "read", "act"} => req.project = p.id
          /\ req.at \in {"read", "act"} => req.env = e.id

ProjectShown ==
    page.target = "project" /\ "row" \in stays =>
       \E p \in projects :
          /\ p.id = page.row /\ p.slug = page.slug
          /\ req.at = "act" => req.project = p.id

(***************************************************************************)
(* The call: a key's row does not come back to life, its environment does  *)
(* not go without it, and it does not change its environment.              *)
(***************************************************************************)
KeyStands ==
    /\ keyStays # {} => key \in [id : ItemIds, env : Ids]
    /\ "key" \in keyStays =>
          /\ "env" \in keyStays
          /\ \E x \in items : x.kind = "key" /\ x.id = key.id /\ x.env = key.env

CallStands ==
    /\ call.at = "lookup" /\ ~ call.usable => ActiveKey = {}
    /\ call.at \in {"load", "served"} => call.usable

Inv ==
    /\ TablesStand
    /\ page \in Pages \cup {NoPage}
    /\ stays \subseteq ShownRows
    /\ req \in Forms \cup {NoForm}
    /\ touched \in Touches \cup {Untouched}
    /\ PageStands /\ EnvironmentShown /\ ProjectShown
    /\ key \in [id : ItemIds, env : Ids] \cup {NoKey}
    /\ keyStays \subseteq KeyTables
    /\ call \in Calls \cup {NoCall}
    /\ KeyStands /\ CallStands
-----------------------------------------------------------------------------
(***************************************************************************)
(* A write of the panel, or of anybody else.                               *)
(***************************************************************************)
Write ==
    \/ \E slug \in ProjectSlugs : CreateProject(slug, 0) /\ UNCHANGED items
    \/ \E p \in projects, slug \in EnvSlugs : CreateEnvironment(p, slug, 0) /\ UNCHANGED items
    \/ \E kind \in ItemKinds, e \in envs : CreateItem(kind, e.id)
    \/ \E p \in projects : DropProject(p)
    \/ \E e \in envs : DropEnvironment(e)
    \/ \E x \in items : DeleteItem(x) \/ \E on \in BOOLEAN : Switch(x, on)
    \/ UNCHANGED <<vars, items>>

LEMMA EnvIds == \A id : id \in IdsOf("env") <=> \E e \in envs : e.id = id
BY DEF IdsOf

LEMMA EnvIdsAfter == \A id : id \in IdsOf("env")' <=> \E e \in envs' : e.id = id
BY DEF IdsOf

LEMMA ProjectIdsAfter == \A id : id \in IdsOf("project")' <=> \E p \in projects' : p.id = id
BY DEF IdsOf

LEMMA KeyIdsAfter == \A id : id \in IdsOf("key")' <=> \E x \in items' : x.kind = "key" /\ x.id = id
BY DEF IdsOf

\* On the tables of Storage it is a step of Storage.
LEMMA WriteIsStorageStep == ASSUME Write PROVE [Next]_vars
<1>1. 0 \in Stamps
  BY StorageBounds DEF Stamps
<1> QED
  BY <1>1 DEF Write, Next, CreateItem, DropProject, DropEnvironment, DeleteItem, Switch

LEMMA StorageKeeps ==
    ASSUME TypeOK, UniqueIds, NoOrphans, Write
    PROVE  TypeOK' /\ UniqueIds' /\ NoOrphans'
BY WriteIsStorageStep, StepType, StepUnique, StepNoOrphans

\* No write adds rows and takes others away.
LEMMA OneWay ==
    ASSUME Write
    PROVE  /\ projects \subseteq projects' \/ projects' \subseteq projects
           /\ envs \subseteq envs' \/ envs' \subseteq envs
BY DEF Write, CreateProject, CreateEnvironment, CreateItem, DropProject, DeleteProject,
       DropEnvironment, DeleteEnvironment, DeleteItem, Switch, vars

LEMMA SlugsKept == ASSUME TypeOK, UniqueIds, NoOrphans, Slugs, Write PROVE Slugs'
<1>1. ASSUME NEW slug \in ProjectSlugs, CreateProject(slug, 0)
      PROVE  Slugs'
  <2>1. PICK p \in Ids, e \in Ids :
           /\ IsNextId(projects, p)
           /\ projects' = projects \cup {[id |-> p, slug |-> slug]}
           /\ envs' = envs \cup {[id |-> e, project |-> p, slug |-> DefaultEnvironment,
                                  stamp |-> 0]}
    BY <1>1 DEF CreateProject
  <2>2. \A q \in projects : q.id \in Ids /\ q.id # p
    BY <2>1, NextIdIsFresh DEF TypeOK, ProjectRow
  <2>3. \A q \in projects : q.slug # slug
    BY <1>1 DEF CreateProject
  <2>4. \A f \in envs : f.project # p
    BY <2>2 DEF NoOrphans
  <2> QED
    BY <2>1, <2>3, <2>4 DEF Slugs
<1>2. ASSUME NEW p \in projects, NEW slug \in EnvSlugs, CreateEnvironment(p, slug, 0)
      PROVE  Slugs'
  BY <1>2 DEF CreateEnvironment, Slugs
<1>3. ASSUME projects' \subseteq projects, envs' \subseteq envs
      PROVE  Slugs'
  BY <1>3 DEF Slugs
<1> QED
  BY <1>1, <1>2, <1>3 DEF Write, CreateItem, DropProject, DeleteProject,
       DropEnvironment, DeleteEnvironment, DeleteItem, Switch, vars

\* A row that shares its kind and id with one before the write is the same row, in the
\* same environment; and a key that is active was so before.
SameItems ==
    \A x \in items, y \in items' :
       x.kind = y.kind /\ x.id = y.id
          => y.env = x.env /\ (x.kind = "key" /\ y.on => x.on)

LEMMA ItemsKept == ASSUME TablesStand, Write PROVE Items' /\ SameItems
<1> USE DEF TablesStand
<1>1. ASSUME items' \subseteq items, \A x \in items' : \E e \in envs' : e.id = x.env
      PROVE  Items' /\ SameItems
  BY <1>1 DEF Items, SameItems
<1>2. CASE UNCHANGED <<vars, items>>
  BY <1>1, <1>2 DEF Items, vars
<1>3. ASSUME envs \subseteq envs', UNCHANGED items
      PROVE  Items' /\ SameItems
  BY <1>1, <1>3 DEF Items
<1>4. ASSUME CascadeItems
      PROVE  Items' /\ SameItems
  BY <1>1, <1>4, EnvIdsAfter DEF CascadeItems
<1>5. ASSUME NEW x \in items, DeleteItem(x)
      PROVE  Items' /\ SameItems
  BY <1>1, <1>5 DEF DeleteItem, Items, vars
<1>6. ASSUME NEW kind \in ItemKinds, NEW e \in envs, CreateItem(kind, e.id)
      PROVE  Items' /\ SameItems
  <2>1. PICK id \in ItemIds :
           /\ IsNextId({x \in items : x.kind = kind}, id)
           /\ items' = items \cup {[kind |-> kind, id |-> id, env |-> e.id, on |-> TRUE]}
    BY <1>6 DEF CreateItem
  <2>2. envs' = envs /\ e.id \in Ids
    BY <1>6 DEF CreateItem, vars, TypeOK, EnvRow
  <2> DEFINE new == [kind |-> kind, id |-> id, env |-> e.id, on |-> TRUE]
  <2>3. new \in ItemRow /\ new.kind = kind /\ new.id = id /\ new.env = e.id
    BY <2>2 DEF ItemRow
  <2>4. \A x \in items : x.kind = kind => x.id # id
    <3>1. \A x \in items : x.id \in Nat
      BY PanelBounds DEF Items, ItemRow, ItemIds
    <3>2. id \in Nat
      BY PanelBounds DEF ItemIds
    <3> QED
      BY <2>1, <3>1, <3>2 DEF IsNextId
  <2>5. items' = items \cup {new}
    BY <2>1
  <2> HIDE DEF new
  <2> QED
    BY <2>2, <2>3, <2>4, <2>5 DEF Items, SameItems
<1>7. ASSUME NEW x \in items, NEW on \in BOOLEAN, Switch(x, on)
      PROVE  Items' /\ SameItems
  <2> DEFINE new == [x EXCEPT !.on = on]
  <2>1. new \in ItemRow /\ new.kind = x.kind /\ new.id = x.id /\ new.env = x.env /\ new.on = on
    BY DEF Items, ItemRow
  <2>2. /\ items' = (items \ {x}) \cup {new} /\ envs' = envs
        /\ x.kind = "key" => x.on
    BY <1>7 DEF Switch, vars
  <2> HIDE DEF new
  <2> QED
    BY <2>1, <2>2 DEF Items, SameItems
<1> QED
  BY <1>2, <1>3, <1>4, <1>5, <1>6, <1>7
     DEF Write, CreateProject, CreateEnvironment, DropProject, DropEnvironment

\* A row whose id is in use after a write is there as it was.
LEMMA WriteKeeps ==
    ASSUME TablesStand, Write
    PROVE  /\ TablesStand' /\ SameItems
           /\ \A e \in envs : e.id \in IdsOf("env")' => e \in envs'
           /\ \A p \in projects : p.id \in IdsOf("project")' => p \in projects'
<1>1. TypeOK' /\ UniqueIds' /\ NoOrphans' /\ Slugs' /\ Items' /\ SameItems
  BY StorageKeeps, SlugsKept, ItemsKept DEF TablesStand
<1>2. ASSUME NEW e \in envs, e.id \in IdsOf("env")'
      PROVE  e \in envs'
  <2>1. PICK f \in envs' : f.id = e.id
    BY <1>2, EnvIdsAfter
  <2> QED
    BY <1>1, <2>1, OneWay DEF TablesStand, UniqueIds
<1>3. ASSUME NEW p \in projects, p.id \in IdsOf("project")'
      PROVE  p \in projects'
  <2>1. PICK q \in projects' : q.id = p.id
    BY <1>3, ProjectIdsAfter
  <2> QED
    BY <1>1, <2>1, OneWay DEF TablesStand, UniqueIds
<1> QED
  BY <1>1, <1>2, <1>3 DEF TablesStand
-----------------------------------------------------------------------------
(***************************************************************************)
(* The page and the form.  PanelStands is the part of the invariant that   *)
(* is about them.                                                          *)
(***************************************************************************)
PanelStands ==
    /\ TablesStand
    /\ page \in Pages \cup {NoPage}
    /\ stays \subseteq ShownRows
    /\ req \in Forms \cup {NoForm}
    /\ touched \in Touches \cup {Untouched}
    /\ PageStands /\ EnvironmentShown /\ ProjectShown

LEMMA NoPageNoForm ==
    /\ NoPage.target = "none" /\ NoForm.at = "done"
    /\ \A r \in Forms : r.at \in {"project", "env", "read", "act"} /\ r.at # "done"
BY DEF NoPage, NoForm, Forms

LEMMA QuietWrites == ASSUME Quiet PROVE Write /\ touched' \in Touches \cup {Untouched}
BY DEF Quiet, Write

\* The tables stay as they are.
LEMMA QuietTables ==
    ASSUME Quiet
    PROVE  /\ TablesStand => TablesStand'
           /\ projects' = projects /\ envs' = envs /\ items' = items
BY DEF Quiet, vars, TablesStand, TypeOK, UniqueIds, NoOrphans, Slugs, Items

LEMMA AnsweredStands ==
    ASSUME TablesStand', Answered, touched' \in Touches \cup {Untouched}
    PROVE  PanelStands'
<1>1. page' = NoPage /\ stays' = {} /\ req' = NoForm
  BY DEF Answered
<1>2. PageStands' /\ EnvironmentShown' /\ ProjectShown'
  BY <1>1, NoPageNoForm DEF PageStands, EnvironmentShown, ProjectShown
<1> QED
  BY <1>1, <1>2 DEF PanelStands

LEMMA ElsewhereStep == ASSUME PanelStands, Elsewhere PROVE PanelStands' /\ Write
<1>1. Write
  BY DEF Elsewhere, Write
<1>2. /\ touched' = Untouched /\ page' = page /\ req' = req
      /\ stays' = {what \in stays :
            \E table \in Tables : table = TableOf(what) /\ page[what] \in IdsOf(table)'}
  BY DEF Elsewhere, Watch
<1>3. TablesStand'
  BY <1>1, WriteKeeps DEF PanelStands
<1>4. stays' \subseteq stays
  BY <1>2
<1>5. "env" \in stays' => page.env \in IdsOf("env")'
  BY <1>2 DEF TableOf
<1>6. "row" \in stays' =>
         /\ page.target = "env" => page.row \in IdsOf("env")'
         /\ page.target = "project" => page.row \in IdsOf("project")'
  <2> SUFFICES ASSUME "row" \in stays'
               PROVE  /\ page.target = "env" => page.row \in IdsOf("env")'
                      /\ page.target = "project" => page.row \in IdsOf("project")'
    OBVIOUS
  <2>1. PICK table \in Tables : table = page.target /\ page.row \in IdsOf(table)'
    BY <1>2 DEF TableOf
  <2> QED
    BY <2>1
<1>7. EnvironmentShown'
  <2> SUFFICES ASSUME "env" \in stays'
               PROVE  EnvironmentShown'
    BY DEF EnvironmentShown
  <2>1. PICK e \in envs, p \in projects :
           /\ e.id = page.env /\ e.slug = page.envSlug
           /\ e.project = p.id /\ p.slug = page.slug
           /\ req.at \in {"env", "read", "act"} => req.project = p.id
           /\ req.at \in {"read", "act"} => req.env = e.id
    BY <1>4 DEF PanelStands, EnvironmentShown
  <2>2. e \in envs'
    BY <1>1, <1>5, <2>1, WriteKeeps DEF PanelStands
  <2>3. p \in projects'
    <3>1. \E q \in projects' : q.id = p.id
      BY <1>3, <2>1, <2>2 DEF TablesStand, NoOrphans
    <3> QED
      BY <1>1, <3>1, ProjectIdsAfter, WriteKeeps DEF PanelStands
  <2> QED
    BY <1>2, <2>1, <2>2, <2>3 DEF EnvironmentShown
<1>8. ProjectShown'
  <2> SUFFICES ASSUME page.target = "project", "row" \in stays'
               PROVE  ProjectShown'
    BY <1>2 DEF ProjectShown
  <2>1. PICK p \in projects : /\ p.id = page.row /\ p.slug = page.slug
                              /\ req.at = "act" => req.project = p.id
    BY <1>4 DEF PanelStands, ProjectShown
  <2>2. p \in projects'
    BY <1>1, <1>6, <2>1, WriteKeeps DEF PanelStands
  <2> QED
    BY <1>2, <2>1, <2>2 DEF ProjectShown
<1>9. PageStands'
  <2>1. page.target = "env" /\ "row" \in stays' => "env" \in stays'
    <3> SUFFICES ASSUME page.target = "env", "row" \in stays'
                 PROVE  "env" \in stays'
      OBVIOUS
    <3>1. "env" \in stays /\ page.row = page.env
      BY <1>4 DEF PanelStands, PageStands
    <3>2. page.env \in IdsOf("env")'
      BY <1>6, <3>1
    <3> QED
      BY <1>2, <3>1, <3>2 DEF TableOf, Tables
  <2> QED
    BY <1>2, <1>4, <2>1 DEF PanelStands, PageStands
<1> QED
  BY <1>1, <1>2, <1>3, <1>4, <1>7, <1>8, <1>9 DEF PanelStands

LEMMA OpenStep == ASSUME PanelStands, Open PROVE PanelStands'
<1>1. /\ req = NoForm /\ req' = NoForm /\ touched' = Untouched /\ TablesStand'
      /\ projects' = projects /\ envs' = envs
  BY QuietTables DEF Open, Quiet, PanelStands
<1>2. CASE \E p \in projects :
              /\ page' = [target |-> "project", slug |-> p.slug,
                          envSlug |-> DefaultEnvironment, env |-> 0, row |-> p.id]
              /\ stays' = {"row"}
  <2>1. PICK p \in projects :
              /\ page' = [target |-> "project", slug |-> p.slug,
                          envSlug |-> DefaultEnvironment, env |-> 0, row |-> p.id]
              /\ stays' = {"row"}
    BY <1>2
  <2>2. p.id \in Ids /\ p.slug \in ProjectSlugs
    BY DEF PanelStands, TablesStand, TypeOK, ProjectRow
  <2>3. /\ page' \in Pages /\ page'.target = "project" /\ page'.row = p.id
        /\ page'.slug = p.slug
    BY <2>1, <2>2, DefaultIsSlug DEF Pages, Tables, AnyId
  <2>4. PageStands' /\ EnvironmentShown' /\ ProjectShown'
    BY <1>1, <2>1, <2>3, NoPageNoForm DEF PageStands, EnvironmentShown, ProjectShown
  <2> QED
    BY <1>1, <2>1, <2>3, <2>4 DEF PanelStands, ShownRows
<1>3. CASE \E p \in projects, e \in envs, target \in Tables \ {"project"} :
             \E row \in IdsOf(target) :
                /\ e.project = p.id
                /\ IF target = "env" THEN row = e.id
                   ELSE \E x \in items : x.kind = target /\ x.id = row /\ x.env = e.id
                /\ page' = [target |-> target, slug |-> p.slug, envSlug |-> e.slug,
                            env |-> e.id, row |-> row]
                /\ stays' = {"env", "row"}
  <2>0. PICK p \in projects, e \in envs, target \in Tables \ {"project"} :
             \E row \in IdsOf(target) :
                /\ e.project = p.id
                /\ IF target = "env" THEN row = e.id
                   ELSE \E x \in items : x.kind = target /\ x.id = row /\ x.env = e.id
                /\ page' = [target |-> target, slug |-> p.slug, envSlug |-> e.slug,
                            env |-> e.id, row |-> row]
                /\ stays' = {"env", "row"}
    BY <1>3
  <2>1. PICK row \in IdsOf(target) :
                /\ e.project = p.id
                /\ IF target = "env" THEN row = e.id
                   ELSE \E x \in items : x.kind = target /\ x.id = row /\ x.env = e.id
                /\ page' = [target |-> target, slug |-> p.slug, envSlug |-> e.slug,
                            env |-> e.id, row |-> row]
                /\ stays' = {"env", "row"}
    BY <2>0
  <2>2. /\ p.id \in Ids /\ p.slug \in ProjectSlugs
        /\ e.id \in Ids /\ e.slug \in EnvSlugs
    BY DEF PanelStands, TablesStand, TypeOK, ProjectRow, EnvRow
  <2>3. row \in AnyId
    BY <2>1, <2>2 DEF PanelStands, TablesStand, Items, ItemRow, AnyId
  <2>4. /\ page' \in Pages /\ page'.target = target /\ page'.row = row
        /\ page'.slug = p.slug /\ page'.envSlug = e.slug /\ page'.env = e.id
    BY <2>1, <2>2, <2>3 DEF Pages
  <2>5. PageStands' /\ EnvironmentShown' /\ ProjectShown'
    BY <1>1, <2>1, <2>4, NoPageNoForm DEF PageStands, EnvironmentShown, ProjectShown
  <2> QED
    BY <1>1, <2>1, <2>4, <2>5 DEF PanelStands, ShownRows
<1> QED
  BY <1>2, <1>3 DEF Open

\* The handler goes on, with the page as it was.
LEMMA GoesOn ==
    ASSUME PanelStands, Quiet, OnThePage, req' \in Forms, page \in Pages,
           PageStands', EnvironmentShown', ProjectShown'
    PROVE  PanelStands'
BY QuietTables DEF PanelStands, Quiet, OnThePage

LEMMA SubmitStep == ASSUME PanelStands, Submit PROVE PanelStands'
<1>1. Quiet /\ OnThePage /\ page \in Pages /\ page' = page /\ stays' = stays
  BY DEF Submit, OnThePage, PanelStands
<1>2. PICK verb \in VerbsOf(page.target) :
         req' = [NoForm EXCEPT !.verb = verb, !.at = "project"]
  BY DEF Submit
<1>3. verb \in Verbs
  BY DEF VerbsOf, Verbs
<1>4. req' \in Forms /\ req'.at = "project"
  BY <1>2, <1>3 DEF NoForm, Forms
<1>5. PageStands'
  BY <1>1, <1>4 DEF PanelStands, PageStands
<1>6. EnvironmentShown' /\ ProjectShown'
  BY <1>1, <1>4, QuietTables DEF PanelStands, EnvironmentShown, ProjectShown
<1> QED
  BY <1>1, <1>4, <1>5, <1>6, GoesOn

LEMMA QuietAnswered ==
    ASSUME PanelStands, Quiet, Answered PROVE PanelStands'
BY QuietTables, QuietWrites, AnsweredStands DEF PanelStands

\* The slug of the page is the slug of one project.
LEMMA ResolveProjectStep == ASSUME PanelStands, ResolveProject PROVE PanelStands'
<1>1. Quiet /\ req.at = "project"
  BY DEF ResolveProject
<1>2. CASE Answered
  BY <1>1, <1>2, QuietAnswered
<1>3. CASE \E p \in projects :
             /\ p.slug = page.slug
             /\ req' = [req EXCEPT !.project = p.id,
                                   !.at = IF page.target = "project" THEN "act" ELSE "env"]
             /\ OnThePage
  <2>1. PICK p \in projects :
             /\ p.slug = page.slug
             /\ req' = [req EXCEPT !.project = p.id,
                                   !.at = IF page.target = "project" THEN "act" ELSE "env"]
             /\ OnThePage
    BY <1>3
  <2>2. req \in Forms /\ page \in Pages
    BY <1>1, NoPageNoForm DEF PanelStands, PageStands
  <2>3. p.id \in Ids
    BY DEF PanelStands, TablesStand, TypeOK, ProjectRow
  <2>4. /\ req' \in Forms /\ req'.project = p.id
        /\ req'.at = IF page.target = "project" THEN "act" ELSE "env"
    BY <2>1, <2>2, <2>3 DEF Forms
  <2>5. page' = page /\ stays' = stays /\ projects' = projects /\ envs' = envs
    BY <1>1, <2>1, QuietTables DEF OnThePage
  <2>6. \A q \in projects : q.slug = page.slug => q = p
    BY <2>1 DEF PanelStands, TablesStand, Slugs
  <2>7. PageStands'
    BY <2>2, <2>4, <2>5 DEF PanelStands, PageStands
  <2>8. EnvironmentShown'
    BY <2>4, <2>5, <2>6 DEF PanelStands, EnvironmentShown, PageStands
  <2>9. ProjectShown'
    BY <2>4, <2>5, <2>6 DEF PanelStands, ProjectShown
  <2> QED
    BY <1>1, <2>1, <2>2, <2>4, <2>7, <2>8, <2>9, GoesOn
<1> QED
  BY <1>2, <1>3 DEF ResolveProject

\* In the project that has been found, the slug of the page is the slug of one
\* environment.
LEMMA ResolveEnvironmentStep == ASSUME PanelStands, ResolveEnvironment PROVE PanelStands'
<1>1. Quiet /\ req.at = "env"
  BY DEF ResolveEnvironment
<1>2. CASE Answered
  BY <1>1, <1>2, QuietAnswered
<1>3. CASE \E e \in envs :
             /\ Named(e, req.project, page.envSlug)
             /\ req' = [req EXCEPT !.env = e.id,
                                   !.at = IF req.verb \in {"toggle", "test"} THEN "read" ELSE "act"]
             /\ OnThePage
  <2>1. PICK e \in envs :
             /\ Named(e, req.project, page.envSlug)
             /\ req' = [req EXCEPT !.env = e.id,
                                   !.at = IF req.verb \in {"toggle", "test"} THEN "read" ELSE "act"]
             /\ OnThePage
    BY <1>3
  <2>2. req \in Forms /\ page \in Pages /\ page.target # "project"
    BY <1>1, NoPageNoForm DEF PanelStands, PageStands
  <2>3. e.id \in Ids
    BY DEF PanelStands, TablesStand, TypeOK, EnvRow
  <2>4. /\ req' \in Forms /\ req'.env = e.id /\ req'.project = req.project
        /\ req'.at \in {"read", "act"}
    BY <2>1, <2>2, <2>3 DEF Forms
  <2>5. page' = page /\ stays' = stays /\ projects' = projects /\ envs' = envs
    BY <1>1, <2>1, QuietTables DEF OnThePage
  <2>6. \A f \in envs : f.project = req.project /\ f.slug = page.envSlug => f = e
    BY <2>1 DEF PanelStands, TablesStand, Slugs, Named
  <2>7. PageStands' /\ ProjectShown'
    BY <2>2, <2>4, <2>5 DEF PanelStands, PageStands, ProjectShown
  <2>8. EnvironmentShown'
    BY <1>1, <2>4, <2>5, <2>6 DEF PanelStands, EnvironmentShown
  <2> QED
    BY <1>1, <2>1, <2>2, <2>4, <2>7, <2>8, GoesOn
<1> QED
  BY <1>2, <1>3 DEF ResolveEnvironment

LEMMA ReadWebhookStep == ASSUME PanelStands, ReadWebhook PROVE PanelStands'
<1>1. Quiet /\ req.at = "read"
  BY DEF ReadWebhook
<1>2. CASE Answered
  BY <1>1, <1>2, QuietAnswered
<1>3. CASE \E x \in Scoped("hook", page.row, req.env) :
             req' = [req EXCEPT !.on = ~ x.on, !.at = "act"] /\ OnThePage
  <2>1. PICK x \in Scoped("hook", page.row, req.env) :
             req' = [req EXCEPT !.on = ~ x.on, !.at = "act"] /\ OnThePage
    BY <1>3
  <2>2. req \in Forms /\ page \in Pages /\ page.target # "project"
    BY <1>1, NoPageNoForm DEF PanelStands, PageStands
  <2>3. x.on \in BOOLEAN
    BY DEF Scoped, PanelStands, TablesStand, Items, ItemRow
  <2>4. /\ req' \in Forms /\ req'.env = req.env /\ req'.project = req.project
        /\ req'.at = "act"
    BY <2>1, <2>2, <2>3 DEF Forms
  <2>5. page' = page /\ stays' = stays /\ projects' = projects /\ envs' = envs
    BY <1>1, <2>1, QuietTables DEF OnThePage
  <2>6. PageStands' /\ ProjectShown'
    BY <2>2, <2>4, <2>5 DEF PanelStands, PageStands, ProjectShown
  <2>7. EnvironmentShown'
    BY <1>1, <2>4, <2>5 DEF PanelStands, EnvironmentShown
  <2> QED
    BY <1>1, <2>1, <2>2, <2>4, <2>6, <2>7, GoesOn
<1> QED
  BY <1>2, <1>3 DEF ReadWebhook

\* The form is applied to a row that exists, or to none.
LEMMA ActFacts ==
    ASSUME PanelStands, Act
    PROVE  Write /\ Answered /\ touched' \in Touches \cup {Untouched}
<1>1. req \in Forms /\ req.verb \in Verbs /\ Answered
  BY NoPageNoForm DEF Act, PanelStands, Forms
<1>2. ASSUME NEW id \in AnyId, NEW env \in Ids \cup {0}, Touched(id, env)
      PROVE  touched' \in Touches
  BY <1>1, <1>2 DEF Touched, Touches
<1>3. /\ \A p \in projects : p.id \in Ids
      /\ \A e \in envs : e.id \in Ids
      /\ \A x \in items : x.id \in ItemIds /\ x.env \in Ids
  BY DEF PanelStands, TablesStand, TypeOK, Items, ProjectRow, EnvRow, ItemRow
<1>4. CASE ActOnProject
  <2>1. PICK p \in projects :
          /\ \/ /\ \E slug \in EnvSlugs : CreateEnvironment(p, slug, 0)
                /\ UNCHANGED items
             \/ DropProject(p)
          /\ Touched(p.id, 0)
    BY <1>4 DEF ActOnProject
  <2>2. Write
    BY <2>1 DEF Write
  <2>3. touched' \in Touches
    BY <1>2, <1>3, <2>1 DEF AnyId
  <2> QED
    BY <1>1, <2>2, <2>3
<1>5. CASE ActOnEnvironment
  <2>1. PICK e \in envs :
          /\ (\E kind \in ItemKinds : CreateItem(kind, e.id)) \/ DropEnvironment(e)
          /\ Touched(e.id, e.id)
    BY <1>5 DEF ActOnEnvironment
  <2>2. Write
    BY <2>1 DEF Write
  <2>3. touched' \in Touches
    BY <1>2, <1>3, <2>1 DEF AnyId
  <2> QED
    BY <1>1, <2>2, <2>3
<1>6. CASE ActOnItem
  <2>1. PICK x \in items :
          /\ DeleteItem(x) \/ Switch(x, FALSE) \/ (req.verb = "toggle" /\ Switch(x, req.on))
          /\ Touched(x.id, x.env)
    BY <1>6 DEF ActOnItem, Scoped
  <2>2. Write
    BY <1>1, <2>1 DEF Write, Forms
  <2>3. touched' \in Touches
    BY <1>2, <1>3, <2>1 DEF AnyId
  <2> QED
    BY <1>1, <2>2, <2>3
<1>7. CASE RecordResult
  <2>1. (\E x \in items : Touched(x.id, x.env)) /\ UNCHANGED <<vars, items>>
    BY <1>7 DEF RecordResult
  <2> QED
    BY <1>1, <1>2, <1>3, <2>1 DEF AnyId, Write
<1>8. CASE ActInVain
  BY <1>1, <1>8 DEF ActInVain, Write
<1> QED
  BY <1>4, <1>5, <1>6, <1>7, <1>8 DEF Act

LEMMA ActStep == ASSUME PanelStands, Act PROVE PanelStands' /\ Write
<1>1. TablesStand'
  BY ActFacts, WriteKeeps DEF PanelStands
<1> QED
  BY <1>1, ActFacts, AnsweredStands

LEMMA PanelStep == ASSUME PanelStands, PanelNext PROVE PanelStands' /\ Write
<1>1. CASE Elsewhere
  BY <1>1, ElsewhereStep
<1>2. CASE Open
  BY <1>2, OpenStep, QuietWrites DEF Open
<1>3. CASE Submit
  BY <1>3, SubmitStep, QuietWrites DEF Submit
<1>4. CASE ResolveProject
  BY <1>4, ResolveProjectStep, QuietWrites DEF ResolveProject
<1>5. CASE ResolveEnvironment
  BY <1>5, ResolveEnvironmentStep, QuietWrites DEF ResolveEnvironment
<1>6. CASE ReadWebhook
  BY <1>6, ReadWebhookStep, QuietWrites DEF ReadWebhook
<1>7. CASE Act
  BY <1>7, ActStep
<1> QED
  BY <1>1, <1>2, <1>3, <1>4, <1>5, <1>6, <1>7 DEF PanelNext

LEMMA PanelSame ==
    ASSUME PanelStands, UNCHANGED panelVars
    PROVE  /\ PanelStands'
           /\ projects' = projects /\ envs' = envs /\ items' = items
BY DEF panelVars, vars, PanelStands, TablesStand, TypeOK, UniqueIds, NoOrphans, Slugs, Items,
       PageStands, EnvironmentShown, ProjectShown
-----------------------------------------------------------------------------
(* The client.                                                             *)

ClientStands ==
    /\ key \in [id : ItemIds, env : Ids] \cup {NoKey}
    /\ keyStays \subseteq KeyTables
    /\ call \in Calls \cup {NoCall}
    /\ KeyStands /\ CallStands

LEMMA Split == Inv <=> PanelStands /\ ClientStands
BY DEF Inv, PanelStands, ClientStands

LEMMA SplitAfter == PanelStands' /\ ClientStands' => Inv'
BY DEF Inv, PanelStands, ClientStands

LEMMA CallSteps ==
    /\ NoCall.at = "idle"
    /\ \A c \in Calls : c.at \in {"lookup", "load", "served"} /\ c.usable \in BOOLEAN
BY DEF NoCall, Calls

\* A key that is gone or revoked stays so, and while it is there its environment is.
LEMMA OthersStep == ASSUME Inv, Others PROVE Inv'
<1>1. /\ PanelStands' /\ Write /\ key' = key /\ call' = call
      /\ keyStays' = {t \in keyStays : IF t = "key" THEN key.id \in IdsOf("key")'
                                                    ELSE key.env \in IdsOf("env")'}
  BY Split, PanelStep DEF Others
<1>2. TablesStand' /\ SameItems
  BY <1>1, Split, WriteKeeps DEF PanelStands
<1>3. keyStays' \subseteq keyStays
  BY <1>1
<1>4. ASSUME "key" \in keyStays'
      PROVE  /\ "env" \in keyStays'
             /\ \E y \in items' : y.kind = "key" /\ y.id = key.id /\ y.env = key.env
  <2>1. PICK x \in items : x.kind = "key" /\ x.id = key.id /\ x.env = key.env
    BY <1>3, <1>4 DEF Inv, KeyStands
  <2>2. PICK y \in items' : y.kind = "key" /\ y.id = key.id
    BY <1>1, <1>4, KeyIdsAfter
  <2>3. y.env = key.env
    BY <1>2, <2>1, <2>2 DEF SameItems
  <2>4. key.env \in IdsOf("env")'
    BY <1>2, <2>2, <2>3, EnvIdsAfter DEF TablesStand, Items
  <2>5. "env" \in keyStays
    BY <1>3, <1>4 DEF Inv, KeyStands
  <2> QED
    BY <1>1, <2>2, <2>3, <2>4, <2>5
<1>5. KeyStands'
  BY <1>1, <1>3, <1>4 DEF Inv, KeyStands
<1>6. ActiveKey = {} => ActiveKey' = {}
  <2> SUFFICES ASSUME NEW y \in ActiveKey'
               PROVE  ActiveKey # {}
    OBVIOUS
  <2>1. y \in items' /\ "key" \in keyStays' /\ y.kind = "key" /\ y.id = key.id /\ y.on
    BY <1>1 DEF ActiveKey, KeyRow
  <2>2. PICK x \in items : x.kind = "key" /\ x.id = key.id
    BY <1>3, <2>1 DEF Inv, KeyStands
  <2>3. x.on
    BY <1>2, <2>1, <2>2 DEF SameItems
  <2> QED
    BY <1>3, <2>1, <2>2, <2>3 DEF ActiveKey, KeyRow
<1>7. CallStands'
  BY <1>1, <1>6 DEF Inv, CallStands
<1>8. ClientStands'
  BY <1>1, <1>3, <1>5, <1>7 DEF Inv, ClientStands
<1> QED
  BY <1>1, <1>8, SplitAfter

LEMMA ObtainStep == ASSUME Inv, Obtain PROVE Inv'
<1>1. /\ UNCHANGED panelVars /\ call = NoCall /\ call' = NoCall
      /\ keyStays' = KeyTables
      /\ \E x \in items : x.kind = "key" /\ key' = [id |-> x.id, env |-> x.env]
  BY DEF Obtain
<1>2. PanelStands' /\ items' = items
  BY <1>1, Split, PanelSame
<1>3. key' \in [id : ItemIds, env : Ids] /\ KeyStands'
  BY <1>1, <1>2 DEF Inv, TablesStand, Items, ItemRow, KeyStands, KeyTables
<1>4. CallStands'
  BY <1>1, CallSteps DEF CallStands
<1> QED
  BY <1>1, <1>2, <1>3, <1>4, SplitAfter DEF ClientStands

\* A call that the key was no good for finds no active key.
LEMMA ClientStep ==
    ASSUME Inv, UNCHANGED <<panelVars, key, keyStays>>,
           call' \in Calls \cup {NoCall}, CallStands'
    PROVE  Inv'
<1>1. PanelStands' /\ items' = items
  BY Split, PanelSame
<1>2. KeyStands'
  BY <1>1 DEF Inv, KeyStands
<1> QED
  BY <1>1, <1>2, SplitAfter DEF Inv, ClientStands

LEMMA ActiveKeySame ==
    ASSUME UNCHANGED <<panelVars, key, keyStays>> PROVE ActiveKey' = ActiveKey
BY DEF panelVars, ActiveKey, KeyRow

LEMMA SendStep == ASSUME Inv, Send PROVE Inv'
<1>1. UNCHANGED <<panelVars, key, keyStays>>
  BY DEF Send
<1> DEFINE usable == "env" \in keyStays /\ \E x \in KeyRow : x.on
<1>2. call' = [at |-> "lookup", usable |-> usable]
  BY DEF Send
<1>3. usable \in BOOLEAN
  BY DEF usable
<1>4. ~ usable => ActiveKey = {}
  BY DEF Inv, KeyStands, ActiveKey, KeyRow
<1> HIDE DEF usable
<1>5. call' \in Calls /\ call'.at = "lookup" /\ call'.usable = usable
  BY <1>2, <1>3 DEF Calls
<1>6. CallStands'
  BY <1>1, <1>4, <1>5, ActiveKeySame DEF CallStands
<1> QED
  BY <1>1, <1>5, <1>6, ClientStep

LEMMA LookUpStep == ASSUME Inv, LookUp PROVE Inv'
<1>1. /\ UNCHANGED <<panelVars, key, keyStays>> /\ call.at = "lookup"
      /\ call' = IF ActiveKey # {} THEN [call EXCEPT !.at = "load"] ELSE NoCall
  BY DEF LookUp
<1>2. call \in Calls
  BY <1>1, CallSteps DEF Inv
<1>3. CASE ActiveKey # {}
  <2>1. call' \in Calls /\ call'.at = "load" /\ call'.usable = call.usable
    BY <1>1, <1>2, <1>3 DEF Calls
  <2>2. call.usable
    BY <1>1, <1>3 DEF Inv, CallStands
  <2> QED
    BY <1>1, <2>1, <2>2, ClientStep DEF CallStands
<1>4. CASE ActiveKey = {}
  BY <1>1, <1>4, CallSteps, ClientStep DEF CallStands
<1> QED
  BY <1>3, <1>4

LEMMA LoadStep == ASSUME Inv, Load PROVE Inv'
<1>1. /\ UNCHANGED <<panelVars, key, keyStays>> /\ call.at = "load"
      /\ call' = NoCall \/ call' = [call EXCEPT !.at = "served"]
  BY DEF Load
<1>2. call \in Calls /\ call.usable
  BY <1>1, CallSteps DEF Inv, CallStands
<1>3. CASE call' = NoCall
  BY <1>1, <1>3, CallSteps, ClientStep DEF CallStands
<1>4. CASE call' = [call EXCEPT !.at = "served"]
  <2>1. call' \in Calls /\ call'.at = "served" /\ call'.usable = call.usable
    BY <1>2, <1>4 DEF Calls
  <2> QED
    BY <1>1, <1>2, <2>1, ClientStep DEF CallStands
<1> QED
  BY <1>1, <1>3, <1>4

LEMMA RespondStep == ASSUME Inv, Respond PROVE Inv'
BY CallSteps, ClientStep DEF Respond, CallStands
-----------------------------------------------------------------------------
LEMMA AccessInitInv == AccessInit => Inv
<1> SUFFICES ASSUME AccessInit
             PROVE  Inv
  OBVIOUS
<1>1. TablesStand
  BY InitType DEF AccessInit, PanelInit, Init, TablesStand, UniqueIds, NoOrphans, Slugs, Items
<1>2. PanelStands
  BY <1>1, NoPageNoForm DEF AccessInit, PanelInit, PanelStands, PageStands, EnvironmentShown,
                     ProjectShown
<1>3. ClientStands
  BY CallSteps DEF AccessInit, ClientStands, KeyStands, CallStands
<1> QED
  BY <1>2, <1>3, Split

LEMMA AccessStepInv == ASSUME Inv, [AccessNext]_accessVars PROVE Inv'
<1>1. CASE UNCHANGED accessVars
  <2>1. UNCHANGED <<panelVars, key, keyStays>> /\ call' = call
    BY <1>1 DEF accessVars
  <2>2. CallStands'
    BY <2>1, ActiveKeySame DEF Inv, CallStands
  <2>3. call' \in Calls \cup {NoCall}
    BY <2>1 DEF Inv
  <2> QED
    BY <2>1, <2>2, <2>3, ClientStep
<1> QED
  BY <1>1, OthersStep, ObtainStep, SendStep, LookUpStep, LoadStep, RespondStep DEF AccessNext

LEMMA AccessInvariant == AccessSpec => []Inv
BY AccessInitInv, AccessStepInv, PTL DEF AccessSpec

\* The tables, the page, the form and the client's call keep their types, and every key
\* and webhook has an environment, though environments go at any moment.
THEOREM AccessTypeCorrect == AccessSpec => []AccessTypeOK
<1>1. Inv => AccessTypeOK
  BY EnvIds DEF Inv, TablesStand, Items, AccessTypeOK, PanelTypeOK
<1> QED
  BY <1>1, AccessInvariant, PTL

\* A call is served only if its key was good when the call was sent, whoever has the ids
\* of its key and its environment by then.
THEOREM RefusedOnceGoneCorrect == AccessSpec => []RefusedOnceGone
<1>1. Inv => RefusedOnceGone
  BY DEF Inv, CallStands, RefusedOnceGone
<1> QED
  BY <1>1, AccessInvariant, PTL
-----------------------------------------------------------------------------
\* Only Act applies a form.
LEMMA OnlyAct ==
    ASSUME Inv, [AccessNext]_accessVars, panelVars' # panelVars, touched'.verb # "none"
    PROVE  Act
<1>1. Untouched.verb = "none"
  BY DEF Untouched
<1>2. Others
  BY DEF AccessNext, accessVars, Obtain, Send, LookUp, Load, Respond
<1> QED
  BY <1>1, <1>2 DEF Others, PanelNext, Elsewhere, Open, Submit, ResolveProject,
                    ResolveEnvironment, ReadWebhook, Quiet

\* A form acts on the row that its page showed, as long as that has not been deleted.
THEOREM ActsOnTheRowShownCorrect == AccessSpec => ActsOnTheRowShown
<1> DEFINE OnTheRow ==
      touched'.verb # "none" /\ "row" \in stays => touched'.row = page.row
<1>1. ASSUME Inv, Act, touched'.verb # "none", "row" \in stays
      PROVE  touched'.row = page.row
  <2>1. \A id, env : Touched(id, env) => touched'.row = id
    BY DEF Touched
  <2>2. CASE ActOnProject
    <3>1. PICK p \in projects : p.id = req.project /\ Touched(p.id, 0)
      BY <2>2 DEF ActOnProject
    <3> QED
      BY <1>1, <2>1, <2>2, <3>1 DEF Inv, ProjectShown, Act, ActOnProject
  <2>3. CASE ActOnEnvironment
    <3>1. PICK e \in envs : e.id = req.env /\ Touched(e.id, e.id)
      BY <2>3 DEF ActOnEnvironment
    <3>2. "env" \in stays /\ page.row = page.env
      BY <1>1, <2>3 DEF Inv, PageStands, ActOnEnvironment
    <3> QED
      BY <1>1, <2>1, <3>1, <3>2 DEF Inv, EnvironmentShown, Act
  <2>4. CASE ActOnItem
    BY <2>1, <2>4 DEF ActOnItem, Scoped
  <2>5. CASE RecordResult
    BY <2>1, <2>5 DEF RecordResult
  <2>6. CASE ActInVain
    BY <1>1, <2>6 DEF ActInVain, Untouched
  <2> QED
    BY <1>1, <2>2, <2>3, <2>4, <2>5, <2>6 DEF Act
<1>2. Inv /\ [AccessNext]_accessVars => [OnTheRow]_panelVars
  BY <1>1, OnlyAct
<1> QED
  BY <1>2, AccessInvariant, PTL DEF AccessSpec, ActsOnTheRowShown

\* As long as the environment of its page has not been deleted, a form is applied to no
\* key and no webhook of another.
THEOREM StaysInTheEnvironmentShownCorrect == AccessSpec => StaysInTheEnvironmentShown
<1> DEFINE InTheEnvironment ==
      (/\ touched'.verb \in {"revoke", "delete", "toggle"}
       /\ page.target \in ItemKinds
       /\ "env" \in stays) => touched'.env = page.env
<1>1. ASSUME Inv, Act, touched'.verb \in {"revoke", "delete", "toggle"},
             page.target \in ItemKinds, "env" \in stays
      PROVE  touched'.env = page.env
  <2>1. \A id, env : Touched(id, env) => touched'.env = env /\ touched'.verb = req.verb
    BY DEF Touched
  <2>2. CASE ActOnItem
    <3>1. PICK x \in Scoped(page.target, page.row, req.env) : Touched(x.id, x.env)
      BY <2>2 DEF ActOnItem
    <3>2. touched'.env = req.env
      BY <2>1, <3>1 DEF Scoped
    <3> QED
      BY <1>1, <3>2 DEF Inv, EnvironmentShown, Act
  <2>3. CASE RecordResult
    BY <1>1, <2>1, <2>3 DEF RecordResult
  <2>4. CASE ActInVain
    BY <1>1, <2>4 DEF ActInVain, Untouched
  <2>5. CASE ActOnProject \/ ActOnEnvironment
    BY <1>1, <2>5 DEF ActOnProject, ActOnEnvironment, ItemKinds
  <2> QED
    BY <1>1, <2>2, <2>3, <2>4, <2>5 DEF Act
<1>2. Inv /\ [AccessNext]_accessVars => [InTheEnvironment]_panelVars
  BY <1>1, OnlyAct
<1> QED
  BY <1>2, AccessInvariant, PTL DEF AccessSpec, StaysInTheEnvironmentShown
=============================================================================
