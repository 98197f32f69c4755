------------------------------- MODULE Panel -------------------------------
(***************************************************************************)
(* A form of the panel names its target by what the page showed: the slugs *)
(* of project and environment and, for an API key or a webhook, the id of  *)
(* its row.  The handler makes ids of the slugs, one read after another,   *)
(* and then writes by id; in between, and since the page was rendered,     *)
(* anybody may have created and deleted anything, and ids are handed out   *)
(* again.  The tables of projects and environments are those of Storage;   *)
(* api_keys and webhooks are added here.                                   *)
(***************************************************************************)
EXTENDS Storage

CONSTANT MaxItemId  \* bound: ids of api_keys, and of webhooks

ASSUME PanelBounds == MaxItemId \in Nat

VARIABLES
    items,    \* api_keys and webhooks: [kind, id, env, on]; on: not revoked, enabled
    page,     \* what the page in the browser shows
    stays,    \* those of its rows that have not been deleted since; history
    req,      \* the form being handled
    touched   \* the row that the form has just been applied to; history

panelVars == <<vars, items, page, stays, req, touched>>

ItemKinds == {"key", "hook"}
Tables    == {"project", "env"} \cup ItemKinds
ItemIds   == 1 .. MaxItemId
ItemRow   == [kind : ItemKinds, id : ItemIds, env : Ids, on : BOOLEAN]
AnyId     == Ids \cup ItemIds

\* The ids in use.
IdsOf(table) ==
    CASE table = "project" -> {p.id : p \in projects}
      [] table = "env"     -> {e.id : e \in envs}
      [] OTHER             -> {x.id : x \in {y \in items : y.kind = table}}

\* slug and envSlug are in the URL, and so is the id of a key or a webhook (row); the
\* other ids the browser never sees.
NoPage == [target |-> "none"]
Pages  == [target : Tables, slug : ProjectSlugs, envSlug : EnvSlugs,
           env : Ids \cup {0}, row : AnyId]

\* The rows a page has shown: its environment and its target.
ShownRows == {"env", "row"}
TableOf(what) == IF what = "row" THEN page.target ELSE what

NoForm == [verb |-> "none", at |-> "done", project |-> 0, env |-> 0, on |-> FALSE]
Verbs  == {"create", "delete", "revoke", "toggle", "test"}
Forms  == [verb : Verbs, at : {"project", "env", "read", "act"},
           project : Ids \cup {0}, env : Ids \cup {0}, on : BOOLEAN]

Untouched == [verb |-> "none", row |-> 0, env |-> 0]
Touches   == [verb : Verbs, row : AnyId, env : Ids \cup {0}]
-----------------------------------------------------------------------------
(* keys.go, webhooks.go of internal/db. *)

\* The rows a statement with "id = ? AND environment_id = ?" finds; and a variant
\* of it, by the id alone.
ById(kind, id, env) == {x \in items : x.kind = kind /\ x.id = id}
Scoped(kind, id, env) == {x \in items : x.kind = kind /\ x.id = id /\ x.env = env}

CreateItem(kind, env) ==
    /\ env \in IdsOf("env")
    /\ \E id \in ItemIds :
          /\ IsNextId({x \in items : x.kind = kind}, id)
          /\ items' = items \cup {[kind |-> kind, id |-> id, env |-> env, on |-> TRUE]}
    /\ UNCHANGED vars

DeleteItem(x) == x \in items /\ items' = items \ {x} /\ UNCHANGED vars

\* RevokeAPIKey, which is for good; SetWebhookEnabled.
Switch(x, on) ==
    /\ x \in items
    /\ x.kind = "key" => x.on /\ ~ on
    /\ items' = (items \ {x}) \cup {[x EXCEPT !.on = on]}
    /\ UNCHANGED vars

\* A variant of CascadeItems: without PRAGMA foreign_keys.
KeepItems == items' = items

\* The items of an environment go with it.
CascadeItems == items' = {x \in items : x.env \in IdsOf("env")'}

DropProject(p)     == DeleteProject(p) /\ CascadeItems
DropEnvironment(e) == DeleteEnvironment(e) /\ CascadeItems

\* A row that is deleted is gone for good, whatever gets its id afterwards.
Watch ==
    stays' = {what \in stays :
                 \E table \in Tables : table = TableOf(what) /\ page[what] \in IdsOf(table)'}

\* Any other request, at the moment of its write.
Elsewhere ==
    /\ \/ \E slug \in ProjectSlugs : CreateProject(slug, 0) /\ UNCHANGED items
       \/ \E p \in projects, slug \in EnvSlugs : CreateEnvironment(p, slug, 0) /\ UNCHANGED items
       \/ \E kind \in ItemKinds, e \in envs : CreateItem(kind, e.id)
       \/ \E p \in projects : DropProject(p)
       \/ \E e \in envs : DropEnvironment(e)
       \/ \E x \in items : DeleteItem(x) \/ (\E on \in BOOLEAN : Switch(x, on))
    /\ Watch
    /\ touched' = Untouched
    /\ UNCHANGED <<page, req>>
-----------------------------------------------------------------------------
(* ui.go, projects.go, keys.go and webhooks.go of internal/ui. *)

Quiet == touched' = Untouched /\ UNCHANGED <<vars, items>>

OnThePage == UNCHANGED <<page, stays>>

\* The answer brings a page of its own, or an error and the user another page.
Answered == req' = NoForm /\ page' = NoPage /\ stays' = {}

\* A page of the projects, of an environment, of its keys or of its webhooks; and in
\* it the row whose button will be pressed.
Open ==
    /\ req = NoForm
    /\ \/ \E p \in projects :
             /\ page' = [target |-> "project", slug |-> p.slug,
                         envSlug |-> DefaultEnvironment, env |-> 0, row |-> p.id]
             /\ stays' = {"row"}
       \/ \E p \in projects, e \in envs, target \in Tables \ {"project"} :
             \E row \in IdsOf(target) :
                /\ e.project = p.id
                /\ IF target = "env" THEN row = e.id
                   ELSE \E x \in items : x.kind = target /\ x.id = row /\ x.env = e.id
                /\ page' = [target |-> target, slug |-> p.slug, envSlug |-> e.slug,
                            env |-> e.id, row |-> row]
                /\ stays' = {"env", "row"}
    /\ UNCHANGED req
    /\ Quiet

\* The forms of each kind of page.
VerbsOf(target) ==
    CASE target = "key"  -> {"revoke", "delete"}
      [] target = "hook" -> {"toggle", "test", "delete"}
      [] OTHER           -> {"create", "delete"}

Submit ==
    /\ req = NoForm /\ page # NoPage
    /\ \E verb \in VerbsOf(page.target) :
          req' = [NoForm EXCEPT !.verb = verb, !.at = "project"]
    /\ OnThePage
    /\ Quiet

ResolveProject ==
    /\ req.at = "project"
    /\ \/ \E p \in projects :
             /\ p.slug = page.slug
             /\ req' = [req EXCEPT !.project = p.id,
                                   !.at = IF page.target = "project" THEN "act" ELSE "env"]
             /\ OnThePage
       \/ (\A p \in projects : p.slug # page.slug) /\ Answered
    /\ Quiet

\* GetEnvironment looks for the slug within the project; a variant of its condition,
\* for the slug alone.
NamedAnywhere(e, project, slug) == e.slug = slug
Named(e, project, slug) == e.project = project /\ e.slug = slug

ResolveEnvironment ==
    /\ req.at = "env"
    /\ \/ \E e \in envs :
             /\ Named(e, req.project, page.envSlug)
             /\ req' = [req EXCEPT !.env = e.id,
                                   !.at = IF req.verb \in {"toggle", "test"} THEN "read" ELSE "act"]
             /\ OnThePage
       \/ (\A e \in envs : ~ Named(e, req.project, page.envSlug)) /\ Answered
    /\ Quiet

\* toggleWebhook and testWebhook read the row first.
ReadWebhook ==
    /\ req.at = "read"
    /\ \/ \E x \in Scoped("hook", page.row, req.env) :
             req' = [req EXCEPT !.on = ~ x.on, !.at = "act"] /\ OnThePage
       \/ Scoped("hook", page.row, req.env) = {} /\ Answered
    /\ Quiet

\* The form has been applied to the row with this id; env is the id of its environment.
Touched(id, env) ==
    touched' = [verb |-> req.verb, row |-> id, env |-> env]

\* createEnvironment, createKey, createWebhook; deleteProject, deleteEnvironment.
ActOnProject ==
    /\ page.target = "project"
    /\ \E p \in projects :
          /\ p.id = req.project
          /\ \/ /\ req.verb = "create"
                /\ \E slug \in EnvSlugs : CreateEnvironment(p, slug, 0)
                /\ UNCHANGED items
             \/ req.verb = "delete" /\ DropProject(p)
          /\ Touched(p.id, 0)

ActOnEnvironment ==
    /\ page.target = "env"
    /\ \E e \in envs :
          /\ e.id = req.env
          /\ \/ req.verb = "create" /\ \E kind \in ItemKinds : CreateItem(kind, e.id)
             \/ req.verb = "delete" /\ DropEnvironment(e)
          /\ Touched(e.id, e.id)

\* revokeKey, deleteKey, toggleWebhook, deleteWebhook.
ActOnItem ==
    /\ page.target \in ItemKinds /\ req.verb # "test"
    /\ \E x \in Scoped(page.target, page.row, req.env) :
          /\ \/ req.verb = "delete" /\ DeleteItem(x)
             \/ req.verb = "revoke" /\ Switch(x, FALSE)
             \/ req.verb = "toggle" /\ Switch(x, req.on)
          /\ Touched(x.id, x.env)

\* testWebhook has called the webhook it read, and RecordWebhookResult writes by the
\* id alone.
RecordResult ==
    /\ page.target = "hook" /\ req.verb = "test"
    /\ \E x \in items :
          /\ x.kind = "hook" /\ x.id = page.row
          /\ Touched(x.id, x.env)
    /\ UNCHANGED <<vars, items>>

\* The write finds no row, or the slug is taken: an error, or the panel as it is.
ActInVain ==
    /\ CASE page.target = "project" ->
              \/ req.project \notin IdsOf("project")
              \/ req.verb = "create" /\ \E e \in envs : e.project = req.project
         [] page.target = "env" -> req.env \notin IdsOf("env")
         [] req.verb = "test"   -> page.row \notin IdsOf("hook")
         [] OTHER -> \A x \in Scoped(page.target, page.row, req.env) :
                        req.verb = "revoke" /\ ~ x.on
    /\ touched' = Untouched
    /\ UNCHANGED <<vars, items>>

Act ==
    /\ req.at = "act"
    /\ ActOnProject \/ ActOnEnvironment \/ ActOnItem \/ RecordResult \/ ActInVain
    /\ Answered
-----------------------------------------------------------------------------
PanelInit ==
    /\ Init
    /\ items = {}
    /\ page = NoPage
    /\ stays = {}
    /\ req = NoForm
    /\ touched = Untouched

PanelNext ==
    Elsewhere \/ Open \/ Submit
    \/ ResolveProject \/ ResolveEnvironment \/ ReadWebhook \/ Act

PanelSpec == PanelInit /\ [][PanelNext]_panelVars
-----------------------------------------------------------------------------
(* Properties *)

\* The variables have their types, and every key and webhook an environment.
PanelTypeOK ==
    /\ TypeOK
    /\ items \subseteq ItemRow
    /\ \A x \in items : x.env \in IdsOf("env")
    /\ page \in Pages \cup {NoPage}
    /\ stays \subseteq ShownRows
    /\ req \in Forms \cup {NoForm}
    /\ touched \in Touches \cup {Untouched}

\* Every form acts on the row that its page showed, as long as that row exists: not
\* on one that shares its slug, and not on one that shares its id.
ActsOnTheRowShown ==
    [][(touched'.verb # "none" /\ "row" \in stays)
          => touched'.row = page.row]_panelVars

\* db/keys.go, db/webhooks.go: "scoped to its environment so a request cannot reach a
\* webhook belonging elsewhere": as long as the environment of the page exists, a
\* form is applied to no key and no webhook of another one, even when the row it
\* names is gone and another row has its id.
StaysInTheEnvironmentShown ==
    [][(/\ touched'.verb \in {"revoke", "delete", "toggle"}
        /\ page.target \in ItemKinds
        /\ "env" \in stays) => touched'.env = page.env]_panelVars
=============================================================================
