# A TLA+ model of confezy

confezy is a feature flag and JSON config service: one Go binary, one SQLite file in WAL
mode, a JSON API that clients poll with ETags, a management API and an admin panel that edit
under optimistic locking, and webhooks that tell receivers to poll again. This directory
holds TLA+ modules translated from its source, the TLC configurations that check them on
small instances, and proofs, checked by TLAPS, of what matters most for all instances.

Paths below are relative to the repository, unless they end in `.tla` or `.cfg`.

## 1. Inventory

| Component | Source | State it keeps | Operations | Talks to |
|---|---|---|---|---|
| Storage | `internal/db/{db,projects,flags,configs,tags}.go`, `migrations/001,002` | tables `projects`, `environments` (with the stamp `updated_at`), `feature_flags`, `configs`, `tags`, `flag_tags`, `config_tags` | create and delete of each, update under a version, attach and detach of tags | calls `OnEnvChanged` after each commit |
| Client API | `internal/api/{client,etag}.go` | none of its own | snapshot, lists and single records, each several reads, with `If-None-Match` | reads Storage; clients keep bodies and ETags |
| API keys | `internal/auth/apikey.go`, `internal/db/keys.go`, `internal/ui/keys.go` | table `api_keys` | create, revoke, delete, look up | first steps of every API request |
| Panel forms | `internal/ui/{ui,projects,keys,webhooks}.go` | pages in browsers | create and delete projects and environments; create, revoke, delete keys; create, toggle, test, delete webhooks | Storage, `api_keys`, `webhooks` |
| Management API, panel editing | `internal/api/manage.go`, `internal/ui/{flags,configs}.go` | the pages and documents editors hold | create, put, toggle, delete, tag, rejected save | writes Storage with `expectedVersion` |
| Webhook dispatcher | `internal/webhook/webhook.go`, `internal/db/webhooks.go`, `internal/ui/webhooks.go` | a bounded channel, a pending set, table `webhooks` | notify, receive, tick, deliver, record, test | fed by Storage's callback; one goroutine |
| Startup | `main.go`, `internal/db/{db,seed,users}.go` | `schema_migrations`, tables, the admin account | migrate, seed, bootstrap, `admin-create` | several processes may share the file |
| Sessions | `internal/auth/session.go`, `internal/db/users.go`, `internal/ui/ui.go` | table `sessions`, the cookie | login, page, logout, hourly janitor | every panel request |
| Functions on texts | `splitStatements`, `etagMatches`, `escapeLike` | none | split a migration, read `If-None-Match`, escape a search | Startup, Client API, listings |
| Other helpers | `model`, `httpx`, passwords, rendering, command line | none | — | — |

What is hard here:

- **The stamp.** `environments.updated_at` is the only thing an ETag stands for. It has the
  resolution of a second, is taken from a clock that may be stepped back, and in the create
  functions from a reading made before the write lock was had.
- **Requests in pieces.** A client request is four separate reads; any transaction may commit
  between two of them.
- **Ids come back.** `INTEGER PRIMARY KEY` without `AUTOINCREMENT` hands out the id of a
  deleted newest row again. Whatever keeps an id across two steps may meet a stranger.
- **Versions come back.** A record made again under a deleted key starts at version 1.
- **Coalescing.** Changes go through a full-or-dropped channel, a set and a ticker; a change
  that comes while the previous batch is on its way must not be forgotten.
- **Names become ids in steps.** A form of the panel carries slugs and a row id from a page
  rendered long ago; the handler makes ids of the slugs one read after another and writes by
  id. A client's key becomes a row, and the row an environment, in two more reads.
- **Several processes.** `admin-create` beside the server, and a new container beside the old
  one, run the same migrate/seed/bootstrap on one file and may die anywhere.

What makes each component right:

- Storage: tables consistent under every sequence of writes; the stamp covers the content.
- Client API: a 304 never confirms a stale or foreign copy; ETags do not go back; who keeps
  polling gets the current document.
- Editing: an accepted write replaces what its editor saw, once.
- API keys: a key that is revoked, deleted or gone with its environment opens nothing.
- Panel forms: a form acts on the row its page showed, in the environment its page showed.
- Functions on texts: they compute what a definition by positions says they should.
- Dispatcher: no lost wake-up; every owed call is made.
- Startup: the schema is whole; a serving process is ready; a restart leaves the password.
- Sessions: code and SQL agree when a session is over; nothing else ends it but its logout.

## 2. Modules

| Module | Models | Built on |
|---|---|---|
| `Storage` | the tables and every write transaction on them | — |
| `EnvStore` | abstract: what the readers of ONE environment id may rely on | — |
| `EnvView` | the refinement mapping from `Storage` to `EnvStore` | extends `Storage`, instantiates `EnvStore` |
| `Polling` | API keys, requests and clients' caches over an environment | extends `EnvStore` |
| `SnapshotHistory` | `Polling` with the documents the environment held while a request ran | extends `Polling` |
| `Editors` | editors of one flag under the optimistic lock | — |
| `ConfigCards` | the config cards of the panel, with saves of invalid JSON | extends `Editors` |
| `Dispatcher` | webhook delivery | — |
| `DatabaseFile` | abstract: what a database file is to whoever opens it | — |
| `Startup` | processes between opening the file and serving it | instantiates `DatabaseFile` |
| `Sessions` | the panel's sessions | — |
| `Panel` | the panel's forms for projects, environments, keys and webhooks | extends `Storage` |
| `Access` | a client with an API key beside the panel | extends `Panel` |
| `Texts` | `splitStatements`, `escapeLike` with LIKE, `etagMatches` | — |
| `StorageProofs` | theorems about `Storage` and its refinement | extends `EnvView` |
| `AccessProofs` | theorems | extends `Access` and `StorageProofs` |
| `PollingProofs`, `EditorsProofs`, `DispatcherProofs`, `SessionsProofs`, `StartupProofs`, `TextsProofs` | theorems | extend `SnapshotHistory`, `Editors`, `Dispatcher`, `Sessions`, `Startup`, `Texts` |
| `MC_*` | names for TLC: model values, symmetry sets, URL sets | the module they name |

`Polling` is not run on top of `Storage` itself: its state space would be the product. It is
written against `EnvStore` instead; that what the tables show under
one environment id behaves as `EnvStore` says is checked by `EnvView_refines` and proved in
`StorageProofs`.

Some modules define an operator called *a variant of* another, next to it. It is not used by
the specification; it is the same operator with a plausible mistake, and each property of
each passing run is known to fail when the variant takes the operator's place.

### How they correspond to the code

**Storage.** A table is a set of records; a flag and a config are rows of one shape tagged
with their `kind`. Each exported write function of `internal/db` is one transaction on the
only write connection, opened with `_txlock=immediate`, so it is one atomic action; an error
rolls back and is a disabled action. Cascades (`CascadeRecs`, `CascadeLinks`) are part of the
delete. `touchEnv` is `Touch`/`Bumped`: `MAX(ts, updated_at + 1)`, with `ts` any clock
reading. `Shown` is what `ListFlagsTagged`/`ListConfigsTagged` return under `?tag=`, and
matches tags by name through the links only, as the query does. `VersionAccepted` skips the
check for a version of 0, as the code does.

**EnvStore, EnvView.** An environment id is alive or not, has a stamp and, per table and
filter, a listing. `Change` changes one table and moves the stamp up; `RemoveTag` clears a
filter in both tables; `Create` starts empty with an unrelated stamp.

**Polling.** A request goes through `Authenticate` (`LookupActiveAPIKey`),
`LoadEnvironment` (`GetEnvironmentByID` and the ETag decision of the handler), `ReadFlags`,
`ReadConfigs`, then `Reply` or `LoseReply`. `getFlag` and `getConfig` (`Singles`) read one
record, shown as a table with that key and no other, and end in `NotFound` without it.
`FilteredETag` is the stamp and the filter.
`generation` tells successive holders of one id apart; the program has no such thing, and no
guard reads it except `KeyExists`, where it stands for the cascade from environment to key.
An answer outlives its environment here, as it does in the code.

**Editors.** `Look` is a render or a GET; `Ask` fixes the version of the page; `Create`,
`Put`, `ToggleRead`/`ToggleWrite` (the panel's toggle reads the flag and then writes its
negation), `Delete` are the handlers with their 404 and 409 branches. An answer may be lost
after the commit, and the same request is then sent again. A request whose editor gave up
before it was worked on is covered by a further editor's, so it is simply forgotten.

**ConfigCards.** The editors of `Editors`, whose value is now a JSON document. `seen` is the
row whose document an editor was last shown, `page` the row whose version the card carries.
They are the same everywhere but in `RejectedSave`: the answer to a text that is not JSON is a
card of the row as it is by then around the text as it was typed.

**Panel, Access.** `Open` renders a page and picks the row whose button will be pressed;
`Submit` sends the form; `ResolveProject` and `ResolveEnvironment` are `resolveProject` and
`resolveEnv`, one step each; `ReadWebhook` is the read of `toggleWebhook` and `testWebhook`;
`Act` is the write with its answer, `ActInVain` a write that finds nothing or a taken slug.
`Elsewhere` is any write of anybody else, between any two of these. `items` holds the rows of
`api_keys` and `webhooks`; `Scoped` is `id = ? AND environment_id = ?`, and `RecordResult`
does without the environment, as `RecordWebhookResult` does. `stays` remembers which rows of
the page have not been deleted since. In `Access` a client's request is `LookUp`, `Load`,
`Respond`; its key is found by its hash, so the holder of the same row id later is another.

**Texts.** `splitStatements` is a state machine with the loop's variables, one action per case
of its switch; `Statements` says the same by positions: a separator is a semicolon in code, and
where a rune stands follows from the runes before it, without the code's look-ahead. (Leaving a
literal at a doubled quote and entering it again gives the same pieces.) `EscapeLike` is
escapeLike and `Likes` SQLite's LIKE with an escape character, which folds the case of ASCII
letters only: `Begins` is the set of places in the name where the rest of the pattern fits, read
from the pattern's end. `ETagMatches` is etagMatches; that the ETag stands between quotes and
has no comma (`ETagIsQuoted`) is `FilteredETag` with `model.ValidTag`. The character sets are in
`MC_Texts`, because strings in a `.cfg` have no escapes.

**Dispatcher.** `Commit` and `Notify` are two steps, because the callback runs after the
commit; `DeleteTag` changes all environments of a project and notifies one after another.
`Receive`, `Tick`, `ListHooks`, `StartNext`, `Send`, `Record` are `Run`, `deliverEnvironment`
and `Deliver`, all of one goroutine (`RunStep`, and `Tick`); while a batch is delivered nothing is received. `Test` runs the same delivery
from another goroutine. `owed` and `dropped` are history: which hooks have been promised a
call, and which environments' last change was lost to a full queue or a failed query.

**Startup.** A transaction takes the write lock (`holder`) and works on a `draft`; a crash or
a failed statement drops it. `Track`, `Check`, `BeginTx`, `Apply`, `RecordMigration` are
`Migrate`; the question whether a migration is applied is asked outside its transaction, as
in the code. `CountProjects` and `Fill` are `Seed`, `LookUpAccount` and `CreateAccount` are
`bootstrapAdmin`, `AdminCreate` and `AdminReset` are the end of `cmdAdminCreate`. A server
is started in an environment of its own (`Deployments`), and perhaps in another one the next
time: the demo seed is on, off or a text that is no boolean, which fails the start; the account
is given, or neither variable is set, and the server comes up without one (the default of the
compose file; `bootstrapAdmin` warns if nobody can sign in), or only half of it is set, or it is
invalid, which fails the start. There is one account; names are left out. Projects are edited
by who has signed in (`SignedIn`, `RequireLogin`).

**DatabaseFile.** What is left when processes, locks and drafts are taken away: the next migration
arrives with all its tables; nothing is put in the tables before all are there; the demo projects
come together; the account gets a password and does not go; nobody edits projects before there is
an account, though a server may serve without one: `RequireLogin` keeps the panel to those who
have signed in. `Startup` refines it by the fields of `file` that are visible (`tracked`, the bare
existence of `schema_migrations`, is not).

**Sessions.** A login draws an id and reads the clock, then stores the row; a page reads the
row (`GetSession`), then compares it with the clock as it is by then (`Compare`), and tries to
delete the row of a session that is over (`DropExpired`); a logout deletes the row and then
clears the cookie, or leaves both when the delete fails. Any read or delete may fail. The tabs
of a browser share the jar. The janitor reads its second, then
waits to delete.

## 3. What the runs check

Bounds are named constants; an action that would exceed one is disabled.

| Run | Checks | Instance, and why it is enough |
|---|---|---|
| `EnvView_refines` | `TypeOK`, `Referential`, `StampCoversContent`, `ImplementsEnvStore` | 2 projects, 2 ids per table, so that every id is handed out again and links, tags and records of two projects meet; stamps to 3: the clock ahead of, equal to and behind the stamp, and room for every write to move it. The refinement watches id 2, which changes hands. One value: an update shows in the version |
| `Storage_taglist` | finds `StampCoversTagList` violated | one project of 2 environments |
| `Polling_snapshot` | `TypeOK`, `NoStale304`, `UnfilteredIsWhole`, `EtagNeverRegresses`, `EventuallyFresh` | one client that polls the snapshot with and without a filter and one flag; one write, or the removal of a tag, anywhere between the reads of its requests; the ETag before it and the one after, all in the cache |
| `SnapshotHistory_tag` | finds `NeverHalfAWrite` violated | one filtered snapshot |
| `Editors_lock` | `TypeOK`, `NoBlindOverwrite`, `ToggleFlipsThePage`, `AppliedOnce` | 2 editors, 3 versions, key made twice |
| `Editors_recreated` | finds `NeverOverwritesUnseen` violated | the same |
| `ConfigCards_rejected` | finds `SavesOverWhatWasShown` violated | the same, key made once |
| `Dispatcher_delivers` | `TypeOK`, `NoLostWakeup`, `EveryChangeDelivered` | one writer, 2 changes of one or both of 2 environments, 2 hooks, queue of 1: `DeleteTag` alone overflows it, and a change meets a batch under way |
| `Startup_shared` | `TypeOK`, `SchemaWhole`, `ServingIsReady`, `PasswordChangesByResetOnly`, `ImplementsDatabaseFile`, `EventuallyUp` | 2 servers and an `admin-create` on one file, 2 migrations of 2 statements, one kill beside the starts that fail; one server with all set or with nothing, the other with all set, half an account, or a seed switch that is no boolean, so that a server without an account and a server that gives one share a file |
| `Sessions_panel` | `TypeOK`, `NotServedAfterExpiry`, `EndsByLogoutOrExpiry`, `LogoutEndsTheSession`, `ExpiredIsPruned` | 2 tabs, 2 sessions that live 1 second of 2: before, at and after the expiry |
| `Texts_functions` | `SplitsAtSemicolonsOfCode`, `SearchIsForTheText`, `MatchesWhatIsListed` | every file of up to 6 of 6 kinds of runes, every search and name of up to 3, every header of up to 6 of 6 kinds of parts: each case of the switches, and each after each other |
| `Access_panel` | `AccessTypeOK`, `RefusedOnceGone`, `ActsOnTheRowShown`, `StaysInTheEnvironmentShown` | 2 slugs of projects, 2 environments, one row of each kind of item, so that an id is taken again at once, by another environment |

The instance of `Polling_snapshot` is bounded by its liveness property. With two writes, and
with two holders of the id, the safety properties have been checked as well; that they hold
without bounds is proved (section 4).

`CHECK_DEADLOCK FALSE` is set for the Dispatcher, where the process really stops, and for
`Texts`, where a call returns. All other modules are checked for deadlock.

One client is enough in `Polling`: clients share nothing but the environment, and no action of
one reads what another keeps; what another client could do to the environment, a write does.

Symmetry is used only over names that are compared and nothing else, and never in a run that
checks liveness.

### Fairness

- `Polling_snapshot`: weak fairness on the handler of an accepted request (the server works on
  it), strong fairness on polling each URL (the README's loop) and on its answer arriving
  (not every response is lost). No fairness on writes, keys or environments; the property
  only speaks of runs in which these come to rest.
- `Dispatcher_delivers`: weak fairness on each writer's notifications, on the steps of `Run`
  (`RunStep`), and on its ticker (`Tick`). `Run` selects between
  channel, ticker and context; Go's `select` chooses at random among what is ready and the
  channel holds finitely many entries, so the ticker is not put aside for ever. A delivery
  ends by `deliveryTimeout`. No fairness on changes, panel actions or the stop.
- `Startup_shared`: weak fairness on the next step of a running process and on a server being
  started again (`restart: unless-stopped`). Kills, commands and deletions are bounded: with
  infinitely many of them no start need ever succeed, in the code as in the model. A server
  with half an account, or with a seed switch that cannot be read, never starts (README:77,
  `main.go:316`) and is started for ever; `EventuallyUp` speaks of servers whose environment is
  in order from some time on (`InOrder`).
- `Sessions_panel`: weak fairness on the janitor's ticker, strong on its delete: some deletes
  may fail, but not all.

### What the code does otherwise than its documentation says

1. `StampCoversTagList`: the first use of a tag in one environment adds it to the project's
   tag list, which `GET /v1/tags` serves to the siblings under their unchanged ETags
   (`api/etag.go:9`: a stable ETag means "nothing you can see has changed").
2. `NeverOverwritesUnseen`: a page of a deleted record passes the lock against the record made
   again under its key, as versions start over (README:351).
3. `SavesOverWhatWasShown`: a save with invalid JSON is answered with a card that carries the
   row's version as it is by then, so the corrected save replaces a document that was never
   shown to its editor, in the face of the same sentence (README:351). The page's script keeps
   invalid JSON from being sent (`templates/base.html:153`), so it takes a browser without it.
4. `NeverHalfAWrite`: `BuildSnapshot` lists flags and configs in two statements; deleting a tag
   changes both tables in one transaction, and a snapshot filtered by that tag can show one
   before and one after (README:456). `NoStale304` and `EventuallyFresh` hold all the same:
   the mixture carries the old stamp and is replaced at the next poll. Without a filter the
   sentence is true (`UnfilteredIsWhole`): deleting a tag is the only transaction that changes
   both listings, and only under its own filter.

The models also contain these, which no property forbids:

- Between the lookup of a key and the load of its environment the id may pass to another
  environment, whose data is then the answer (`LoadEnvironment`).
- The outcome of a delivery is recorded by id after up to ten seconds, and may be shown at a
  webhook made since (`Record`, `RecordResult`).
- A form finds its environment by slugs: deleted and made again under the same slugs, it is
  the new one that is changed. And between the reads of the slugs and the write, the id of the
  environment may pass on, and with it the meaning of "scoped to its environment"
  (`db/keys.go:88`, `db/webhooks.go:96`); the properties of `Panel` speak of rows that have
  stayed.
- Two users who press toggle at one webhook may cancel or repeat each other (`ReadWebhook`).
- A config that is gone answers a rejected save with an internal error instead of a 404.
- What is pending or queued when the server stops is not delivered (`Shutdown`).
- A hook that is disabled after the list was read is still called once (`todo`).
- A change whose hooks could not be listed is logged and called for no more (`ListHooksFails`);
  nor is one that found the queue full of other environments. `NoLostWakeup` and
  `EveryChangeDelivered` except an environment whose last change went that way (`dropped`).
- An environment that is deleted between the stamp and the listings of a request is answered
  as an empty one (`ReadFlags`, `ReadConfigs`). Its client's key has gone with it.
- A record that is not there any more is a 404 and replaces nothing the client keeps
  (`NotFound`); `EventuallyFresh` exempts it.
- A logout whose `DELETE` fails is redirected to the login all the same, with row and cookie left
  (`DeleteSessionFails`): the browser is signed in still. `LogoutEndsTheSession` says that the
  cookie at least is not taken away before the session is gone.

## 4. What is proved

For all values of the constants that satisfy the named assumptions (`StorageBounds`,
`DefaultIsSlug`, `TagsHaveNames`, `ObservedIsId`, `EnvStoreConstants`, `PollingConstants`,
`EditorsBounds`, `DispatcherConstants`, `SessionsConstants`, `StartupConstants`,
`PanelBounds`, `TextsBounds`, `ETagIsQuoted`):

| Theorem | Says |
|---|---|
| `StorageProofs!TypeCorrect` | `Spec => []TypeOK` |
| `StorageProofs!ReferentialCorrect` | `Spec => []Referential` |
| `StorageProofs!StampCorrect` | `Spec => StampCoversContent` |
| `StorageProofs!ImplementsEnvStoreCorrect` | `Spec => ImplementsEnvStore` |
| `PollingProofs!PollingTypeCorrect` | `Spec => []TypeOK` |
| `PollingProofs!NoStale304Correct` | `Spec => []NoStale304` |
| `PollingProofs!EtagNeverRegressesCorrect` | `Spec => EtagNeverRegresses` |
| `PollingProofs!UnfilteredIsWholeCorrect` | `HistorySpec => []UnfilteredIsWhole` |
| `EditorsProofs!EditorsTypeCorrect` | `Spec => []TypeOK` |
| `EditorsProofs!NoBlindOverwriteCorrect` | `Spec => []NoBlindOverwrite` |
| `EditorsProofs!ToggleFlipsThePageCorrect` | `Spec => []ToggleFlipsThePage` |
| `EditorsProofs!AppliedOnceCorrect` | `Spec => []AppliedOnce` |
| `DispatcherProofs!DispatcherTypeCorrect` | `Spec => []TypeOK` |
| `DispatcherProofs!NoLostWakeupCorrect` | `Spec => []NoLostWakeup` |
| `SessionsProofs!SessionsTypeCorrect` | `Spec => []TypeOK` |
| `SessionsProofs!NotServedAfterExpiryCorrect` | `Spec => []NotServedAfterExpiry` |
| `SessionsProofs!EndsByLogoutOrExpiryCorrect` | `Spec => EndsByLogoutOrExpiry` |
| `SessionsProofs!LogoutEndsTheSessionCorrect` | `Spec => []LogoutEndsTheSession` |
| `StartupProofs!StartupTypeCorrect` | `Spec => []TypeOK` |
| `StartupProofs!SchemaWholeCorrect` | `Spec => []SchemaWhole` |
| `StartupProofs!ServingIsReadyCorrect` | `Spec => []ServingIsReady` |
| `StartupProofs!PasswordChangesByResetOnlyCorrect` | `Spec => PasswordChangesByResetOnly` |
| `StartupProofs!ImplementsDatabaseFileCorrect` | `Spec => ImplementsDatabaseFile` |
| `AccessProofs!AccessTypeCorrect` | `AccessSpec => []AccessTypeOK` |
| `AccessProofs!RefusedOnceGoneCorrect` | `AccessSpec => []RefusedOnceGone` |
| `AccessProofs!ActsOnTheRowShownCorrect` | `AccessSpec => ActsOnTheRowShown` |
| `AccessProofs!StaysInTheEnvironmentShownCorrect` | `AccessSpec => StaysInTheEnvironmentShown` |
| `TextsProofs!SplitsAtSemicolonsOfCodeCorrect` | `Spec => []SplitsAtSemicolonsOfCode` |
| `TextsProofs!SearchIsForTheTextCorrect` | `Spec => []SearchIsForTheText` |
| `TextsProofs!MatchesWhatIsListedCorrect` | `Spec => []MatchesWhatIsListed` |

*Storage.* `TypeOK /\ Referential` is inductive, though no part of `Referential` is on its
own: that an id names one row needs no orphans (a link left behind would belong to the next
record with that id), that no record carries a foreign tag needs both. There is one lemma per
write function. The stamp theorem is an action property over this invariant: a step changes
what an environment shows only by changing its records, or links or tags of its records, and
`TagsStayInProject` is what makes `TouchProject` in `DeleteTag` reach every environment that
showed the tag.

*The refinement.* Two things come on top. A project has one tag of a name (`TagNamesUnique`),
which makes the deletion of a tag empty the listings under its name instead of leaving what
another tag of that name would show; and no tag has the empty name (`TagsHaveNames`;
`model.ValidTag` asks for a character), so the unfiltered listing is not among them. Every step is then one of
five: the environment appears, and with it no record, tag or link (`Births`); it is not there,
and its listings are empty (`NobodysListing`), before the step or after; its stamp stays, and
by the stamp theorem so does its content; its stamp goes up in a write of a record or of a
link, which reaches one table (`RecordWrites`); or in `DeleteTag` (`TagRemoved`).

*Polling.* `NoStale304` is not inductive: it says nothing of a request that is still reading.
The invariant `Faithful` adds, for each request that has loaded its environment and while that
environment lives: the stamp it took is not newer than the environment's, and **as long as it
still equals it**, what has been read so far equals what is there; and the same for each
cached entry. A write moves the stamp strictly up, so it falsifies the condition rather than
the conclusion; reading the stamp first and the tables afterwards is exactly what this needs.
The ETag of a reply that reads the stamp last (`ReplyWithLateETag`) has no such invariant.

`EtagNeverRegresses` needs one thing more (`NoneBehind`): an answer that is on its way is not
older than what its client keeps of the same holder of the id. `Faithful` bounds the kept stamp
by the environment's only while that lives; a request takes the environment's stamp while it
lives, and its client has no other request until it ends.

For `UnfilteredIsWhole` the history of a request is part of the invariant (`Remembered`): what has
been read is what some document of the history shows, and this document and the present one
differ in one table at most (`OneTable`). So whichever table is read next, one of the two
documents has both. `RemoveTag` keeps that for listings without a filter only.

*Editors.* None of the three properties is inductive: they speak of the write that has just
been accepted. `Inv` adds that the record that exists is the youngest of its key (`Latest`) and,
for each page and each request (`Held`), that what it shows is a row of the past: of a life that
has ended, or of the present one with a version that is not ahead of the row's, and with the
row's value if the versions are equal. With that a match of versions within one life is a match
of rows, which is `NoBlindOverwrite`, and the value the toggle reads before its write is the
page's when the write is accepted. For `AppliedOnce` the invariant says that a request whose
change has gone into a life of the record carries a version that this life has left behind.

*Dispatcher.* `NoLostWakeup` is nearly inductive: each step hands the environment on from a
writer's notifications to the queue, the pending set, the batch, the list, the call. At the
list (`ListHooks`) it needs that an owed hook is still enabled, as the query finds no other
(`OwedIsEnabled`), and where a webhook is made or toggled that a serial names one hook
(`OneOfEach`), so that none inherits a call with the row id it gets or keeps one it is no longer
owed. The list is a sequence because the table is finite, which is part of `Inv` as well.

*Sessions.* An id is drawn once, so a row that is on its way into the table shares its id with
no row that is stored, was read, or is on its way from another tab (`Apart`); a row that was
read stays the only one its cookie can name (`AsRead`), which is what makes the delete by
cookie of an expired row hit that row and no other. A value that a browser has for a cookie is
an id that is drawn and no longer on its way into the table (`Out`, `GivenOut`), so a session that
a logout has deleted is not stored behind it. No request and no janitor holds a second
that has not come, so what they find expired is expired.

*Startup.* `Inv` says where a process can be (`Place`: it holds the write lock exactly while it
works on a draft; the migrations before its own are recorded; a server that serves has an account
if its environment gives one), what it was run for (`Role`) and
what its transaction has done (`Undone`: the draft is the file and the first statements of one
migration). The question whether a migration is applied is answered before the lock is had, and
nothing in `Inv` repeats it afterwards: that a migration is not applied twice follows from its
first statement failing on a table that is there, which `SchemaWhole` knows to be there. That
takes a migration to have a statement; one without would fail at the row that records it.
For the refinement, `RecordIsMigrate` finds the recorded migrations to be exactly those before
the one that commits: all of them by `Place`, and none behind it, which by `SchemaWhole` would
not be recorded without it. What is asked before the lock is had (is the table of projects empty,
is there an account) does not matter to it; what `Place` keeps is that the schema was complete.

*Access.* The forms and the client's call write `Storage`'s tables through `Storage`'s actions,
so its invariants hold of them by `StorageKeeps`. `Inv` adds that a slug names one project and,
in it, one environment, and ties a form's ids to its page: while the environment of the page
has not been deleted, the slugs lead to it at each of the handler's reads, whatever became of
the ids of others in between (`EnvironmentShown`, `ProjectShown`). `KeyStands` says the same of
a client's key: its row does not come back to life, and its environment does not go without it.

*Texts.* The theorems are about texts of every length. The loop's memory (`SplitInv`) says where
the last rune it has dealt with stands: `inStr` and `inLnCmt` are the region of that rune,
`cur` is the piece so far and `out` the pieces before it; a dash the loop has taken is never the
first of two, as the look-ahead has seen the second. For LIKE (`LikesWhatOccurs`) the escaped
text is laid out from the pattern's end: the rest of the pattern begins at a place of the name
exactly if the rest of the text stands there (`FromBefore`), one character at a time, whether it
takes one or two places of the pattern. For If-None-Match (`MatchesWhatIsListedIn`) every text
the function cuts out is a part of the header (`CandidatesAre`, `TrimCutsTight`); that a match is
listed, and the reverse, is then a matter of where commas and blanks stand.

The provers take no induction theorem that has an operator as a parameter, and no fact about a
recursive function but its definition. `TextsProofs` begins with what replaces both. `Induction`
is induction for *sets* of naturals, from the least element that
`NatLessThanWellFounded` gives. `FixedPoint` says that a functional whose value at a point is
settled by the values at points of less measure has a fixed point; so the functions that are
defined by recursion (`Region`, `RunesAt`, `Pieces`, `Begins`, the flattening of a sequence) exist
and satisfy their equations, and what follows about them follows by `Induction`.

Only model-checked: liveness (`EventuallyFresh`, `EveryChangeDelivered`, `EventuallyUp`,
`ExpiredIsPruned`). Liveness under fairness and `ENABLED` are outside the prover's reach. The
proofs of safety do not depend on it, and every safety property of section 3 that holds is
proved.

## 5. Not modelled, and why

- Descriptions, labels, JSON bodies, wording, templates: data no property distinguishes.
- Password hashing and key generation: libraries; their outcomes are choices in the model.
- Scopes of keys: a comparison of ranks (`model.ScopeAllows`), without state.
- Query strings and the truncation of a search (`ui/filter.go`): what the panel links to.
- Power loss under `synchronous=NORMAL`, which can take back the last commits: the repository
  documents it as a trade-off (README:459), so there is no promise to state.
- A client that keeps the body of a deleted environment and gets a key for a new holder of the
  same id whose stamp happens to equal the kept one. The ETag properties are stated per holder
  of the id.
- More than one admin account: the names of accounts, and with them an `admin-create` for a name
  other than the configured one. They differ in their row only.
- Reads that fail for no reason of the model (a disk error): the handlers answer with an internal
  error and have changed nothing, and a start exits and is repeated as after a kill.

## 6. Plan

Done, in this order: `Storage`, `EnvStore` and `EnvView`, `Polling`, `SnapshotHistory`,
`Editors`, `Dispatcher`, `Startup` with `DatabaseFile`, `Sessions`, `ConfigCards`, `Texts`, `Panel` and `Access`;
proofs of all safety properties and of both refinements.

What could follow:

1. `Polling` with two environments and keys of both, for a client that is moved from one to
   the other.
2. Power loss, if the repository comes to promise something about it.
