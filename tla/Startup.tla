------------------------------ MODULE Startup ------------------------------
(***************************************************************************)
(* What happens between opening a database file and serving it: migrate,   *)
(* seed, create the account of the environment.  Several processes may be  *)
(* at it on one file: the server and the one that replaces it, and a       *)
(* confezy admin-create.  Any of them may die between two steps; a server  *)
(* is started again (docker-compose: restart unless-stopped).              *)
(* The file is what the last committed transaction left; a transaction     *)
(* takes the write lock first (_txlock=immediate) and works on a draft.    *)
(***************************************************************************)
EXTENDS Integers, FiniteSets

CONSTANTS
    Servers, Commands,   \* processes: confezy serve, confezy admin-create
    Nobody,
    LastMigration,       \* the migration files, in the order of their names
    Statements,          \* statements of each migration
    SeedIds,             \* explicit ids of the demo projects
    Deployments,         \* the environments in which each server may be started
    Passwords, EnvPassword, NoPassword,   \* EnvPassword: CONFEZY_ADMIN_PASSWORD
    MaxProject,          \* bound: ids of projects
    MaxCrashes,          \* bound: processes killed
    MaxCommands,         \* bound: times an operator runs admin-create
    MaxDeletes           \* bound: projects deleted

\* CONFEZY_SEED_DATA, and CONFEZY_ADMIN_USERNAME with CONFEZY_ADMIN_PASSWORD: both set,
\* neither, or one without the other, too short, a file that cannot be read.
Settings == [seed : {"on", "off", "unreadable"}, account : {"given", "none", "unfit"}]

Processes  == Servers \cup Commands
Migrations == 1 .. LastMigration
ProjectIds == 1 .. MaxProject

ASSUME StartupConstants ==
    /\ LastMigration \in Nat /\ Statements \in Nat
    /\ SeedIds \subseteq ProjectIds
    /\ Deployments \in [Servers -> SUBSET Settings \ {{}}]
    /\ EnvPassword \in Passwords /\ NoPassword \notin Passwords
    /\ Servers \cap Commands = {} /\ Nobody \notin Processes
    /\ {MaxProject, MaxCrashes, MaxCommands, MaxDeletes} \subseteq Nat

VARIABLES
    file,      \* the database as committed
    draft,     \* the database as the transaction under way sees it
    holder,    \* the process that has the write lock for its transaction
    at,        \* at[p]: what p does next
    position,  \* position[p]: the migration and the statement p is at
    asked,     \* asked[p]: the command p was run as, or its environment
    crashes, commands, deletes   \* history, for the bounds

vars == <<file, draft, holder, at, position, asked, crashes, commands, deletes>>
counted == <<crashes, commands, deletes>>

Tables    == Migrations \X (1 .. Statements)
Databases == [tracked : BOOLEAN, recorded : SUBSET Migrations,
              tables : SUBSET Tables, password : Passwords \cup {NoPassword},
              projects : SUBSET ProjectIds]
Empty     == [tracked |-> FALSE, recorded |-> {}, tables |-> {},
              password |-> NoPassword, projects |-> {}]

Steps == {"down", "track", "check", "begin", "apply", "count", "seed", "fill",
          "lookup", "account", "serving", "create", "reset"}

StartOfFile == [migration |-> 1, statement |-> 1]
NotAsked    == [reset |-> FALSE, password |-> NoPassword]
Asked       == Settings \cup [reset : BOOLEAN, password : Passwords \cup {NoPassword}]
-----------------------------------------------------------------------------
(* Transactions and single statements on the write connection. *)

GoTo(p, step) == at' = [at EXCEPT ![p] = step]

Begin(p) ==
    /\ holder = Nobody
    /\ holder' = p
    /\ UNCHANGED <<file, draft>>

\* A variant of Execute: a statement runs outside the transaction.
ExecuteAtOnce(db) ==
    /\ draft' = db /\ file' = db
    /\ UNCHANGED holder

Execute(db) ==
    /\ draft' = db
    /\ UNCHANGED <<file, holder>>

Commit(db) ==
    /\ file' = db /\ draft' = db
    /\ holder' = Nobody

\* A statement that is its own transaction.
ExecAlone(db) ==
    /\ holder = Nobody
    /\ file' = db /\ draft' = db
    /\ UNCHANGED holder

\* A variant of RollBack: the transaction ends without being undone.
EndKeeping(p) ==
    /\ file' = file
    /\ draft' = draft
    /\ holder' = IF holder = p THEN Nobody ELSE holder

\* A variant of RollBack: what was done so far is committed.
EndCommitting(p) ==
    /\ file' = IF holder = p THEN draft ELSE file
    /\ draft' = draft
    /\ holder' = IF holder = p THEN Nobody ELSE holder

\* log.Fatal, or a kill: the lock goes, and with it the uncommitted pages.
RollBack(p) ==
    /\ file' = file
    /\ IF holder = p THEN draft' = file /\ holder' = Nobody
                     ELSE UNCHANGED <<draft, holder>>

Exit(p) == GoTo(p, "down") /\ RollBack(p)
-----------------------------------------------------------------------------
(* Migrate. *)

\* A variant of FirstStep: admin-create trusts the server to have migrated the file.
FirstStepOfEach == [p \in Processes |-> IF p \in Servers THEN "track" ELSE "create"]

\* Both commands migrate before they do anything else.
FirstStep == [p \in Processes |-> "track"]

\* cmdServe, when it is run again, by then perhaps in another environment;
\* cmdAdminCreate, when an operator runs it.
Start(p) ==
    /\ at[p] = "down"
    /\ IF p \in Servers
       THEN /\ \E env \in Deployments[p] : asked' = [asked EXCEPT ![p] = env]
            /\ UNCHANGED commands
       ELSE /\ commands < MaxCommands
            /\ commands' = commands + 1
            /\ \E reset \in BOOLEAN, pw \in Passwords :
                  asked' = [asked EXCEPT ![p] = [reset |-> reset, password |-> pw]]
    /\ GoTo(p, FirstStep[p])
    /\ position' = [position EXCEPT ![p] = StartOfFile]
    /\ UNCHANGED <<file, draft, holder, crashes, deletes>>

\* CREATE TABLE IF NOT EXISTS schema_migrations.
Track(p) ==
    /\ at[p] = "track"
    /\ IF file.tracked THEN UNCHANGED <<file, draft, holder>>
                       ELSE ExecAlone([file EXCEPT !.tracked = TRUE])
    /\ GoTo(p, "check")
    /\ UNCHANGED <<position, asked, counted>>

\* A variant of Pending: a database that is not fresh has its schema.
PendingWhenFresh(m) == file.recorded = {}

Pending(m) == m \notin file.recorded

\* Is the next migration applied?  Read before its transaction begins.
Check(p) ==
    /\ at[p] = "check"
    /\ LET m == position[p].migration IN
       IF m > LastMigration
       THEN /\ GoTo(p, IF p \in Servers THEN "count" ELSE "create")
            /\ UNCHANGED position
       ELSE IF Pending(m)
       THEN GoTo(p, "begin") /\ UNCHANGED position
       ELSE /\ position' = [position EXCEPT ![p] = [migration |-> m + 1, statement |-> 1]]
            /\ UNCHANGED at
    /\ UNCHANGED <<file, draft, holder, asked, counted>>

BeginTx(p) ==
    /\ at[p] \in {"begin", "seed"}
    /\ Begin(p)
    /\ GoTo(p, IF at[p] = "begin" THEN "apply" ELSE "fill")
    /\ UNCHANGED <<position, asked, counted>>

\* busy_timeout and the context run out while another process has the lock.
TimedOut(p) ==
    /\ at[p] \in {"track", "begin", "seed", "account", "create", "reset"}
    /\ at[p] = "track" => ~ file.tracked
    /\ holder # Nobody
    /\ Exit(p)
    /\ UNCHANGED <<position, asked, counted>>

\* One statement of the migration; a table that is there already fails it.
Apply(p) ==
    /\ at[p] = "apply"
    /\ position[p].statement <= Statements
    /\ LET table == <<position[p].migration, position[p].statement>> IN
       IF table \in draft.tables
       THEN Exit(p) /\ UNCHANGED position
       ELSE /\ Execute([draft EXCEPT !.tables = @ \cup {table}])
            /\ position' = [position EXCEPT ![p].statement = @ + 1]
            /\ UNCHANGED at
    /\ UNCHANGED <<asked, counted>>

\* The row in schema_migrations, in the same transaction.
RecordMigration(p) ==
    /\ at[p] = "apply"
    /\ position[p].statement > Statements
    /\ LET m == position[p].migration IN
       IF m \in draft.recorded
       THEN Exit(p) /\ UNCHANGED position
       ELSE /\ Commit([draft EXCEPT !.recorded = @ \cup {m}])
            /\ GoTo(p, "check")
            /\ position' = [position EXCEPT ![p] = [migration |-> m + 1, statement |-> 1]]
    /\ UNCHANGED <<asked, counted>>
-----------------------------------------------------------------------------
(* Seed and bootstrapAdmin. *)

\* seedDemoData, unless it is switched off: are there any projects?
CountProjects(p) ==
    /\ at[p] = "count"
    /\ \/ asked[p].seed = "unreadable" /\ Exit(p)
       \/ /\ asked[p].seed # "unreadable"
          /\ GoTo(p, IF asked[p].seed = "on" /\ file.projects = {} THEN "seed" ELSE "lookup")
          /\ UNCHANGED <<file, draft, holder>>
    /\ UNCHANGED <<position, asked, counted>>

\* The demo rows come with explicit ids: one that is taken fails them all.
Fill(p) ==
    /\ at[p] = "fill"
    /\ IF SeedIds \cap draft.projects # {}
       THEN Exit(p)
       ELSE /\ Commit([draft EXCEPT !.projects = @ \cup SeedIds])
            /\ GoTo(p, "lookup")
    /\ UNCHANGED <<position, asked, counted>>

\* With neither variable set the server comes up all the same, with a warning if nobody
\* can sign in; with half an account it does not.
LookUpAccount(p) ==
    /\ at[p] = "lookup"
    /\ \/ asked[p].account = "unfit" /\ Exit(p)
       \/ /\ asked[p].account # "unfit"
          /\ GoTo(p, IF asked[p].account = "given" /\ file.password = NoPassword
                     THEN "account" ELSE "serving")
          /\ UNCHANGED <<file, draft, holder>>
    /\ UNCHANGED <<position, asked, counted>>

\* A variant of WithAccount: INSERT OR REPLACE.
WithAccountReplaced(db, pw) == [db EXCEPT !.password = pw]

\* CreateUser: ErrDuplicate leaves the account as it is.
WithAccount(db, pw) ==
    IF db.password = NoPassword THEN [db EXCEPT !.password = pw] ELSE db

\* Somebody may have created the account while the hash was computed.
CreateAccount(p) ==
    /\ at[p] = "account"
    /\ ExecAlone(WithAccount(file, EnvPassword))
    /\ GoTo(p, "serving")
    /\ UNCHANGED <<position, asked, counted>>
-----------------------------------------------------------------------------
(* cmdAdminCreate, after Migrate. *)

AdminCreate(p) ==
    /\ at[p] = "create"
    /\ ExecAlone(WithAccount(file, asked[p].password))
    /\ GoTo(p, IF file.password # NoPassword /\ asked[p].reset THEN "reset" ELSE "down")
    /\ UNCHANGED <<position, asked, counted>>

\* SetUserPassword.
AdminReset(p) ==
    /\ at[p] = "reset"
    /\ ExecAlone([file EXCEPT !.password = asked[p].password])
    /\ GoTo(p, "down")
    /\ UNCHANGED <<position, asked, counted>>
-----------------------------------------------------------------------------
(* A server that serves; and the end of a process. *)

\* An INTEGER PRIMARY KEY is one more than the largest.
IsNextId(id) == id = 1 + Cardinality({i \in ProjectIds : \E j \in file.projects : i <= j})

\* RequireLogin: the panel is for those who have an account, and without one there is
\* nobody to use it.
SignedIn(p) == at[p] = "serving" /\ file.password # NoPassword

CreateProject(p) ==
    /\ SignedIn(p)
    /\ \E id \in ProjectIds :
          IsNextId(id) /\ ExecAlone([file EXCEPT !.projects = @ \cup {id}])
    /\ UNCHANGED <<at, position, asked, counted>>

DeleteProject(p) ==
    /\ SignedIn(p)
    /\ deletes < MaxDeletes
    /\ deletes' = deletes + 1
    /\ \E id \in file.projects : ExecAlone([file EXCEPT !.projects = @ \ {id}])
    /\ UNCHANGED <<at, position, asked, crashes, commands>>

\* Every other request leaves the schema, the account and the projects alone.
Serve(p) ==
    /\ at[p] = "serving"
    /\ UNCHANGED vars

Crash(p) ==
    /\ at[p] # "down"
    /\ crashes < MaxCrashes
    /\ crashes' = crashes + 1
    /\ Exit(p)
    /\ UNCHANGED <<position, asked, commands, deletes>>
-----------------------------------------------------------------------------
Init ==
    /\ file = Empty /\ draft = Empty
    /\ holder = Nobody
    /\ at = [p \in Processes |-> "down"]
    /\ position = [p \in Processes |-> StartOfFile]
    /\ asked = [p \in Processes |-> NotAsked]
    /\ crashes = 0 /\ commands = 0 /\ deletes = 0

\* The next step of a process that is left alone.
Advance(p) ==
    \/ Track(p) \/ Check(p) \/ BeginTx(p) \/ Apply(p) \/ RecordMigration(p)
    \/ CountProjects(p) \/ Fill(p) \/ LookUpAccount(p) \/ CreateAccount(p)
    \/ AdminCreate(p) \/ AdminReset(p)

Next == \E p \in Processes :
    \/ Start(p) \/ Advance(p) \/ TimedOut(p)
    \/ CreateProject(p) \/ DeleteProject(p) \/ Serve(p)
    \/ Crash(p)

Spec == Init /\ [][Next]_vars

\* A process that is running runs on, and a server that ended is started again.
Fairness ==
    /\ \A p \in Processes : WF_vars(Advance(p))
    /\ \A s \in Servers : WF_vars(Start(s))

LiveSpec == Spec /\ Fairness
-----------------------------------------------------------------------------
(* Properties *)

TypeOK ==
    /\ file \in Databases /\ draft \in Databases
    /\ holder \in Processes \cup {Nobody}
    /\ holder = Nobody => draft = file
    /\ at \in [Processes -> Steps]
    /\ position \in [Processes -> [migration : 1 .. LastMigration + 1,
                                   statement : 1 .. Statements + 1]]
    /\ asked \in [Processes -> Asked]
    /\ crashes \in 0 .. MaxCrashes
    /\ commands \in 0 .. MaxCommands
    /\ deletes \in 0 .. MaxDeletes

\* Migrate: "every embedded migration that has not run yet, in filename order,
\* each inside its own transaction": whoever died where, the file has the tables
\* of the recorded migrations, all of them and no others, and those are the first.
SchemaWhole ==
    /\ file.tables = file.recorded \X (1 .. Statements)
    /\ \A m \in file.recorded : 1 .. m \subseteq file.recorded

\* A server answers requests only over the complete schema and, if an account is
\* configured, with one to sign in to, though another process did half of the work and
\* died.  (With none configured it may serve with none, as docker-compose.yml says.)
ServingIsReady ==
    \A s \in Servers : at[s] = "serving" =>
       /\ file.recorded = Migrations
       /\ asked[s].account = "given" => file.password # NoPassword

\* README, Configuration: "a restart must not undo a password you changed with
\* -reset, nor resurrect one you rotated": the password of the account changes only
\* in the second half of an admin-create -reset, also when the start looked the
\* account up before it was created and creates it after.
PasswordChangesByResetOnly ==
    [][file.password # NoPassword /\ file'.password # file.password
          => \E p \in Commands : at[p] = "reset" /\ asked[p].reset]_vars

DB == INSTANCE DatabaseFile WITH
    recorded <- file.recorded,
    tables   <- file.tables,
    projects <- file.projects,
    password <- file.password

\* db.go, seed.go and main.go together: the processes that start at a file, seed it,
\* give it an account and serve it are one after another steps of DatabaseFile, though
\* each asks first and writes later, and others write in between.
ImplementsDatabaseFile == DB!FileSpec

\* Every start that failed because another process got ahead is made good by the
\* next: in the end every server serves whose environment is in order from some time on.
InOrder == {env \in Settings : env.seed # "unreadable" /\ env.account # "unfit"}

EventuallyUp ==
    \A s \in Servers : <>[](asked[s] \in InOrder) => <>[](at[s] = "serving")
=============================================================================
