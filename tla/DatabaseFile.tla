---------------------------- MODULE DatabaseFile ----------------------------
(***************************************************************************)
(* What a database file is to whoever opens it, however many processes     *)
(* start at it and wherever they die: the tables of the first migrations,  *)
(* whole; nothing in them before they are all there; and nobody at work on *)
(* the projects before there is an account.  A process is not mentioned,   *)
(* nor a transaction: a step is what a commit makes of the file.  Startup  *)
(* implements this.                                                        *)
(***************************************************************************)
EXTENDS Integers

CONSTANTS
    LastMigration,   \* the migration files, in the order of their names
    Statements,      \* statements of each migration
    SeedIds,         \* ids of the demo projects
    ProjectIds,
    Passwords, NoPassword

VARIABLES
    recorded,   \* the migrations in schema_migrations
    tables,     \* the tables that are there, by migration and statement
    projects,   \* the ids in use
    password    \* of the admin account

fileVars == <<recorded, tables, projects, password>>

SchemaOf(m) == recorded = 1 .. m /\ tables = (1 .. m) \X (1 .. Statements)

FileInit ==
    /\ SchemaOf(0)
    /\ projects = {}
    /\ password = NoPassword

\* The next migration, with all its tables.
Migrate ==
    /\ \E m \in 1 .. LastMigration : SchemaOf(m - 1) /\ SchemaOf(m)'
    /\ UNCHANGED <<projects, password>>

Migrated == SchemaOf(LastMigration)

\* All the demo projects, beside what others have made meanwhile.
Seed ==
    /\ Migrated
    /\ projects \cap SeedIds = {}
    /\ projects' = projects \cup SeedIds
    /\ UNCHANGED <<recorded, tables, password>>

\* The account is made, or given another password; it does not go.
SetPassword ==
    /\ Migrated
    /\ password' \in Passwords
    /\ UNCHANGED <<recorded, tables, projects>>

EditProjects ==
    /\ Migrated
    /\ password # NoPassword
    /\ \E id \in ProjectIds : projects' \in {projects \cup {id}, projects \ {id}}
    /\ UNCHANGED <<recorded, tables, password>>

FileNext == Migrate \/ Seed \/ SetPassword \/ EditProjects

FileSpec == FileInit /\ [][FileNext]_fileVars
=============================================================================
