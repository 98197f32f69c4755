---------------------------- MODULE StartupProofs ----------------------------
(* What processes that start at one file, and die, leave in it: proved for     *)
(* Startup, for every number of processes, migrations and statements.          *)
EXTENDS Startup, TLAPS

(***************************************************************************)
(* The inductive invariant says where a process can be (Place), what it    *)
(* was run for (Role) and what its transaction has done so far (Undone):   *)
(* the draft is the file with the first statements of one migration.       *)
(* Nobody asks again what was recorded before the write lock was had; that *)
(* the tables are not made twice rests on the first statement failing.     *)
(***************************************************************************)
Working == {"apply", "fill"}
Behind  == {"count", "seed", "fill", "lookup", "account", "serving", "create", "reset"}

Place(p) ==
    /\ at[p] \in Working <=> holder = p
    /\ at[p] \in {"track", "check", "begin"} => position[p].statement = 1
    /\ at[p] \in {"begin", "apply"} => position[p].migration \in Migrations
    /\ at[p] \in {"track", "check", "begin", "apply"}
          => 1 .. (position[p].migration - 1) \subseteq file.recorded
    /\ at[p] \in Behind => Migrations \subseteq file.recorded
    /\ at[p] = "serving" /\ asked[p].account = "given" => file.password # NoPassword

Role(p) ==
    /\ p \in Servers => at[p] \notin {"create", "reset"}
    /\ p \in Commands => at[p] \notin {"count", "seed", "fill", "lookup", "account", "serving"}
    /\ p \in Commands /\ at[p] # "down" => asked[p].password \in Passwords
    /\ at[p] = "reset" => asked[p].reset

StatementsOf(m, n) == {m} \X (1 .. n)

Undone(p) ==
    /\ at[p] = "fill" => draft = file
    /\ at[p] = "apply" =>
          draft = [file EXCEPT !.tables =
                      @ \cup StatementsOf(position[p].migration, position[p].statement - 1)]

Inv ==
    /\ TypeOK
    /\ SchemaWhole
    /\ \A p \in Processes : Place(p) /\ Role(p) /\ Undone(p)

LEMMA Numbers ==
    /\ LastMigration \in Nat /\ Statements \in Nat
    /\ MaxProject \in Nat /\ MaxCrashes \in Nat /\ MaxCommands \in Nat /\ MaxDeletes \in Nat
BY StartupConstants

LEMMA InitInv == Init => Inv
<1> SUFFICES ASSUME Init
             PROVE  Inv
  OBVIOUS
<1>1. /\ Empty \in Databases
      /\ Empty.recorded = {} /\ Empty.tables = {}
  BY DEF Empty, Databases
<1>2. /\ StartOfFile \in [migration : 1 .. LastMigration + 1, statement : 1 .. Statements + 1]
      /\ NotAsked \in Asked
  BY Numbers DEF StartOfFile, NotAsked, Asked
<1>3. TypeOK
  BY <1>1, <1>2, Numbers DEF Init, TypeOK, Steps
<1>4. SchemaWhole
  BY <1>1 DEF Init, SchemaWhole
<1>5. ASSUME NEW p \in Processes
      PROVE  Place(p) /\ Role(p) /\ Undone(p)
  <2>1. at[p] = "down" /\ holder # p
    BY StartupConstants DEF Init
  <2> QED
    BY <2>1 DEF Place, Role, Undone, Working, Behind
<1> QED
  BY <1>3, <1>4, <1>5 DEF Inv

(***************************************************************************)
(* A step of p touches the file and the draft only while no other process  *)
(* has the lock, and takes nothing back that is recorded.                  *)
(***************************************************************************)
Forward ==
    /\ file.recorded \subseteq file'.recorded
    /\ file.password # NoPassword => file'.password # NoPassword

Alone(p) ==
    /\ \A q \in Processes : q # p =>
          /\ at'[q] = at[q] /\ position'[q] = position[q] /\ asked'[q] = asked[q]
          /\ holder = q <=> holder' = q
          /\ holder = q => file' = file /\ draft' = draft
    /\ Forward

LEMMA OthersStay ==
    ASSUME NEW p \in Processes, NEW q \in Processes, q # p, Alone(p),
           Place(q), Role(q), Undone(q)
    PROVE  Place(q)' /\ Role(q)' /\ Undone(q)'
<1>1. /\ at'[q] = at[q] /\ position'[q] = position[q] /\ asked'[q] = asked[q]
      /\ holder = q <=> holder' = q
      /\ holder = q => file' = file /\ draft' = draft
      /\ file.recorded \subseteq file'.recorded
      /\ file.password # NoPassword => file'.password # NoPassword
  BY DEF Alone, Forward
<1>2. Place(q)'
  BY <1>1 DEF Place
<1>3. Role(q)'
  BY <1>1 DEF Role
<1>4. Undone(q)'
  <2>1. at[q] \in Working => holder = q
    BY DEF Place
  <2>2. CASE at[q] \in Working
    BY <1>1, <2>1, <2>2 DEF Undone
  <2>3. CASE at[q] \notin Working
    BY <1>1, <2>3 DEF Undone, Working
  <2> QED
    BY <2>2, <2>3
<1> QED
  BY <1>2, <1>3, <1>4

LEMMA ProcessStep ==
    ASSUME Inv, NEW p \in Processes, Alone(p),
           TypeOK', SchemaWhole', Place(p)', Role(p)', Undone(p)'
    PROVE  Inv'
<1> SUFFICES ASSUME NEW q \in Processes
             PROVE  Place(q)' /\ Role(q)' /\ Undone(q)'
  BY DEF Inv
<1> QED
  BY OthersStay DEF Inv

LEMMA SameSchema ==
    ASSUME SchemaWhole, file'.tables = file.tables, file'.recorded = file.recorded
    PROVE  SchemaWhole'
BY DEF SchemaWhole

(***************************************************************************)
(* A process ends.                                                         *)
(***************************************************************************)
LEMMA ExitStep ==
    ASSUME Inv, NEW p \in Processes, Exit(p), UNCHANGED <<position, asked>>,
           crashes' \in 0 .. MaxCrashes, commands' \in 0 .. MaxCommands,
           deletes' \in 0 .. MaxDeletes
    PROVE  Inv'
<1>1. /\ at' = [at EXCEPT ![p] = "down"] /\ file' = file
      /\ holder = p => draft' = file /\ holder' = Nobody
      /\ holder # p => draft' = draft /\ holder' = holder
      /\ Nobody # p
  BY StartupConstants DEF Exit, GoTo, RollBack
<1>2. at' \in [Processes -> Steps] /\ at'[p] = "down"
  BY <1>1 DEF Inv, TypeOK, Steps
<1>3. Alone(p)
  BY <1>1, StartupConstants DEF Alone, Forward, Inv, TypeOK
<1>4. TypeOK'
  BY <1>1, <1>2 DEF Inv, TypeOK
<1>5. SchemaWhole'
  BY <1>1 DEF Inv, SchemaWhole
<1>6. Place(p)' /\ Role(p)' /\ Undone(p)'
  BY <1>1, <1>2 DEF Place, Role, Undone, Working, Behind
<1> QED
  BY <1>3, <1>4, <1>5, <1>6, ProcessStep

LEMMA TimedOutStep == ASSUME Inv, NEW p \in Processes, TimedOut(p) PROVE Inv'
BY ExitStep DEF TimedOut, counted, Inv, TypeOK

LEMMA CrashStep == ASSUME Inv, NEW p \in Processes, Crash(p) PROVE Inv'
<1>1. crashes' \in 0 .. MaxCrashes
  BY Numbers DEF Crash, Inv, TypeOK
<1> QED
  BY <1>1, ExitStep DEF Crash, Inv, TypeOK

(***************************************************************************)
(* Steps that only move the process on.                                    *)
(***************************************************************************)
LEMMA MoveStep ==
    ASSUME Inv, NEW p \in Processes, NEW step \in Steps, GoTo(p, step),
           at[p] \notin Working, step \notin Working,
           position' \in [Processes -> [migration : 1 .. LastMigration + 1,
                                        statement : 1 .. Statements + 1]],
           asked' \in [Processes -> Asked],
           \A q \in Processes : q # p => position'[q] = position[q] /\ asked'[q] = asked[q],
           UNCHANGED <<file, draft, holder, crashes, deletes>>,
           commands' \in 0 .. MaxCommands,
           step \in {"track", "check", "begin"} => position'[p].statement = 1,
           step = "begin" => position'[p].migration \in Migrations,
           step \in {"track", "check", "begin"} =>
              1 .. (position'[p].migration - 1) \subseteq file.recorded,
           step \in Behind => Migrations \subseteq file.recorded,
           step = "serving" /\ asked'[p].account = "given" => file.password # NoPassword,
           Role(p)'
    PROVE  Inv'
<1>1. /\ at' \in [Processes -> Steps] /\ at'[p] = step
      /\ \A q \in Processes : q # p => at'[q] = at[q]
  BY DEF GoTo, Inv, TypeOK
<1>2. Alone(p)
  BY <1>1 DEF Alone, Forward
<1>3. TypeOK'
  BY <1>1 DEF Inv, TypeOK
<1>4. SchemaWhole'
  BY DEF Inv, SchemaWhole
<1>5. Place(p)'
  <2>1. holder # p
    BY DEF Inv, Place
  <2> QED
    BY <1>1, <2>1 DEF Place, Working
<1>6. Undone(p)'
  BY <1>1 DEF Undone, Working
<1> QED
  BY <1>2, <1>3, <1>4, <1>5, <1>6, ProcessStep

LEMMA StartStep == ASSUME Inv, NEW p \in Processes, Start(p) PROVE Inv'
<1>1. StartOfFile \in [migration : 1 .. LastMigration + 1, statement : 1 .. Statements + 1]
      /\ StartOfFile.migration = 1 /\ StartOfFile.statement = 1
  BY Numbers DEF StartOfFile
<1>2. /\ at[p] = "down" /\ GoTo(p, "track")
      /\ position' = [position EXCEPT ![p] = StartOfFile]
      /\ UNCHANGED <<file, draft, holder, crashes, deletes>>
  BY DEF Start, FirstStep
<1>3. /\ position' \in [Processes -> [migration : 1 .. LastMigration + 1,
                                      statement : 1 .. Statements + 1]]
      /\ position'[p] = StartOfFile
      /\ \A q \in Processes : q # p => position'[q] = position[q]
  BY <1>1, <1>2 DEF Inv, TypeOK
<1>4. 1 .. (1 - 1) \subseteq file.recorded
  OBVIOUS
<1>5. CASE p \in Servers
  <2>1. UNCHANGED commands /\ p \notin Commands
    BY <1>5, StartupConstants DEF Start
  <2>2. at'[p] = "track"
    BY <1>2 DEF GoTo, Inv, TypeOK
  <2>3. Role(p)'
    BY <2>1, <2>2 DEF Role
  <2>4. /\ asked' \in [Processes -> Asked]
        /\ \A q \in Processes : q # p => asked'[q] = asked[q]
    <3>1. PICK env \in Deployments[p] : asked' = [asked EXCEPT ![p] = env]
      BY <1>5 DEF Start
    <3>2. env \in Asked
      BY <1>5, StartupConstants DEF Asked
    <3> QED
      BY <3>1, <3>2 DEF Inv, TypeOK
  <2> QED
    BY <1>1, <1>2, <1>3, <1>4, <2>1, <2>3, <2>4, MoveStep
       DEF Inv, TypeOK, Working, Behind, Steps
<1>6. CASE p \notin Servers
  <2>1. PICK reset \in BOOLEAN, pw \in Passwords :
           asked' = [asked EXCEPT ![p] = [reset |-> reset, password |-> pw]]
    BY <1>6 DEF Start
  <2>2. /\ asked' \in [Processes -> Asked]
        /\ asked'[p].password \in Passwords
        /\ \A q \in Processes : q # p => asked'[q] = asked[q]
    BY <2>1 DEF Inv, TypeOK, Asked
  <2>3. commands' \in 0 .. MaxCommands
    BY <1>6, Numbers DEF Start, Inv, TypeOK
  <2>4. at'[p] = "track"
    BY <1>2 DEF GoTo, Inv, TypeOK
  <2>5. Role(p)'
    BY <1>6, <2>2, <2>4 DEF Role
  <2> QED
    BY <1>1, <1>2, <1>3, <1>4, <2>2, <2>3, <2>5, MoveStep
       DEF Inv, TypeOK, Working, Behind, Steps
<1> QED
  BY <1>5, <1>6

LEMMA CheckStep == ASSUME Inv, NEW p \in Processes, Check(p) PROVE Inv'
<1> DEFINE m == position[p].migration
           next == [migration |-> m + 1, statement |-> 1]
<1>1. /\ at[p] = "check"
      /\ UNCHANGED <<file, draft, holder, asked, crashes, commands, deletes>>
      /\ position[p].statement = 1
      /\ 1 .. (m - 1) \subseteq file.recorded
      /\ position[p] \in [migration : 1 .. LastMigration + 1, statement : 1 .. Statements + 1]
      /\ p \in Commands => asked[p].password \in Passwords
  BY DEF Check, counted, Inv, TypeOK, Place, Role
<1>2. m \in Nat /\ m >= 1
  BY <1>1, Numbers
<1>a. \A step \in Steps : GoTo(p, step) => at'[p] = step
  BY DEF GoTo, Inv, TypeOK
<1>3. CASE m > LastMigration
  <2> DEFINE step == IF p \in Servers THEN "count" ELSE "create"
  <2>1. GoTo(p, step) /\ UNCHANGED position
    BY <1>3 DEF Check
  <2>2. Migrations \subseteq file.recorded
    BY <1>1, <1>2, <1>3, Numbers DEF Migrations
  <2>3. step \in Steps \ Working /\ step \notin {"track", "check", "begin", "serving"}
    BY DEF Steps, Working
  <2>4. Role(p)'
    BY <1>1, <1>a, <2>1, <2>3, StartupConstants DEF Role, Processes
  <2> HIDE DEF step
  <2> QED
    BY <1>1, <2>1, <2>2, <2>3, <2>4, MoveStep DEF Inv, TypeOK, Working
<1>4. CASE ~ (m > LastMigration) /\ Pending(m)
  <2>1. GoTo(p, "begin") /\ UNCHANGED position
    BY <1>4 DEF Check
  <2>2. m \in Migrations
    BY <1>2, <1>4, Numbers DEF Migrations
  <2>3. Role(p)'
    BY <1>1, <1>a, <2>1 DEF Role, Steps
  <2> QED
    BY <1>1, <2>1, <2>2, <2>3, MoveStep DEF Inv, TypeOK, Working, Behind, Steps
<1>5. CASE ~ (m > LastMigration) /\ ~ Pending(m)
  <2>1. position' = [position EXCEPT ![p] = next] /\ UNCHANGED at
    BY <1>5 DEF Check
  <2>2. GoTo(p, "check")
    BY <1>1, <2>1 DEF GoTo, Inv, TypeOK
  <2>3. /\ next \in [migration : 1 .. LastMigration + 1, statement : 1 .. Statements + 1]
        /\ next.migration = m + 1 /\ next.statement = 1
    BY <1>2, <1>5, Numbers
  <2> HIDE DEF next
  <2>4. /\ position' \in [Processes -> [migration : 1 .. LastMigration + 1,
                                        statement : 1 .. Statements + 1]]
        /\ position'[p] = next
        /\ \A q \in Processes : q # p => position'[q] = position[q]
    BY <2>1, <2>3 DEF Inv, TypeOK
  <2>5. 1 .. m \subseteq file.recorded /\ m + 1 - 1 = m
    <3>1. m \in file.recorded
      BY <1>5 DEF Pending
    <3> QED
      BY <3>1, <1>2 DEF Inv, SchemaWhole
  <2>6. Role(p)'
    BY <1>1, <2>1 DEF Role
  <2> QED
    BY <1>1, <2>2, <2>3, <2>4, <2>5, <2>6, MoveStep
       DEF Inv, TypeOK, Working, Behind, Steps
<1> QED
  BY <1>3, <1>4, <1>5

LEMMA LookStep ==
    ASSUME Inv, NEW p \in Processes, CountProjects(p) \/ LookUpAccount(p)
    PROVE  Inv'
<1>1. /\ at[p] \in {"count", "lookup"}
      /\ UNCHANGED <<position, asked, crashes, commands, deletes>>
      /\ Migrations \subseteq file.recorded /\ Role(p)
  BY DEF CountProjects, LookUpAccount, counted, Behind, Inv, Place
<1>2. CASE Exit(p)
  BY <1>1, <1>2, ExitStep DEF Inv, TypeOK
<1>3. CASE ~ Exit(p)
  <2>1. PICK step \in {"seed", "lookup", "account", "serving"} :
           /\ GoTo(p, step)
           /\ step = "serving" /\ asked[p].account = "given" => file.password # NoPassword
    BY <1>3 DEF CountProjects, LookUpAccount
  <2>2. UNCHANGED <<file, draft, holder>>
    BY <1>3 DEF CountProjects, LookUpAccount
  <2>3. at'[p] = step
    BY <2>1 DEF GoTo, Inv, TypeOK
  <2>4. Role(p)'
    BY <1>1, <2>1, <2>3 DEF Role
  <2> QED
    BY <1>1, <2>1, <2>2, <2>4, MoveStep DEF Inv, TypeOK, Working, Behind, Steps
<1> QED
  BY <1>2, <1>3

(***************************************************************************)
(* Single statements: none of them touches the schema.                     *)
(***************************************************************************)
LEMMA StatementStep ==
    ASSUME Inv, NEW p \in Processes, NEW step \in Steps, GoTo(p, step),
           at[p] \notin Working, step \notin Working \cup {"track", "begin"},
           NEW db \in Databases, ExecAlone(db),
           db.tables = file.tables, db.recorded = file.recorded,
           file.password # NoPassword => db.password # NoPassword,
           UNCHANGED <<position, asked, crashes, commands>>, deletes' \in 0 .. MaxDeletes,
           step = "check" => at[p] = "track",
           step \in Behind => Migrations \subseteq file.recorded,
           step = "serving" /\ asked[p].account = "given" => db.password # NoPassword,
           Role(p)'
    PROVE  Inv'
<1>1. /\ at' \in [Processes -> Steps] /\ at'[p] = step
      /\ \A q \in Processes : q # p => at'[q] = at[q]
  BY DEF GoTo, Inv, TypeOK
<1>2. /\ holder = Nobody /\ holder' = holder
      /\ file' = db /\ draft' = db
  BY DEF ExecAlone
<1>3. Alone(p)
  BY <1>1, <1>2, StartupConstants DEF Alone, Forward
<1>4. TypeOK'
  BY <1>1, <1>2 DEF Inv, TypeOK
<1>5. SchemaWhole'
  BY <1>2, SameSchema DEF Inv
<1>6. Place(p)'
  <2>1. holder # p
    BY <1>2, StartupConstants
  <2>2. Place(p)
    BY DEF Inv
  <2> QED
    BY <1>1, <1>2, <2>1, <2>2 DEF Place, Working
<1>7. Undone(p)'
  BY <1>1 DEF Undone, Working
<1> QED
  BY <1>3, <1>4, <1>5, <1>6, <1>7, ProcessStep

LEMMA TrackStep == ASSUME Inv, NEW p \in Processes, Track(p) PROVE Inv'
<1>1. /\ at[p] = "track" /\ GoTo(p, "check")
      /\ UNCHANGED <<position, asked, crashes, commands, deletes>>
      /\ Place(p) /\ Role(p) /\ at'[p] = "check"
  BY DEF Track, GoTo, counted, Inv, TypeOK
<1>2. Role(p)'
  BY <1>1 DEF Role
<1>3. CASE file.tracked
  <2>1. UNCHANGED <<file, draft, holder>>
    BY <1>3 DEF Track
  <2> QED
    BY <1>1, <1>2, <2>1, MoveStep DEF Inv, TypeOK, Place, Working, Behind, Steps
<1>4. CASE ~ file.tracked
  <2> DEFINE db == [file EXCEPT !.tracked = TRUE]
  <2>1. /\ db \in Databases
        /\ db.tables = file.tables /\ db.recorded = file.recorded
        /\ db.password = file.password
    BY DEF Inv, TypeOK, Databases
  <2>2. ExecAlone(db)
    BY <1>4 DEF Track
  <2> HIDE DEF db
  <2> QED
    BY <1>1, <1>2, <2>1, <2>2, StatementStep DEF Inv, TypeOK, Working, Behind, Steps
<1> QED
  BY <1>3, <1>4

\* CreateUser writes nothing but the password of an account there was none of.
LEMMA AccountFacts ==
    ASSUME NEW db \in Databases, NEW pw \in Passwords
    PROVE  /\ WithAccount(db, pw) \in Databases
           /\ WithAccount(db, pw).tables = db.tables
           /\ WithAccount(db, pw).recorded = db.recorded
           /\ WithAccount(db, pw).password # NoPassword
           /\ db.password # NoPassword => WithAccount(db, pw).password = db.password
BY StartupConstants DEF WithAccount, Databases

LEMMA CreateAccountStep ==
    ASSUME Inv, NEW p \in Processes, CreateAccount(p)
    PROVE  Inv'
<1>1. /\ at[p] = "account" /\ GoTo(p, "serving") /\ at'[p] = "serving"
      /\ UNCHANGED <<position, asked, crashes, commands, deletes>>
      /\ Migrations \subseteq file.recorded /\ Role(p)
  BY DEF CreateAccount, GoTo, counted, Inv, TypeOK, Place, Behind, Steps
<1>2. Role(p)'
  BY <1>1 DEF Role
<1> DEFINE db == WithAccount(file, EnvPassword)
<1>3. /\ db \in Databases
      /\ db.tables = file.tables /\ db.recorded = file.recorded
      /\ db.password # NoPassword
  BY AccountFacts, StartupConstants DEF Inv, TypeOK
<1>4. ExecAlone(db)
  BY DEF CreateAccount
<1> HIDE DEF db
<1> QED
  BY <1>1, <1>2, <1>3, <1>4, StatementStep DEF Inv, TypeOK, Working, Steps

LEMMA AdminCreateStep == ASSUME Inv, NEW p \in Processes, AdminCreate(p) PROVE Inv'
<1>1. /\ at[p] = "create" /\ Role(p)
      /\ UNCHANGED <<position, asked, crashes, commands, deletes>>
      /\ Migrations \subseteq file.recorded
  BY DEF AdminCreate, counted, Inv, Place, Behind
<1>2. asked[p].password \in Passwords /\ p \notin Servers
  BY <1>1 DEF Role, Processes
<1>3. PICK step \in {"reset", "down"} :
         GoTo(p, step) /\ (step = "reset" => asked[p].reset)
  BY DEF AdminCreate
<1>4. at'[p] = step
  BY <1>3 DEF GoTo, Inv, TypeOK
<1>5. Role(p)'
  BY <1>1, <1>2, <1>3, <1>4 DEF Role
<1> DEFINE db == WithAccount(file, asked[p].password)
<1>6. /\ db \in Databases
      /\ db.tables = file.tables /\ db.recorded = file.recorded
      /\ db.password # NoPassword
  BY <1>2, AccountFacts DEF Inv, TypeOK
<1>7. ExecAlone(db)
  BY DEF AdminCreate
<1> HIDE DEF db
<1> QED
  BY <1>1, <1>3, <1>5, <1>6, <1>7, StatementStep DEF Inv, TypeOK, Working, Steps

LEMMA AdminResetStep == ASSUME Inv, NEW p \in Processes, AdminReset(p) PROVE Inv'
<1>1. /\ at[p] = "reset" /\ Role(p) /\ GoTo(p, "down") /\ at'[p] = "down"
      /\ UNCHANGED <<position, asked, crashes, commands, deletes>>
  BY DEF AdminReset, GoTo, counted, Inv, TypeOK, Steps
<1>2. asked[p].password \in Passwords
  BY <1>1 DEF Role, Processes
<1>3. Role(p)'
  BY <1>1 DEF Role
<1> DEFINE db == [file EXCEPT !.password = asked[p].password]
<1>4. /\ db \in Databases
      /\ db.tables = file.tables /\ db.recorded = file.recorded
      /\ db.password # NoPassword
  BY <1>2, StartupConstants DEF Inv, TypeOK, Databases
<1>5. ExecAlone(db)
  BY DEF AdminReset
<1> HIDE DEF db
<1> QED
  BY <1>1, <1>3, <1>4, <1>5, StatementStep DEF Inv, TypeOK, Working, Behind, Steps

LEMMA ServeStep ==
    ASSUME Inv, NEW p \in Processes, CreateProject(p) \/ DeleteProject(p)
    PROVE  Inv'
<1>1. /\ at[p] = "serving" /\ GoTo(p, "serving") /\ Role(p) /\ Place(p)
      /\ UNCHANGED <<at, position, asked, crashes, commands>>
  BY DEF CreateProject, DeleteProject, SignedIn, GoTo, counted, Inv, TypeOK
<1>2. Role(p)'
  BY <1>1 DEF Role
<1>3. deletes' \in 0 .. MaxDeletes
  BY Numbers DEF CreateProject, DeleteProject, counted, Inv, TypeOK
<1>4. PICK rows \in SUBSET ProjectIds : ExecAlone([file EXCEPT !.projects = rows])
  BY DEF CreateProject, DeleteProject, Inv, TypeOK, Databases
<1> DEFINE db == [file EXCEPT !.projects = rows]
<1>5. /\ db \in Databases
      /\ db.tables = file.tables /\ db.recorded = file.recorded
      /\ db.password = file.password
  BY DEF Inv, TypeOK, Databases
<1>6. ExecAlone(db)
  BY <1>4
<1> HIDE DEF db
<1> QED
  BY <1>1, <1>2, <1>3, <1>5, <1>6, StatementStep
     DEF Inv, TypeOK, Place, Working, Behind, Steps

(***************************************************************************)
(* Transactions.                                                           *)
(***************************************************************************)
LEMMA BeginStep == ASSUME Inv, NEW p \in Processes, BeginTx(p) PROVE Inv'
<1>1. /\ at[p] \in {"begin", "seed"} /\ Place(p) /\ Role(p)
      /\ holder = Nobody /\ holder' = p /\ draft = file
      /\ UNCHANGED <<file, draft, position, asked, crashes, commands, deletes>>
  BY DEF BeginTx, Begin, counted, Inv, TypeOK
<1>2. PICK step \in {"apply", "fill"} :
         /\ at' = [at EXCEPT ![p] = step]
         /\ step = "apply" <=> at[p] = "begin"
  BY <1>1 DEF BeginTx, GoTo
<1>3. /\ at' \in [Processes -> Steps] /\ at'[p] = step
      /\ \A q \in Processes : q # p => at'[q] = at[q]
  BY <1>2 DEF Inv, TypeOK, Steps
<1>4. Alone(p)
  BY <1>1, <1>3, StartupConstants DEF Alone, Forward
<1>5. TypeOK'
  BY <1>1, <1>3, StartupConstants DEF Inv, TypeOK
<1>6. SchemaWhole'
  BY <1>1 DEF Inv, SchemaWhole
<1>7. Place(p)'
  BY <1>1, <1>2, <1>3 DEF Place, Working, Behind
<1>8. Role(p)'
  BY <1>1, <1>2, <1>3 DEF Role
<1>9. Undone(p)'
  <2>1. CASE step = "fill"
    BY <1>1, <1>3, <2>1 DEF Undone
  <2>2. CASE step = "apply"
    <3>1. position[p].statement = 1
      BY <1>1, <1>2, <2>2 DEF Place
    <3>2. StatementsOf(position[p].migration, position[p].statement - 1) = {}
      BY <3>1 DEF StatementsOf
    <3>3. [file EXCEPT !.tables = @ \cup {}] = file
      BY DEF Inv, TypeOK, Databases
    <3> QED
      BY <1>1, <1>3, <2>2, <3>2, <3>3 DEF Undone
  <2> QED
    BY <2>1, <2>2
<1> QED
  BY <1>4, <1>5, <1>6, <1>7, <1>8, <1>9, ProcessStep

\* The process that has the lock commits, and goes on.
LEMMA CommitStep ==
    ASSUME Inv, NEW p \in Processes, NEW step \in Steps \ Working, GoTo(p, step),
           NEW db \in Databases, Commit(db), holder = p,
           file.recorded \subseteq db.recorded, db.password = file.password,
           SchemaWhole',
           position' \in [Processes -> [migration : 1 .. LastMigration + 1,
                                        statement : 1 .. Statements + 1]],
           \A q \in Processes : q # p => position'[q] = position[q],
           UNCHANGED <<asked, crashes, commands, deletes>>,
           step \notin {"track", "begin", "serving"},
           step = "check" => /\ position'[p].statement = 1
                             /\ 1 .. (position'[p].migration - 1) \subseteq db.recorded,
           step \in Behind => Migrations \subseteq file.recorded,
           Role(p)'
    PROVE  Inv'
<1>1. /\ at' \in [Processes -> Steps] /\ at'[p] = step
      /\ \A q \in Processes : q # p => at'[q] = at[q]
  BY DEF GoTo, Inv, TypeOK
<1>2. file' = db /\ draft' = db /\ holder' = Nobody /\ Nobody # p
  BY StartupConstants DEF Commit
<1>3. Alone(p)
  BY <1>1, <1>2, StartupConstants DEF Alone, Forward
<1>4. TypeOK'
  BY <1>1, <1>2 DEF Inv, TypeOK
<1>5. Place(p)'
  BY <1>1, <1>2 DEF Place, Working
<1>6. Undone(p)'
  BY <1>1 DEF Undone, Working
<1> QED
  BY <1>3, <1>4, <1>5, <1>6, ProcessStep

LEMMA FillStep == ASSUME Inv, NEW p \in Processes, Fill(p) PROVE Inv'
<1>1. /\ at[p] = "fill" /\ Place(p) /\ Role(p)
      /\ UNCHANGED <<position, asked, crashes, commands, deletes>>
      /\ holder = p /\ draft = file /\ Migrations \subseteq file.recorded
  BY DEF Fill, counted, Inv, Place, Undone, Working, Behind
<1>2. CASE SeedIds \cap draft.projects # {}
  BY <1>1, <1>2, ExitStep DEF Fill, Inv, TypeOK
<1>3. CASE SeedIds \cap draft.projects = {}
  <2> DEFINE db == [draft EXCEPT !.projects = @ \cup SeedIds]
  <2>1. /\ db \in Databases
        /\ db.tables = file.tables /\ db.recorded = file.recorded
        /\ db.password = file.password
    BY <1>1, StartupConstants DEF Inv, TypeOK, Databases
  <2>2. Commit(db) /\ GoTo(p, "lookup")
    BY <1>3 DEF Fill
  <2> HIDE DEF db
  <2>3. at'[p] = "lookup"
    BY <2>2 DEF GoTo, Inv, TypeOK
  <2>4. Role(p)'
    BY <1>1, <2>3 DEF Role
  <2>5. SchemaWhole'
    BY <2>1, <2>2, SameSchema DEF Commit, Inv
  <2> QED
    BY <1>1, <2>1, <2>2, <2>4, <2>5, CommitStep DEF Inv, TypeOK, Working, Behind, Steps
<1> QED
  BY <1>2, <1>3

\* What the transaction of a migration has done when it is at its statement n.
LEMMA ApplyFacts ==
    ASSUME Inv, NEW p \in Processes, at[p] = "apply"
    PROVE  /\ holder = p /\ Place(p) /\ Role(p)
           /\ position[p].migration \in Migrations
           /\ position[p].migration \in Nat
           /\ position[p].statement \in Nat /\ position[p].statement >= 1
           /\ position[p].statement <= Statements + 1
           /\ position[p] \in [migration : 1 .. LastMigration + 1,
                               statement : 1 .. Statements + 1]
           /\ 1 .. (position[p].migration - 1) \subseteq file.recorded
           /\ draft \in Databases /\ file \in Databases
           /\ draft = [file EXCEPT !.tables =
                 @ \cup StatementsOf(position[p].migration, position[p].statement - 1)]
           /\ draft.tables = file.tables \cup
                 StatementsOf(position[p].migration, position[p].statement - 1)
           /\ draft.recorded = file.recorded /\ draft.password = file.password
<1>1. /\ holder = p /\ Place(p) /\ Role(p) /\ Undone(p)
      /\ position[p] \in [migration : 1 .. LastMigration + 1, statement : 1 .. Statements + 1]
      /\ draft \in Databases /\ file \in Databases
  BY DEF Inv, TypeOK, Place, Working
<1>2. /\ position[p].migration \in Migrations
      /\ 1 .. (position[p].migration - 1) \subseteq file.recorded
  BY <1>1 DEF Place
<1>3. draft = [file EXCEPT !.tables =
                 @ \cup StatementsOf(position[p].migration, position[p].statement - 1)]
  BY <1>1 DEF Undone
<1>4. /\ draft.tables = file.tables \cup
            StatementsOf(position[p].migration, position[p].statement - 1)
      /\ draft.recorded = file.recorded /\ draft.password = file.password
  BY <1>1, <1>3 DEF Databases
<1>5. /\ position[p].migration \in Nat
      /\ position[p].statement \in Nat /\ position[p].statement >= 1
      /\ position[p].statement <= Statements + 1
  BY <1>1, Numbers
<1> QED
  BY <1>1, <1>2, <1>3, <1>4, <1>5

LEMMA Moved ==
    ASSUME NEW p, NEW m, NEW n, at'[p] = "apply", file' = file,
           position'[p].migration = m, position'[p].statement = n + 1,
           draft' = [file EXCEPT !.tables = @ \cup StatementsOf(m, (n + 1) - 1)]
    PROVE  Undone(p)'
<1>1. at'[p] # "fill"
  OBVIOUS
<1>2. StatementsOf(position'[p].migration, position'[p].statement - 1)
         = StatementsOf(m, (n + 1) - 1)
  OBVIOUS
<1> QED
  BY <1>1, <1>2 DEF Undone

LEMMA ApplyStep == ASSUME Inv, NEW p \in Processes, Apply(p) PROVE Inv'
<1> DEFINE m == position[p].migration
           n == position[p].statement
           next == [position[p] EXCEPT !.statement = @ + 1]
           db == [draft EXCEPT !.tables = @ \cup {<<m, n>>}]
<1>1. /\ at[p] = "apply" /\ n <= Statements
      /\ UNCHANGED <<asked, crashes, commands, deletes>>
  BY DEF Apply, counted
<1>2. CASE <<m, n>> \in draft.tables
  BY <1>1, <1>2, ExitStep DEF Apply, Inv, TypeOK
<1>3. CASE <<m, n>> \notin draft.tables
  <2>1. /\ draft' = db /\ UNCHANGED <<file, holder, at>>
        /\ position' = [position EXCEPT ![p].statement = @ + 1]
    BY <1>3 DEF Apply, Execute
  <2>2. position' = [position EXCEPT ![p] = next]
    BY <2>1, <1>1, ApplyFacts
  <2>3. /\ next \in [migration : 1 .. LastMigration + 1, statement : 1 .. Statements + 1]
        /\ next.migration = m /\ next.statement = n + 1
    BY <1>1, ApplyFacts, Numbers
  <2>4. <<m, n>> \in Tables
    BY <1>1, ApplyFacts, Numbers DEF Tables
  <2>5. db \in Databases
    BY <1>1, <2>4, ApplyFacts DEF Databases
  <2> HIDE DEF next
  <2>6. /\ position' \in [Processes -> [migration : 1 .. LastMigration + 1,
                                        statement : 1 .. Statements + 1]]
        /\ position'[p] = next
        /\ \A q \in Processes : q # p => position'[q] = position[q]
    BY <2>2, <2>3 DEF Inv, TypeOK
  <2>7. StatementsOf(m, (n + 1) - 1) = StatementsOf(m, n - 1) \cup {<<m, n>>}
    <3>1. 1 .. ((n + 1) - 1) = (1 .. (n - 1)) \cup {n}
      BY <1>1, ApplyFacts
    <3> QED
      BY <3>1 DEF StatementsOf
  <2>8. db = [file EXCEPT !.tables = @ \cup StatementsOf(m, (n + 1) - 1)]
    <3>1. /\ draft = [file EXCEPT !.tables = @ \cup StatementsOf(m, n - 1)]
          /\ file \in Databases
      BY <1>1, ApplyFacts
    <3> QED
      BY <2>7, <3>1 DEF Databases
  <2> HIDE DEF db
  <2>9. Alone(p)
    BY <1>1, <2>1, <2>6, ApplyFacts DEF Alone, Forward
  <2>10. TypeOK'
    BY <1>1, <2>1, <2>5, <2>6, ApplyFacts, StartupConstants DEF Inv, TypeOK
  <2>11. SchemaWhole'
    BY <2>1 DEF Inv, SchemaWhole
  <2>12. Place(p)'
    BY <1>1, <2>1, <2>3, <2>6, ApplyFacts DEF Place, Working, Behind
  <2>13. Role(p)'
    BY <1>1, <2>1, ApplyFacts DEF Role
  <2>14. Undone(p)'
    <3>1. at'[p] = "apply" /\ file' = file
      BY <1>1, <2>1
    <3>2. position'[p].migration = m /\ position'[p].statement = n + 1
      BY <2>3, <2>6
    <3>3. draft' = [file EXCEPT !.tables = @ \cup StatementsOf(m, (n + 1) - 1)]
      BY <2>1, <2>8
    <3> QED
      BY <3>1, <3>2, <3>3, Moved
  <2> QED
    BY <2>9, <2>10, <2>11, <2>12, <2>13, <2>14, ProcessStep
<1> QED
  BY <1>2, <1>3

\* All statements are in the draft, and the row that says so is the last.
LEMMA RecordStep == ASSUME Inv, NEW p \in Processes, RecordMigration(p) PROVE Inv'
<1> DEFINE m == position[p].migration
           next == [migration |-> m + 1, statement |-> 1]
           db == [draft EXCEPT !.recorded = @ \cup {m}]
<1>1. /\ at[p] = "apply" /\ position[p].statement > Statements
      /\ UNCHANGED <<asked, crashes, commands, deletes>>
  BY DEF RecordMigration, counted
<1>2. CASE m \in draft.recorded
  BY <1>1, <1>2, ExitStep DEF RecordMigration, Inv, TypeOK
<1>3. CASE m \notin draft.recorded
  <2>1. Commit(db) /\ GoTo(p, "check") /\ position' = [position EXCEPT ![p] = next]
    BY <1>3 DEF RecordMigration
  <2>2. position[p].statement - 1 = Statements
    BY <1>1, ApplyFacts, Numbers
  <2>3. /\ db \in Databases
        /\ db.recorded = file.recorded \cup {m} /\ db.password = file.password
        /\ db.tables = file.tables \cup StatementsOf(m, Statements)
    BY <1>1, <2>2, ApplyFacts DEF Databases
  <2>4. /\ next \in [migration : 1 .. LastMigration + 1, statement : 1 .. Statements + 1]
        /\ next.migration = m + 1 /\ next.statement = 1
    <3>1. m \in 1 .. LastMigration /\ m \in Nat
      BY <1>1, ApplyFacts DEF Migrations
    <3> QED
      BY <3>1, Numbers
  <2>5. file' = db
    BY <2>1 DEF Commit
  <2> HIDE DEF db, next
  <2>6. /\ position' \in [Processes -> [migration : 1 .. LastMigration + 1,
                                        statement : 1 .. Statements + 1]]
        /\ position'[p] = next
        /\ \A q \in Processes : q # p => position'[q] = position[q]
    BY <2>1, <2>4 DEF Inv, TypeOK
  <2>7. m \in Nat /\ m >= 1 /\ m + 1 - 1 = m
    BY <1>1, ApplyFacts DEF Migrations
  <2>8. 1 .. m \subseteq db.recorded
    <3>1. 1 .. m = (1 .. (m - 1)) \cup {m}
      BY <2>7
    <3> QED
      BY <1>1, <2>3, <3>1, ApplyFacts
  <2>9. SchemaWhole'
    <3>1. file.tables = file.recorded \X (1 .. Statements)
      BY DEF Inv, SchemaWhole
    <3>2. db.tables = db.recorded \X (1 .. Statements)
      BY <2>3, <3>1 DEF StatementsOf
    <3>3. \A k \in db.recorded : 1 .. k \subseteq db.recorded
      BY <2>3, <2>8 DEF Inv, SchemaWhole
    <3> QED
      BY <2>5, <3>2, <3>3 DEF SchemaWhole
  <2>10. at'[p] = "check"
    BY <2>1 DEF GoTo, Inv, TypeOK
  <2>11. Role(p)'
    BY <1>1, <2>10, ApplyFacts DEF Role
  <2> QED
    BY <1>1, <2>1, <2>3, <2>4, <2>6, <2>7, <2>8, <2>9, <2>11, ApplyFacts, CommitStep
       DEF Working, Behind, Steps
<1> QED
  BY <1>2, <1>3
-----------------------------------------------------------------------------
LEMMA StartupStep == Inv /\ [Next]_vars => Inv'
<1> SUFFICES ASSUME Inv, [Next]_vars
             PROVE  Inv'
  OBVIOUS
<1>1. CASE UNCHANGED vars
  BY <1>1 DEF vars, counted, Inv, TypeOK, SchemaWhole, Place, Role, Undone
<1>2. CASE Next
  <2>1. PICK p \in Processes :
           \/ Start(p) \/ Advance(p) \/ TimedOut(p)
           \/ CreateProject(p) \/ DeleteProject(p) \/ Serve(p)
           \/ Crash(p)
    BY <1>2 DEF Next
  <2>2. CASE Start(p)
    BY <2>2, StartStep
  <2>3. CASE Track(p) \/ Check(p) \/ CountProjects(p) \/ LookUpAccount(p)
    BY <2>3, TrackStep, CheckStep, LookStep
  <2>4. CASE BeginTx(p) \/ Apply(p) \/ RecordMigration(p) \/ Fill(p)
    BY <2>4, BeginStep, ApplyStep, RecordStep, FillStep
  <2>5. CASE CreateAccount(p) \/ AdminCreate(p) \/ AdminReset(p)
    BY <2>5, CreateAccountStep, AdminCreateStep, AdminResetStep
  <2>6. CASE CreateProject(p) \/ DeleteProject(p)
    BY <2>6, ServeStep
  <2>7. CASE TimedOut(p) \/ Crash(p)
    BY <2>7, TimedOutStep, CrashStep
  <2>8. CASE Serve(p)
    BY <1>1, <2>8 DEF Serve
  <2> QED
    BY <2>1, <2>2, <2>3, <2>4, <2>5, <2>6, <2>7, <2>8 DEF Advance
<1> QED
  BY <1>1, <1>2

LEMMA StartupInvariant == Spec => []Inv
<1>1. Init => Inv
  BY InitInv
<1>2. Inv /\ [Next]_vars => Inv'
  BY StartupStep
<1> QED
  BY <1>1, <1>2, PTL DEF Spec

\* The file, the draft and the lock keep their shapes, and an unlocked file has no
\* draft of its own.
THEOREM StartupTypeCorrect == Spec => []TypeOK
<1>1. Inv => TypeOK
  BY DEF Inv
<1> QED
  BY <1>1, StartupInvariant, PTL

\* However many processes migrate one file at once, and wherever they are killed, the
\* tables in it are those of the recorded migrations, and these are the first.
THEOREM SchemaWholeCorrect == Spec => []SchemaWhole
<1>1. Inv => SchemaWhole
  BY DEF Inv
<1> QED
  BY <1>1, StartupInvariant, PTL

\* A server that answers requests does so over the complete schema, and with an account
\* if one is configured: whether it made the account, found it, or lost the race for it.
THEOREM ServingIsReadyCorrect == Spec => []ServingIsReady
<1>1. Inv => ServingIsReady
  <2> SUFFICES ASSUME Inv, NEW s \in Servers, at[s] = "serving"
               PROVE  /\ file.recorded = Migrations
                      /\ asked[s].account = "given" => file.password # NoPassword
    BY DEF ServingIsReady
  <2>1. Place(s) /\ file.recorded \subseteq Migrations
    BY DEF Inv, TypeOK, Databases, Processes
  <2> QED
    BY <2>1 DEF Place, Behind
<1> QED
  BY <1>1, StartupInvariant, PTL
-----------------------------------------------------------------------------
\* No other step stores a password where there is one.
LEMMA OnlyByReset ==
    ASSUME Inv, [Next]_vars, file.password # NoPassword, file'.password # file.password
    PROVE  \E p \in Commands : at[p] = "reset" /\ asked[p].reset
<1>1. Next
  BY DEF vars
<1>2. PICK p \in Processes :
         \/ Start(p) \/ Advance(p) \/ TimedOut(p)
         \/ CreateProject(p) \/ DeleteProject(p) \/ Serve(p)
         \/ Crash(p)
  BY <1>1 DEF Next
<1>3. file \in Databases /\ Place(p) /\ Role(p) /\ Undone(p)
  BY DEF Inv, TypeOK
<1>4. CASE AdminReset(p)
  BY <1>3, <1>4 DEF AdminReset, Role, Processes
<1>5. CASE Fill(p) \/ RecordMigration(p)
  <2>1. draft.password = file.password
    BY <1>3, <1>5 DEF Fill, RecordMigration, Undone, Databases
  <2>2. draft \in Databases
    BY DEF Inv, TypeOK
  <2> QED
    BY <1>5, <2>1, <2>2 DEF Fill, RecordMigration, Commit, Exit, RollBack, Databases
<1>6. CASE Track(p) \/ CreateAccount(p) \/ AdminCreate(p)
  BY <1>3, <1>6 DEF Track, CreateAccount, AdminCreate, ExecAlone, WithAccount, Databases
<1>7. CASE CreateProject(p) \/ DeleteProject(p)
  BY <1>3, <1>7 DEF CreateProject, DeleteProject, ExecAlone, Databases
<1>8. \/ AdminReset(p)
      \/ Fill(p) \/ RecordMigration(p)
      \/ Track(p) \/ CreateAccount(p) \/ AdminCreate(p)
      \/ CreateProject(p) \/ DeleteProject(p)
  BY <1>2 DEF Advance, Start, Check, BeginTx, Begin, Apply, Execute, CountProjects,
              LookUpAccount, TimedOut, Serve, Crash, Exit, RollBack, vars
<1> QED
  BY <1>4, <1>5, <1>6, <1>7, <1>8

\* A start never touches the password of an account that exists, also when the account
\* was made between its look-up and its insert, by a server or a command.
THEOREM PasswordChangesByResetOnlyCorrect == Spec => PasswordChangesByResetOnly
<1> DEFINE ByReset ==
      file.password # NoPassword /\ file'.password # file.password
         => \E p \in Commands : at[p] = "reset" /\ asked[p].reset
<1>1. Inv /\ [Next]_vars => [ByReset]_vars
  BY OnlyByReset
<1> QED
  BY <1>1, StartupInvariant, PTL DEF Spec, PasswordChangesByResetOnly

(***************************************************************************)
(* The refinement.  A step of Startup is seen through four fields of the   *)
(* file; most steps leave these as they are.                               *)
(***************************************************************************)
Seen == <<file.recorded, file.tables, file.projects, file.password>>

LEMMA SchemaIs ==
    ASSUME Inv, Migrations \subseteq file.recorded
    PROVE  DB!Migrated
<1>1. file.recorded = 1 .. LastMigration
  BY DEF Inv, TypeOK, Databases, Migrations
<1> QED
  BY <1>1 DEF Inv, SchemaWhole, DB!Migrated, DB!SchemaOf

LEMMA InitFile == Init => DB!FileInit
BY DEF Init, Empty, DB!FileInit, DB!SchemaOf

\* Whoever dies or gives up, the file stays.
LEMMA ExitIsUnseen == ASSUME NEW p, Exit(p) PROVE UNCHANGED file
BY DEF Exit, RollBack

LEMMA TrackIsUnseen == ASSUME Inv, NEW p \in Processes, Track(p) PROVE UNCHANGED Seen
<1>1. file' = file \/ file' = [file EXCEPT !.tracked = TRUE]
  BY DEF Track, ExecAlone
<1> QED
  BY <1>1 DEF Seen, Inv, TypeOK, Databases

\* The recorded migrations are those before the one whose transaction commits: no
\* later one is recorded without it.
LEMMA RecordIsMigrate ==
    ASSUME Inv, SchemaWhole', NEW p \in Processes, RecordMigration(p)
    PROVE  DB!Migrate \/ UNCHANGED Seen
<1>0. PICK m \in Nat : m = position[p].migration
  BY ApplyFacts DEF RecordMigration
<1>1. /\ at[p] = "apply"
      /\ m \in Migrations /\ m \in Nat /\ 1 .. (m - 1) \subseteq file.recorded
      /\ file \in Databases /\ draft \in Databases
      /\ draft.recorded = file.recorded
  BY <1>0, ApplyFacts DEF RecordMigration
<1>2. CASE m \in draft.recorded
  BY <1>0, <1>2, ExitIsUnseen DEF RecordMigration, Seen
<1>3. CASE m \notin draft.recorded
  <2>1. file' = [draft EXCEPT !.recorded = @ \cup {m}]
    BY <1>0, <1>3 DEF RecordMigration, Commit
  <2>2. /\ file'.recorded = file.recorded \cup {m}
        /\ file'.password = draft.password /\ file'.projects = draft.projects
    BY <1>1, <2>1 DEF Databases
  <2>3. draft.password = file.password /\ draft.projects = file.projects
    <3>1. draft = [file EXCEPT !.tables =
                      @ \cup StatementsOf(m, position[p].statement - 1)]
      BY <1>0, <1>1, ApplyFacts
    <3> QED
      BY <1>1, <3>1 DEF Databases
  <2>4. ASSUME NEW k \in file.recorded
        PROVE  k \in 1 .. m - 1
    <3>1. k \in 1 .. LastMigration /\ 1 .. k \subseteq file.recorded
      BY <1>1 DEF Inv, SchemaWhole, Databases, Migrations
    <3>2. ~ (m \in 1 .. k)
      BY <1>1, <1>3, <3>1
    <3>3. m >= 1 /\ k \in Nat /\ k >= 1
      BY <1>1, <3>1, Numbers DEF Migrations
    <3>4. ~ (m <= k)
      BY <3>2, <3>3
    <3> QED
      BY <3>3, <3>4
  <2>5. file.recorded = 1 .. m - 1
    BY <1>1, <2>4
  <2>6. file'.recorded = 1 .. m /\ m \in 1 .. LastMigration
    BY <1>1, <2>2, <2>5, Numbers DEF Migrations
  <2>7. DB!SchemaOf(m - 1) /\ DB!SchemaOf(m)'
    BY <2>5, <2>6 DEF DB!SchemaOf, Inv, SchemaWhole
  <2> QED
    BY <2>2, <2>3, <2>6, <2>7 DEF DB!Migrate
<1> QED
  BY <1>2, <1>3

LEMMA FillIsSeed ==
    ASSUME Inv, NEW p \in Processes, Fill(p)
    PROVE  DB!Seed \/ UNCHANGED Seen
<1>1. /\ draft = file /\ Migrations \subseteq file.recorded
      /\ file \in Databases
  BY DEF Fill, Inv, TypeOK, Place, Undone, Behind
<1>2. CASE SeedIds \cap draft.projects # {}
  BY <1>2, ExitIsUnseen DEF Fill, Seen
<1>3. CASE SeedIds \cap draft.projects = {}
  <2>1. file' = [file EXCEPT !.projects = @ \cup SeedIds]
    BY <1>1, <1>3 DEF Fill, Commit
  <2>2. /\ file'.projects = file.projects \cup SeedIds
        /\ UNCHANGED <<file.recorded, file.tables, file.password>>
    BY <1>1, <2>1 DEF Databases
  <2>3. DB!Migrated
    BY <1>1, SchemaIs
  <2> QED
    BY <1>1, <1>3, <2>2, <2>3 DEF DB!Seed
<1> QED
  BY <1>2, <1>3

\* A statement that gives the account a password.
LEMMA SetsPassword ==
    ASSUME Inv, Migrations \subseteq file.recorded, NEW pw \in Passwords,
           \/ file' = WithAccount(file, pw)
           \/ file' = [file EXCEPT !.password = pw]
    PROVE  DB!SetPassword \/ UNCHANGED Seen
<1>1. file \in Databases
  BY DEF Inv, TypeOK
<1>2. file' = file \/ file' = [file EXCEPT !.password = pw]
  BY DEF WithAccount
<1>3. CASE file' = [file EXCEPT !.password = pw]
  <2>1. /\ file'.password = pw
        /\ UNCHANGED <<file.recorded, file.tables, file.projects>>
    BY <1>1, <1>3 DEF Databases
  <2> QED
    BY <2>1, SchemaIs DEF DB!SetPassword
<1> QED
  BY <1>2, <1>3 DEF Seen

LEMMA AccountIsSetPassword ==
    ASSUME Inv, NEW p \in Processes, CreateAccount(p) \/ AdminCreate(p) \/ AdminReset(p)
    PROVE  DB!SetPassword \/ UNCHANGED Seen
<1>1. /\ Migrations \subseteq file.recorded
      /\ at[p] \in {"create", "reset"} => asked[p].password \in Passwords
  BY DEF CreateAccount, AdminCreate, AdminReset, Inv, Place, Role, Behind, Processes
<1>2. CASE CreateAccount(p)
  BY <1>1, <1>2, SetsPassword, StartupConstants DEF CreateAccount, ExecAlone
<1>3. CASE AdminCreate(p)
  BY <1>1, <1>3, SetsPassword DEF AdminCreate, ExecAlone
<1>4. CASE AdminReset(p)
  BY <1>1, <1>4, SetsPassword DEF AdminReset, ExecAlone
<1> QED
  BY <1>2, <1>3, <1>4

LEMMA ServeIsEdit ==
    ASSUME Inv, NEW p \in Processes, CreateProject(p) \/ DeleteProject(p)
    PROVE  DB!EditProjects
<1>1. /\ at[p] = "serving" /\ file \in Databases
      /\ Migrations \subseteq file.recorded /\ file.password # NoPassword
  BY DEF CreateProject, DeleteProject, SignedIn, Inv, TypeOK, Place, Behind
<1>2. PICK id \in ProjectIds : \/ file' = [file EXCEPT !.projects = @ \cup {id}]
                               \/ file' = [file EXCEPT !.projects = @ \ {id}]
  BY <1>1 DEF CreateProject, DeleteProject, ExecAlone, Databases
<1>3. /\ file'.projects \in {file.projects \cup {id}, file.projects \ {id}}
      /\ UNCHANGED <<file.recorded, file.tables, file.password>>
  BY <1>1, <1>2 DEF Databases
<1> QED
  BY <1>1, <1>3, SchemaIs DEF DB!EditProjects

LEMMA StepOfFile == Inv /\ Inv' /\ [Next]_vars => [DB!FileNext]_Seen
<1> SUFFICES ASSUME Inv, Inv', [Next]_vars
             PROVE  DB!FileNext \/ UNCHANGED Seen
  BY DEF Seen
<1>1. CASE UNCHANGED vars
  BY <1>1 DEF vars, Seen
<1>2. ASSUME NEW p \in Processes,
             \/ Start(p) \/ Check(p) \/ BeginTx(p) \/ Apply(p)
             \/ CountProjects(p) \/ LookUpAccount(p) \/ TimedOut(p)
             \/ Serve(p) \/ Crash(p)
      PROVE  UNCHANGED Seen
  <2>1. UNCHANGED file
    BY <1>2, ExitIsUnseen DEF Start, Check, BeginTx, Begin, Apply, Execute,
       CountProjects, LookUpAccount, TimedOut, Serve, Crash, vars
  <2> QED
    BY <2>1 DEF Seen
<1>3. ASSUME NEW p \in Processes,
             \/ Track(p) \/ RecordMigration(p) \/ Fill(p)
             \/ CreateAccount(p) \/ AdminCreate(p) \/ AdminReset(p)
             \/ CreateProject(p) \/ DeleteProject(p)
      PROVE  DB!FileNext \/ UNCHANGED Seen
  BY <1>3, TrackIsUnseen, RecordIsMigrate, FillIsSeed, AccountIsSetPassword, ServeIsEdit
     DEF DB!FileNext, Inv
<1> QED
  BY <1>1, <1>2, <1>3 DEF Next, Advance

\* db.go, seed.go and main.go together: what the processes make of the file, however
\* many there are and wherever they die, are steps of DatabaseFile.
THEOREM ImplementsDatabaseFileCorrect == Spec => ImplementsDatabaseFile
<1>1. Init => DB!FileInit
  BY InitFile
<1>2. Inv /\ Inv' /\ [Next]_vars => [DB!FileNext]_DB!fileVars
  BY StepOfFile DEF Seen, DB!fileVars
<1> QED
  BY <1>1, <1>2, StartupInvariant, PTL DEF Spec, ImplementsDatabaseFile, DB!FileSpec
=============================================================================
