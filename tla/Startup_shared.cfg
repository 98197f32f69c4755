\* Two servers and an admin-create at one fresh file, and kills between any steps;
\* with fairness, every failed start is made good by the next.
SPECIFICATION LiveSpec
CONSTANTS
  s1 = s1  s2 = s2  c1 = c1
  Servers = {s1, s2}
  Commands = {c1}
  Nobody = Nobody
  LastMigration = 2
  Statements = 2
  SeedIds = {1, 2}
  Deployments <- Environments
  Passwords = {envPassword, otherPassword}
  EnvPassword = envPassword
  NoPassword = NoPassword
  MaxProject = 2
  MaxCrashes = 1
  MaxCommands = 1
  MaxDeletes = 2
INVARIANTS TypeOK SchemaWhole ServingIsReady
PROPERTIES PasswordChangesByResetOnly ImplementsDatabaseFile EventuallyUp
