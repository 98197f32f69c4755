\* Two projects with up to two environments between them; every id is handed out
\* again, and the environment with id 2 is watched.
SPECIFICATION Spec
CONSTANTS
  Observed = 2
  p1 = p1  p2 = p2  prod = prod  dev = dev  k = k  v1 = v1  t = t
  ProjectSlugs = {p1, p2}
  EnvSlugs = {prod, dev}
  DefaultEnvironment = prod
  Keys = {k}
  Values = {v1}
  TagNames = {t}
  MaxId = 2
  MaxVersion = 2
  MaxStamp = 3
SYMMETRY ProjectSymmetry
INVARIANTS TypeOK Referential
PROPERTIES StampCoversContent ImplementsEnvStore
