\* A form of the panel and a call of a client, among any other writes.
SPECIFICATION AccessSpec
CONSTANTS
  a = a  b = b  prod = prod
  ProjectSlugs = {a, b}
  EnvSlugs = {prod}
  DefaultEnvironment = prod
  Keys = {}
  Values = {}
  TagNames = {}
  MaxId = 2
  MaxVersion = 1
  MaxStamp = 0
  MaxItemId = 1
INVARIANTS AccessTypeOK RefusedOnceGone
PROPERTIES ActsOnTheRowShown StaysInTheEnvironmentShown
