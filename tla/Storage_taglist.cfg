\* A tag is created by its first use in one environment of a project of two.
SPECIFICATION Spec
CONSTANTS
  p1 = p1  prod = prod  dev = dev  k = k  v1 = v1  v2 = v2  t = t
  ProjectSlugs = {p1}
  EnvSlugs = {prod, dev}
  DefaultEnvironment = prod
  Keys = {k}
  Values = {v1, v2}
  TagNames = {t}
  MaxId = 2
  MaxVersion = 2
  MaxStamp = 3
PROPERTIES StampCoversTagList
