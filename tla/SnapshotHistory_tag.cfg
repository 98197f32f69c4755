\* A tag is deleted between the two listings of a filtered snapshot.
SPECIFICATION HistorySpec
CONSTANTS
  c1 = c1  t = t  b0 = b0  b1 = b1
  NoTag = ""
  Filters = {"", t}
  Bodies = {b0, b1}
  EmptyBody = b0
  MaxStamp = 3
  Clients = {c1}
  Urls <- OneSnapshot
  MaxGenerations = 2
INVARIANTS NeverHalfAWrite
