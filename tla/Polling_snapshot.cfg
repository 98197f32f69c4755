\* One client that polls the snapshot with and without a filter and one flag, and goes on.
SPECIFICATION HistoryLiveSpec
CONSTANTS
  c1 = c1  t = t  b0 = b0  b1 = b1
  NoTag = ""
  Filters = {"", t}
  Bodies = {b0, b1}
  EmptyBody = b0
  MaxStamp = 1
  Clients = {c1}
  Urls <- Polled
  MaxGenerations = 1
INVARIANTS TypeOK NoStale304 UnfilteredIsWhole
PROPERTIES EtagNeverRegresses EventuallyFresh
