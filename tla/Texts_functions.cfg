\* Every text of a bounded length.  A call that has returned is the end.
SPECIFICATION Spec
CHECK_DEADLOCK FALSE
CONSTANTS
  FileChars <- SqlChars
  QueryChars <- TypedChars
  NameChars = {"a", "b", "_"}
  HeaderParts <- ListParts
  ETag <- ThisETag
  MaxFile = 6
  MaxQuery = 3
  MaxName = 3
  MaxHeader = 6
INVARIANTS SplitsAtSemicolonsOfCode SearchIsForTheText MatchesWhatIsListed
