\* A page outlives the record it shows: the key is created again, at version 1.
SPECIFICATION Spec
CONSTANTS
  e1 = e1  e2 = e2
  Editors = {e1, e2}
  MaxVersion = 3
  MaxIncarnations = 2
INVARIANTS NeverOverwritesUnseen
