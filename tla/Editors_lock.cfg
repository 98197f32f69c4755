\* Two editors of one key, which is deleted and created again.
SPECIFICATION Spec
CONSTANTS
  e1 = e1  e2 = e2
  Editors = {e1, e2}
  MaxVersion = 3
  MaxIncarnations = 2
SYMMETRY EditorSymmetry
INVARIANTS TypeOK NoBlindOverwrite ToggleFlipsThePage AppliedOnce
