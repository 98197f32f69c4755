\* A save with invalid JSON, while another editor saves the same config.
SPECIFICATION CardSpec
CONSTANTS
  e1 = e1  e2 = e2
  Editors = {e1, e2}
  MaxVersion = 3
  MaxIncarnations = 1
PROPERTIES SavesOverWhatWasShown
