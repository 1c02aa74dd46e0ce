SPECIFICATION ServerSpec
CONSTANTS
  Calls = {1, 2}
  MaxSnapshots = 1
  Broken = {2}
  Touches = 1
  TouchedMidway = FALSE
  Edits = 3
  Targets = 2
  Settings = {0, 1}
  Default = 0
  Others = 1
CHECK_DEADLOCK FALSE
PROPERTY EditsAreAnalysed
