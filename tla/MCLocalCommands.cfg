\* Three inputs, three indicators, a file of five lines or of two.
SPECIFICATION LocalFairSpec
CONSTANTS
  Pins = 3
  c1 = c1
  c2 = c2
  both = both
  on = on
  off = off
  old = old
  Nothing = Nothing
  Cells = {c1, c2, both}
  Texts = {on, off, old}
  OnCommands <- On
  OffCommands <- Off
  Files <- TwoFiles
INVARIANTS
  FollowsInputs
  FileCannotStop
PROPERTY SettledInputsShown
