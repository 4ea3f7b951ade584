SPECIFICATION FairSpec
CONSTANTS
  NumVars = 3
  MaxClauses = 4
  WordSize = 16
  NbParts = 2
  Text = Text
  None = None
  Empty = Empty
  Files <- SmallFiles
  Scripts <- AllScripts
INVARIANTS BoundsHold FilesRight
PROPERTY ScriptEnds
