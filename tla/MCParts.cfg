CONSTANTS
  NumVars = 3
  MaxClauses = 3
  NbParts = 2
  WordSize = 16
  Text = 99
  NaN = NaN
  MostLines = 4
  MostClauses = 3
  MostBranches = 4
  MostAsked = 6
  MostEdits = 2
  Edited <- FilesEdited
  MostWords = 3
  Device = {{}, {0, 1, 7, 20, 31}}
  MostDrawn = 1
  Sizes = {0, 2, 3, 5, 8}
  Subjects = {"arena", "heap", "arrays", "readers", "command", "vector", "union", "literals", "formula", "partition", "startup", "utilities", "generator", "build", "calls"}
SPECIFICATION MCSpec
INVARIANTS
  ArenaSound
  ArraysRight
  ReadersAgree
  CommandRight
  ToolsRight
  CutRight
  StartRight
  UtilitiesRight
  GeneratorRight
PROPERTY ImplementsQueue
CHECK_DEADLOCK FALSE
