CONSTANTS
  NumVars = 4
  Problems <- SmallProblems
SPECIFICATION FairSpec
INVARIANTS
  ClausesExact
  WatchesSound
  AnswersRight
PROPERTY Termination
