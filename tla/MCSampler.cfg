CONSTANTS
  NumVars = 4
  N = 2
  Buffers = {2, 16}
  Inputs <- GraphPairs
SPECIFICATION FairSpec
INVARIANTS CountsRight AnswersRight
PROPERTIES Termination
