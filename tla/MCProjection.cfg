CONSTANTS
  NumVars = 3
  MaxClauses = 8
  WordSize = 16
  MaxShort = 4
  MaxOdd = 3
  None = None
  Formulas <- Files
SPECIFICATION FairSpec
INVARIANTS
  IndexExact
  NbActiveExact
  Inv
  ProjectionExact
PROPERTIES
  StableIteration
  Termination
