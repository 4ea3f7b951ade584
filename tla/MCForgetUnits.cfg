CONSTANTS
  NumVars = 3
  MaxClauses = 8
  WordSize = 16
  MaxShort = 0
  MaxOdd = 2
  None = None
  Formulas <- Files
SPECIFICATION Spec
INVARIANT ForgetIsProjection
