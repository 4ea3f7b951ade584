SPECIFICATION Spec
CONSTANTS
  NumVars = 6
  PageSize = 60
  MaxPages = 4
  MaxSearches = 4
  Formulas <- MCFormulas
  HashOf <- MCHashOf
  Nothing = Nothing
  NotFound = NotFound
INVARIANT BlocksDisjoint
PROPERTY ImplementsStore
