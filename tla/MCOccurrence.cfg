CONSTANTS
  NumVars = 4
  Formulas <- SmallFormulas
SPECIFICATION Spec
INVARIANTS
  ListsExact
  CountersExact
  ListOperationsLegal
  ComponentsExact
PROPERTIES
  ImplementsResidual
