SPECIFICATION Spec
CONSTANT
  Statements = 4
INVARIANTS
  Inv
  NothingLeftOpen
PROPERTIES
  ImplementsOutcome
CHECK_DEADLOCK FALSE
