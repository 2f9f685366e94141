SPECIFICATION Spec
CONSTANTS
  MaxPath = 3
  Nowhere = Nowhere
INVARIANTS TypeOK CwdAsAsked
CHECK_DEADLOCK FALSE
