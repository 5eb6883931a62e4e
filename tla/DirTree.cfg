SPECIFICATION Spec
CONSTANTS
  Name = {a, b, c}
  Hash = {s}
  NoHash = none
  MaxPath = 2
  NumNodes = 4
INVARIANTS
  OperationsAgree
PROPERTIES
  ImplementsPathTree
