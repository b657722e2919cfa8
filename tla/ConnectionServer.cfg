CONSTANTS
  Scids = {a, b}
  None = None
SPECIFICATION Spec
SYMMETRY Symmetric
INVARIANTS
  TypeOK
  SubStoppable
  AnswerOwed
PROPERTY ImplementsProtocol
CONSTRAINT Narrow
CHECK_DEADLOCK FALSE
