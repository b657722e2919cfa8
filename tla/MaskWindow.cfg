CONSTANTS
  Conns = {k1, k2}
  Movers = {v1}
  Clients = {c1}
  Sizes = {tall, wide}
  Windows = {1, 2}
  None = None
SPECIFICATION FairSpec
INVARIANTS
  TypeOK
  WindowFollows
  ShownAsTold
PROPERTIES
  AllAnswered
  ImplementsProtocol
CHECK_DEADLOCK FALSE
