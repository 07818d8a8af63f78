SPECIFICATION Spec
CONSTANTS
  Workers = 1
  Acceptors = {a, b}
  Servlets = {s}
  None = None
  MaxPosted = 1
  MaxConnections = 0
INVARIANT
  RemovedServletGone
