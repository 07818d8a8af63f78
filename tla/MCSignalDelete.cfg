SPECIFICATION Spec
CONSTANTS
  Slots = {s1, s2}
  NoSlot = NoSlot
  MaxConn = 3
  MaxDepth = 2
  DeleteDepth = 2
INVARIANT SentriesSeeDeletion
CHECK_DEADLOCK FALSE
