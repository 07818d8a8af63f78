SPECIFICATION Spec
CONSTANTS
  Slots = {s1, s2}
  NoSlot = NoSlot
  MaxConn = 4
  MaxDepth = 3
  DeleteDepth = 1
SYMMETRY SlotSymmetry
INVARIANTS
  TypeOK
  IteratorsValid
  CleanBetweenSends
PROPERTY ImplementsMulticast
CHECK_DEADLOCK FALSE
