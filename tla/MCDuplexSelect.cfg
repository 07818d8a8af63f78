SPECIFICATION Spec
CONSTANTS
  Backends = {"select"}
  MaxInput = 2
  MaxSends = 3
  Garbage = {}
INVARIANT
  NeverBlocks
