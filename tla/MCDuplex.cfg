SPECIFICATION FairSpec
CONSTANTS
  Backends = {"poll", "epoll"}
  MaxInput = 2
  MaxSends = 3
  Garbage = {}
INVARIANTS
  TypeOK
  NeverBlocks
PROPERTIES
  InputReported
  OutputReported
  PollKeepsReports
