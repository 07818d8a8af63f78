SPECIFICATION Spec
CONSTANTS
  Backends = {"epoll"}
  MaxInput = 2
  MaxSends = 3
  Garbage = {}
PROPERTY
  ReportsKept
