SPECIFICATION FairSpec
CONSTANTS
  Thread = {p, q}
  Source = {a, b}
  Sink = {x, y}
  Dmx = Dmx
  None = None
  MaxEntries = 2
  SubscribeTwice = FALSE
CHECK_DEADLOCK FALSE
INVARIANTS
  TypeOK NoDangling LinksAgree NoCircularWait
PROPERTIES ImplementsDelivery SendReachesAll CallsEnd
