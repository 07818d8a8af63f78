SPECIFICATION FairSpec
CONSTANTS
  Threads = {t1, t2}
  Loop = Loop
  Selectables = {1}
  Handles = {h1}
  Wake = Wake
  MaxEvents = 2
  MaxExpired = 1
  MaxThrows = 1
  MayThrow = {"timer", "selectable"}
INVARIANTS
  TypeOK
  NoLostWake
PROPERTIES
  EventsDelivered
  ExitEndsRun
CHECK_DEADLOCK FALSE
