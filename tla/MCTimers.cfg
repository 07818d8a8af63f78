SPECIFICATION FairSpec
CONSTANTS
  Timer = {t1, t2}
  None = None
  Intervals = {1, 2}
  MaxInterval = 2
  MaxTime = 3
  SlotsMay = {"attach", "throw"}
INVARIANTS
  TypeOK
  NoOversleep
PROPERTIES
  RunOncePerTime
  DueTimersRun
