SPECIFICATION FairSpec
CONSTANTS
  Workers = 1
  Acceptors = {a, b}
  Servlets = {s}
  None = None
  MaxPosted = 1
  MaxConnections = 0
INVARIANTS
  TypeOK OneOwner StaleRemoveHarmless RemovedServletUnused IdleMeansUnused
PROPERTIES CallsReturn FinishedRemoved UpgradesServed
