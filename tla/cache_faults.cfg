SPECIFICATION FairSpec
CONSTANTS
  t1 = t1
  t2 = t2
  Refs = {r1}
  Contents = {c1}
  Size <- TwoSize
  Callers = {t1, t2}
  Evictor = worker
  MaxBytes = 1
  EvictBatch = 1
  PurgeBatch = 1
  StaleAfter = 1
  MaxTime = 2
  Faults = {"read", "write", "fs", "unlink", "cancel", "crash", "power", "close"}
  NoRow = NoRow
  NoFile = NoFile
ACTION_CONSTRAINT FocusStep
PROPERTIES PurgeTerminates PurgeShrinks DirectoryIsStore
