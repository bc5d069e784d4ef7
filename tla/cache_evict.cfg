SPECIFICATION FairSpec
CONSTANTS
  t1 = t1
  t2 = t2
  Refs = {r1, r2}
  Contents = {c1, c2}
  Size <- UnitSize
  Callers = {t1}
  Evictor = worker
  MaxBytes = 1
  EvictBatch = 1
  PurgeBatch = 1
  StaleAfter = 5
  MaxTime = 0
  Faults = {"fs", "cancel"}
  NoRow = NoRow
  NoFile = NoFile
INVARIANT NoLostEviction
PROPERTIES EvictionConverges IndexIsStore
