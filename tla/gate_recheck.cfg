SPECIFICATION WarmFairSpec
CONSTANTS
  Refs = {r1}
  Contents = {c1}
  Size <- UnitSize
  Requests = {q1, q2}
  Consoles = {}
  Evictor = worker
  MaxBytes = 0
  EvictBatch = 1
  PurgeBatch = 1
  StaleAfter = 1
  MaxTime = 3
  Faults = {}
  HasCVE = TRUE
  HasPolicy = TRUE
  HasAV = FALSE
  Deferred = FALSE
  CVETTL = 1
  MalTTL = 1
  NoRow = NoRow
  NoFile = NoFile
  Nobody = Nobody
ACTION_CONSTRAINT TimedStep
INVARIANTS OneFlightPerRef
PROPERTIES RecheckStampHonest Answered
