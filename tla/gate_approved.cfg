SPECIFICATION WarmSpec
CONSTANTS
  Refs = {r1}
  Contents = {c1, c2}
  Size <- UnitSize
  Requests = {q1, q2}
  Consoles = {admin}
  Evictor = worker
  MaxBytes = 0
  EvictBatch = 1
  PurgeBatch = 1
  StaleAfter = 1
  MaxTime = 2
  Faults = {"write", "crash"}
  HasCVE = FALSE
  HasPolicy = TRUE
  HasAV = TRUE
  Deferred = TRUE
  CVETTL = 0
  MalTTL = 1
  NoRow = NoRow
  NoFile = NoFile
  Nobody = Nobody
ACTION_CONSTRAINT FocusStep
SYMMETRY RequestSymmetry
INVARIANTS ServedApproved
