SPECIFICATION Spec
CONSTANTS
  m1 = m1
  m2 = m2
  b1 = b1
  b2 = b2
  b3 = b3
  q1 = q1
  q2 = q2
  Manifests = {m1, m2}
  Blobs = {b1, b2, b3}
  Requests = {q1, q2}
  HasAV = TRUE
  Rechecks = TRUE
  AttestMax = 1
  ClientWait = TRUE
  None = None
  Kind <- SomeKinds
  Layers <- SomeLayers
  Wants <- SomeWants
INVARIANTS BlockHolds StaleOnlyOnFailure BlobGated Attended
