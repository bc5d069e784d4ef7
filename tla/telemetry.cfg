SPECIFICATION Spec
CONSTANTS
  Recorders = {r1, r2}
  Detached = {r2}
  Streams = {s1, s2}
  Buffer = 1
  Kinds <- MCKinds
  EventDays = 0
  MetricDays = 0
  Limit = 1
  MaxEvents = 3
  MaxNow = 2
  Nobody = Nobody
  NoEvent = NoEvent
ACTION_CONSTRAINT FocusStep
INVARIANTS TalliesAgree WalkComplete FeedComplete OrderlyClose
PROPERTY ShutdownEnds
CHECK_DEADLOCK FALSE
