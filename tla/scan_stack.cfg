SPECIFICATION MCSpec
CONSTANTS
  clam = clam
  icap = icap
  Scans = {c1, c2}
  Clamd = {clam}
  Icap = {icap}
  Limit = 1
  Lookups = {l1, l2}
  Packages = {p}
  TTL = 2
  Patience = 1
  Probed <- MCProbed
  Interval = 1
  MaxProbe = 1
  ReadyTTL = 1
  ReadyTimeout = 1
ACTION_CONSTRAINT FocusStep
INVARIANTS FailClosed EnginesBounded AnswersFresh OutageNoticed
PROPERTIES ScanEnds ReadyRecovers
