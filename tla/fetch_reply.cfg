SPECIFICATION FairSpec
CONSTANTS
  h1 = h1
  h2 = h2
  f1 = f1
  f2 = f2
  Hosts = {h1, h2}
  Calls = {f1, f2}
  BaseDelay = 1
  MaxDelay = 1
  ShiftCap = 0
  RetryAfters = {}
  Second = 1
  Word = 64
  Rate = 1
  Burst = 1
  MaxConc = 1
  MaxDebt = 1
  NoHost = NoHost
  NoHint = NoHint
  Jobs <- SharedJobs
INVARIANTS ReplyJustified
PROPERTY FetchEnds
ACTION_CONSTRAINT Focus
