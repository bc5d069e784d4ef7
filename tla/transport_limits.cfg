SPECIFICATION FairNetSpec
CONSTANTS
  Hosts = {h1}
  Calls = {a, b, c}
  BaseDelay = 1
  MaxDelay = 3
  ShiftCap = 1
  RetryAfters = {0, 5, 9}
  Second = 1
  Word = 16
  Rate = 1
  Burst = 1
  MaxConc = 1
  MaxDebt = 2
  NoHost = NoHost
  NoHint = NoHint
INVARIANT SlotsExact
PROPERTY CircuitCloses
