SPECIFICATION MCSpec
CONSTANTS
  Names = {admin, u}
  Admin = admin
  Junk = junk
  Passwords = {p1, p2}
  IPs = {ip}
  Requests = {q1, q2}
  PairLimit = 1
  IPLimit = 2
  StartClock = 4
  MaxClock = 6
  NoUser = NoUser
  NoName = NoName
  NoIP = NoIP
SYMMETRY Symmetry
INVARIANTS AdminRemains NoRevivedToken StreamRevoked LockoutEarned
