SPECIFICATION Spec
CONSTANTS
  Request = {r1, r2}
  None = None
  MaxSession = 1
  MaxChallenge = 0
  MaxLink = 2
  MaxPassword = 1
  MaxSecret = 0
  MaxTime = 1
INVARIANT OneLinkLives
CHECK_DEADLOCK FALSE
