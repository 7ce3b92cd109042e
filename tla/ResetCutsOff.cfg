SPECIFICATION Spec
CONSTANTS
  Request = {r1, r2}
  None = None
  MaxSession = 1
  MaxChallenge = 1
  MaxLink = 1
  MaxPassword = 2
  MaxSecret = 1
  MaxTime = 2
INVARIANT ResetCutsOff
CHECK_DEADLOCK FALSE
