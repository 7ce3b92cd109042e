SPECIFICATION FairSpec
CONSTANTS
  Request = {r1, r2}
  None = None
  MaxSession = 2
  MaxChallenge = 0
  MaxLink = 1
  MaxPassword = 2
  MaxSecret = 0
  MaxTime = 2
INVARIANTS SignedOutStaysOut LinksSetOne
PROPERTY EveryRequestEnds
CHECK_DEADLOCK FALSE
