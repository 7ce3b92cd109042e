SPECIFICATION EitherSpec
CONSTANTS
  Request = {r1, r2}
  None = None
  MaxSession = 2
  MaxChallenge = 2
  MaxLink = 0
  MaxPassword = 1
  MaxSecret = 2
  MaxTime = 2
SYMMETRY Requests
INVARIANTS TypeOK CodesSpentOnce ChallengesOpenOne EnrolmentProved
PROPERTIES EnrolmentSticks OldSecretRefused
CHECK_DEADLOCK FALSE
